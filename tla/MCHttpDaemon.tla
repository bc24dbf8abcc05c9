---------------------------- MODULE MCHttpDaemon ----------------------------
(***************************************************************************)
(* A small instance of HttpDaemon for TLC: header blocks of one or two    *)
(* bytes, a buffer of three, and requests on either side of each limit.    *)
(* A size_t of four bits wraps where the real one does, at the sum of a    *)
(* header block and a length just below its modulus.                       *)
(***************************************************************************)
EXTENDS HttpDaemon, TLC

CONSTANTS c1, c2, c3

Plain ==
    [hdr |-> 1, body |-> 0, declared |-> 0, spelling |-> "exact", formed |-> TRUE,
     head |-> FALSE, ok |-> TRUE, answer |-> 0, inner |-> FALSE]

WithBody(n) == [Plain EXCEPT !.body = n, !.declared = n]

\* The handler of c1's request may notify this node on c3.
MCInnerOf == (c1 :> c3) @@ (c2 :> NoConn) @@ (c3 :> NoConn)

MCRequestsOn ==
    (c1 :> { [Plain EXCEPT !.inner = TRUE],
             [Plain EXCEPT !.head = TRUE, !.answer = 1] })
    @@ (c2 :> { WithBody(3),                                \* exceeds the buffer
                WithBody(2),                                \* fills the buffer
                [Plain EXCEPT !.hdr = 2, !.answer = 1],     \* may come in two pieces
                [WithBody(2) EXCEPT !.body = 1],            \* less than declared
                [WithBody(1) EXCEPT !.spelling = "lower", !.ok = FALSE],
                [WithBody(2) EXCEPT !.spelling = "tight"],  \* must come in one piece
                [WithBody(3) EXCEPT !.spelling = "tight"],
                [Plain EXCEPT !.declared = -1],             \* passes both checks
                [Plain EXCEPT !.formed = FALSE],
                [Plain EXCEPT !.hdr = 3] })                 \* ends where the parser fails
    @@ (c3 :> {Plain})
=============================================================================
