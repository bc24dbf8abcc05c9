----------------------------- MODULE Addressing -----------------------------
(***************************************************************************)
(* The addresses of resources (zerom2m/src/onem2m/onem2m_service.cpp,      *)
(* ParseAddressingPath and CanonicalizeAddressingPath).  One resource can  *)
(* be named relative to the CSE, relative to the service provider, or      *)
(* absolutely, each in more than one spelling; the service looks up the    *)
(* canonical form, which is the path below the CSE.                        *)
(*                                                                         *)
(* An address is the sequence of what stands between its slashes, so that  *)
(* "/a/b" is <<"", "a", "b">> and "//a/b" is <<"", "", "a", "b">>.         *)
(***************************************************************************)
EXTENDS Naturals, Sequences

CONSTANTS
    Segment,    \* what may stand between two slashes
    SpLike      \* segments with a '.', a '-' or a ':' in them, which look
                \* like the identifier of a service provider

ASSUME SegmentAssumption ==
    /\ {"", "~", "_", "-"} \subseteq Segment
    /\ SpLike \subseteq Segment
    /\ "-" \in SpLike
    /\ {"", "~", "_"} \cap SpLike = {}

(* The names of this CSE: its resource name, its CSE-ID without the        *)
(* leading slash, and the identifier of its service provider.              *)
CseNames == [name : Segment, stem : Segment, spId : Segment]

-----------------------------------------------------------------------------

(* "//" and "/_/" introduce an absolute address, and so does "/~/" when    *)
(* what follows looks like a service provider.                             *)
IsAbsolute(a) ==
    /\ Len(a) >= 3
    /\ a[2] \in {"", "_"} \/ (a[2] = "~" /\ a[3] \in SpLike)

IsSpRelative(a) == Len(a) >= 3 /\ a[2] = "~" /\ a[3] \notin SpLike

(* What follows the prefix.                                                *)
SegmentsOf(a) ==
    IF IsAbsolute(a) THEN SubSeq(a, 4, Len(a))
    ELSE IF IsSpRelative(a) THEN SubSeq(a, 3, Len(a))
    ELSE Tail(a)

IsAddress(a) ==
    /\ Len(a) >= 2 /\ a[1] = ""
    /\ IsAbsolute(a) =>
         /\ Len(a) >= 4
         /\ a[3] # ""
         /\ a[2] = "" => a[3] \in SpLike
    /\ \A i \in DOMAIN SegmentsOf(a) : SegmentsOf(a)[i] # ""

(* Faulty variant of SkipsCseId: a leading CSE-ID is dropped only after a  *)
(* prefix.                                                                 *)
SkipsCseIdAfterPrefix(a, cse) ==
    /\ Len(SegmentsOf(a)) >= 2
    /\ SegmentsOf(a)[1] = cse.stem
    /\ IsAbsolute(a) \/ IsSpRelative(a)

(* The CSE-ID in front is dropped: after a prefix always, without one only *)
(* where the CSE is named once more.                                       *)
SkipsCseId(a, cse) ==
    /\ Len(SegmentsOf(a)) >= 2
    /\ SegmentsOf(a)[1] = cse.stem
    /\ \/ IsAbsolute(a) \/ IsSpRelative(a)
       \/ SegmentsOf(a)[2] \in {cse.stem, "-"}

(* "-" in front stands for the CSE.                                        *)
PathFrom(s, cse) ==
    IF s[1] = "-" THEN [s EXCEPT ![1] = cse.name] ELSE s

HasWrongSpId(a, cse) ==
    IsAddress(a) /\ IsAbsolute(a) /\ a[3] # cse.spId

IsLocal(a, cse) ==
    /\ IsAddress(a)
    /\ IsAbsolute(a) => a[3] = cse.spId
    /\ IsAbsolute(a) \/ IsSpRelative(a) => SkipsCseId(a, cse)

(* The path below the CSE; meaningful where IsLocal(a, cse).               *)
Canonical(a, cse) ==
    PathFrom(IF SkipsCseId(a, cse) THEN Tail(SegmentsOf(a)) ELSE SegmentsOf(a), cse)

-----------------------------------------------------------------------------
(* Reference: the addresses of the resource with path p, p[1] being the    *)
(* name of the CSE.                                                        *)

Spelled(p, cse) ==
    { <<"">> \o p,                                      \* relative to the CSE
      <<"", "~", cse.stem>> \o p,                       \* to the provider
      <<"", "", cse.spId, cse.stem>> \o p,              \* absolute
      <<"", "_", cse.spId, cse.stem>> \o p,
      <<"", "~", cse.spId, cse.stem>> \o p }

AddressesOf(p, cse) ==
    Spelled(p, cse) \cup Spelled([p EXCEPT ![1] = "-"], cse)
      \cup {<<"", cse.stem>> \o [p EXCEPT ![1] = "-"]}

(* Paths that are told apart from prefixes and from the CSE-ID.            *)
IsPlainPath(p, cse) ==
    /\ Len(p) >= 1 /\ p[1] = cse.name
    /\ cse.name \notin {"~", "_", "-"}
    /\ \A i \in DOMAIN p : p[i] # ""
    /\ ~ (Len(p) >= 2 /\ p[1] = cse.stem /\ p[2] \in {cse.stem, "-"})

(* A CSE-ID that cannot be taken for a prefix or a service provider, and a *)
(* service provider that can.                                              *)
AreDistinctive(cse) ==
    /\ cse.stem \in Segment \ (SpLike \cup {"", "~", "_"})
    /\ cse.spId \in SpLike
=============================================================================
