----------------------------- MODULE MCMessages -----------------------------
(***************************************************************************)
(* Requests for TLC: what the example nodes send, and what other clients   *)
(* of the CSE do, each varied in one respect at a time.                    *)
(***************************************************************************)
EXTENDS Messages

MCSpLike == {"-", "zerom2m.example.com", "id-in"}

MCSegment ==
    {"", "~", "_", "zerom2m", "cse", "base", "light", "state", "http:", "10.0.0.2:80",
     "peer:80"} \cup MCSpLike

\* The names of the example configuration, a CSE-ID of its own, and one that
\* looks like a service provider.
MCCses ==
    { [name |-> "zerom2m", stem |-> "zerom2m", spId |-> "zerom2m.example.com"],
      [name |-> "base", stem |-> "cse", spId |-> "zerom2m.example.com"],
      [name |-> "base", stem |-> "id-in", spId |-> "zerom2m.example.com"] }

PeerUrl == <<"http:", "", "10.0.0.2:80", "">>
NamedUrl == <<"http:", "", "peer:80", "">>

MCReachable == {PeerUrl}

MCSubscriptions ==
    { [nu |-> PeerUrl, nct |-> "AllAttributes"], [nu |-> PeerUrl, nct |-> "ResourceID"],
      [nu |-> NamedUrl, nct |-> "AllAttributes"] }

Word == [shape |-> "word", marks |-> FALSE, escapes |-> 0]

MCTexts ==
    { [Word EXCEPT !.shape = s, !.marks = m] :
        s \in {"word", "document"}, m \in BOOLEAN }
    \cup { [Word EXCEPT !.shape = s] :
             s \in {"number", "literal", "looseNumber", "looseDocument", "empty"} }

Client == [Node EXCEPT !.client = TRUE]

\* Styles, for the plainest request of a client.
Styles ==
    { [Client EXCEPT !.accept = a] :
        a \in {"", "application/json", "application/vnd.onem2m-res+json", "*/*"} }
    \cup { [Client EXCEPT !.accept = "", !.mime = m] :
             m \in {"application/vnd.onem2m-res+json", "application/xml"} }
    \cup { [Client EXCEPT !.typeInHeader = TRUE], [Client EXCEPT !.length = "other"],
           [Client EXCEPT !.query = {"rcn", "lbl"}], [Client EXCEPT !.wellFormed = FALSE],
           [Client EXCEPT !.method = "HEAD"], [Client EXCEPT !.method = "Unknown"] }

Instance(text) ==
    [kind |-> "cin", has |-> {"rn", "cnf", "con", "lbl"}, text |-> text, rep |-> {}]

Light == [kind |-> "ae", has |-> {"rn", "api", "rr", "poa", "srv", "lbl"},
          text |-> NoText, rep |-> {}]

State == [kind |-> "cnt", has |-> {"rn", "mni", "mbs", "lbl"}, text |-> NoText, rep |-> {}]

\* What SwitchExample sends: the creator is set, but not given by a client.
SwitchSubscription ==
    [kind |-> "sub", has |-> {"rn", "nu", "su", "cr", "net", "chty"}, text |-> NoText,
     rep |-> {}]

Local(text) ==
    [kind |-> "sgn", has |-> {"sur", "nev"}, text |-> NoText,
     rep |-> {[Instance(text) EXCEPT !.has = @ \cup {"cr", "ri", "pi", "ty", "st"}]}]

Creation(content, s, text) ==
    [op |-> "Create", path |-> <<"zerom2m", "light", "state">>, to |-> <<>>,
     from |-> "CLight", rqi |-> "r1", ty |-> content.kind, params |-> {},
     content |-> content, style |-> s, text |-> text]

Plain(content) == Creation(content, Client, NoText)

Retrieval(s) ==
    [Creation(NoContent, s, NoText) EXCEPT !.op = "Retrieve", !.ty = NoType]

Named(q, path) == [q EXCEPT !.path = path]

WithMember(content, members) == [content EXCEPT !.has = @ \cup members]

MCRequests ==
    { Creation(Instance(t), Client, t) : t \in MCTexts }
    \cup { Creation(Instance(Word), s, Word) : s \in Styles }
    \cup { Retrieval(s) : s \in Styles }
    \cup { Named(Retrieval(Client), p) :
             p \in {<<"zerom2m">>, <<"base">>, <<"base", "cse">>, <<"base", "light", "-">>,
                    <<"zerom2m", "zerom2m">>, <<"zerom2m", "zerom2m", "state">>} }
    \cup { Plain(Light), [Plain(Light) EXCEPT !.from = ""], Plain(State),
           Plain(WithMember(Light, {"cr"})),
           Plain(WithMember(State, {"cr=null"})),
           Plain(WithMember(SwitchSubscription, {"creatorProvided"})),
           Plain(WithMember(Instance(Word), {"acpi"})),
           [Plain(Instance(Word)) EXCEPT !.params = {"rvi", "vsi", "rcn"}],
           [Plain(Instance(Word)) EXCEPT !.rqi = ""],
           [Plain(State) EXCEPT !.from = ""],
           [Plain(State) EXCEPT !.ty = NoType],
           [Plain(NoContent) EXCEPT !.ty = "cnt"],
           [Plain(State) EXCEPT !.path = <<>>,
                                !.to = <<"", "", "other.example.com", "cse", "x">>],
           [Plain(State) EXCEPT !.path = <<>>, !.to = <<"", "_", "", "x">>],
           [Plain(State) EXCEPT !.op = "Update", !.ty = NoType],
           [Retrieval(Client) EXCEPT !.op = "Delete"],
           [Creation(SwitchSubscription, Node, NoText) EXCEPT !.from = "RSwitchExample",
                                                              !.params = {"rvi", "rp"}] }
    \cup { [Creation(Local(t), Node, t) EXCEPT !.op = "Notify", !.ty = NoType,
                                               !.path = <<>>, !.to = PeerUrl] :
             t \in {Word, [Word EXCEPT !.marks = TRUE]} }
    \cup { [Creation([Local(Word) EXCEPT !.rep = {Light}], Node, Word) EXCEPT
              !.op = "Notify", !.ty = NoType, !.path = <<>>, !.to = PeerUrl] }
=============================================================================
