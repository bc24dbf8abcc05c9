---------------------------- MODULE MCCseService ----------------------------
(***************************************************************************)
(* Small instances of CseService for TLC: a switch node and a light node   *)
(* as the examples of the repository configure them (zerom2m/src/tasks).   *)
(* Identifiers are strings; each run takes the smallest set of requests in *)
(* which the behaviours it is about occur.                                 *)
(***************************************************************************)
EXTENDS CseService, TLC

CONSTANTS t1, t2

Symmetry == Permutations({t1, t2})

Generated == {"C1", "C2", "C3", "C4", "C5", "C6"}
MCResourceId == <<"C1", "C2", "C3", "C4", "C5", "C6">>

Prefix(ty) ==
    CASE ty = "AE" -> "AE"
      [] ty = "Container" -> "cnt"
      [] ty = "ContentInstance" -> "cin"
      [] OTHER -> "sub"

\* Without a generated ID (Null) the name is the prefix alone.
MCDefaultName(ty, i) == Prefix(ty) \o (IF i = Null THEN "" ELSE i)

Chosen == {"zerom2m", "/zerom2m", "CAdmin", "C", "la", "ol", "Rsw", "Rli",
           "switch", "light", "state", "log", "peer", "sw", "Nobody"}

MCIdent == Chosen \cup Generated
           \cup {p \o i : p \in {"AE", "cnt", "cin", "sub"},
                          i \in {"", "Rsw", "Rli", "C", "zerom2m"} \cup Generated}

MCOneChar == {"c"}
MCTwoChar == {"la", "ol", "sw"}
MCStemIds == {"C", "CAdmin"} \cup Generated

CSE == <<"zerom2m">>
Switch == <<"zerom2m", "switch">>
State == <<"zerom2m", "switch", "state">>
Log == <<"zerom2m", "switch", "state", "log">>

-----------------------------------------------------------------------------
\* Requests.

CreateReq(ty, to, from, rn, attr) ==
    [ty |-> ty, to |-> to, form |-> "csRelative", from |-> from, rn |-> rn,
     flaw |-> "none", attr |-> attr]

Flawed(q, flaw) == [q EXCEPT !.flaw = flaw]
From(q, from) == [q EXCEPT !.from = from]
Named(q, rn) == [q EXCEPT !.rn = rn]
To(q, to) == [q EXCEPT !.to = to]
Absolute(q) == [q EXCEPT !.form = "absolute"]

AEAttr(poa) == [aei |-> "C", poa |-> poa, rr |-> TRUE, lbl |-> {}]
CntAttr(mni, mbs) == [mni |-> mni, mbs |-> mbs, disr |-> FALSE, lbl |-> {}]
CinAttr(cs, lbl) == [cs |-> cs, lbl |-> lbl]
SubAttr(nu, chty) ==
    [nu |-> nu, onCreate |-> TRUE, chty |-> chty, lbl |-> {},
     sza |-> NoBound, szb |-> NoBound, cr |-> Null]

SwitchAE == CreateReq("AE", CSE, "Rsw", "switch", AEAttr(<< >>))
StateCnt == CreateReq("Container", Switch, "Rsw", "state", CntAttr(2, 3))
StateCin == CreateReq("ContentInstance", State, "Rsw", NoName, CinAttr(1, {}))
PeerSub == CreateReq("Subscription", State, "Rli", "peer",
                     SubAttr(<<"http://li">>, {"ContentInstance"}))

Get(to, from) == [to |-> to, form |-> "csRelative", from |-> from]

NoRetrieves == {}

\* The limits at their edge, an instance nobody asked for, and subscriptions
\* that race the instances they ask for; an AE that is named like a container.
ConcurrentCreates ==
    {SwitchAE, Named(From(SwitchAE, "Rli"), "state"), StateCnt,
     StateCin, [StateCin EXCEPT !.attr.cs = 2],
     PeerSub, [PeerSub EXCEPT !.attr.nu = <<"http://li", "http://sw">>, !.attr.sza = 1]}

\* An AE that lets the CSE choose its AE-ID subscribes to its own containers
\* by that ID; an AE-ID without a point of access, and one of a foreign AE.
OwnAE == From([SwitchAE EXCEPT !.attr.poa = <<"http://sw", "http://li">>], "C")
OwnCnt == From([StateCnt EXCEPT !.attr.lbl = {"hot"}], "C1")
OwnSub == CreateReq("Subscription", Switch, "C1", "peer", SubAttr(<<"C1">>, {}))
DeliveryCreates ==
    {OwnAE, From(OwnCnt, "Rli"), OwnCnt, [OwnCnt EXCEPT !.attr.lbl = {}], OwnSub,
     [OwnSub EXCEPT !.attr.nu = <<"C2", "C1", "Nobody">>, !.attr.lbl = {"hot"}],
     [PeerSub EXCEPT !.attr.nu = <<"C1", "http://li">>]}

\* Duplicates: the container is created again, and the AE under another name
\* or by another originator;
\* a container addressed by its resource ID rather than by its path.
PowerCreates ==
    {SwitchAE, Named(SwitchAE, "light"), From(SwitchAE, "Rli"),
     To(StateCnt, <<"Rsw">>), StateCin, PeerSub}

\* A container in a container, and instances of both; and what can be wrong with
\* a request, one thing at a time.
OddCreates ==
    {Flawed(SwitchAE, "content"), From(SwitchAE, "zerom2m"), Flawed(StateCin, "request"),
     From(StateCnt, NoFrom), To(StateCin, Switch), To(SwitchAE, Switch), Absolute(StateCnt)}
RetrievalCreates ==
    {SwitchAE, StateCnt, To(Named(StateCnt, "log"), State), StateCin, To(StateCin, Log)}
    \cup OddCreates
RetrievalGets ==
    {Get(to, from) : from \in {"Rsw", "Rli", "CAdmin", "/zerom2m"},
       to \in {CSE, Switch, State, Append(State, "la"), Append(State, "ol"),
                Log, Append(Log, "la"), <<"C2">>, <<"C3">>, <<"Rsw">>, <<"Nobody">>}}

\* AEs whose originators are identifiers the CSE may generate itself.
ReusedIdCreates ==
    {From(SwitchAE, "C3"), From(SwitchAE, "C2"), Named(From(SwitchAE, "C2"), "light"),
     [StateCnt EXCEPT !.attr.mni = 1], StateCin}

\* Creates while the generation of IDs fails in every way: rows without an ID,
\* an ID that is used up in vain, and an AE whose originator is generated later.
GeneratedIdCreates ==
    {From(SwitchAE, "C1"), Named(From(SwitchAE, "C"), NoName), StateCnt,
     Flawed(StateCnt, "name"), StateCin}

\* The switch node registers again after power came back.
RegistrationCreates == {SwitchAE, StateCnt}

\* A container that is named like the resource ID of the next one.
IdNameCreates ==
    {SwitchAE, Named(StateCnt, "C3"), [StateCnt EXCEPT !.attr.mbs = 0, !.attr.mni = 1], StateCin}

=============================================================================
