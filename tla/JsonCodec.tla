------------------------------ MODULE JsonCodec ------------------------------
(***************************************************************************)
(* Resources and notifications as JSON and back (zerom2m/src/serde/json).  *)
(*                                                                         *)
(* A content is its kind, the attributes it has, the content text of an    *)
(* instance and the representation inside a notification (a set of none or *)
(* one).  A document has the same shape with JSON members for attributes.  *)
(* The values of attributes other than the text pass unchanged.            *)
(***************************************************************************)
EXTENDS Naturals

-----------------------------------------------------------------------------
(* Texts of content instances.                                             *)

(* What a text looks like to a JSON parser: nothing JSON begins with, the  *)
(* canonical form of a value, or something that merely begins like one     *)
(* ("007", "5 lamps", "{ }").  marks: it has quotes or backslashes, and    *)
(* escapes: how many more backslash levels it has than its author gave it. *)
Shape == {"word", "number", "literal", "document", "looseNumber", "looseDocument",
          "empty"}

Text == [shape : Shape, marks : BOOLEAN, escapes : Nat]

NoText == [shape |-> "empty", marks |-> FALSE, escapes |-> 0]

(* Serialize escapes the strings it writes; Parse leaves escapes as they   *)
(* are.                                                                    *)
Escaped(t) == IF t.marks THEN [t EXCEPT !.escapes = @ + 1] ELSE t

(* Parse keeps of a text what it understands, Serialize spells it anew.    *)
Understood(t) ==
    [t EXCEPT !.shape = CASE @ = "looseNumber" -> "number"
                          [] @ = "looseDocument" -> "document"
                          [] @ = "word" -> "number"
                          [] @ = "empty" -> "literal"
                          [] OTHER -> @]

(* Faulty variant of IsParsed: every text that is not empty is tried.      *)
IsParsedAlways(t) == TRUE

(* A text is written as the value it spells when it begins like one, the   *)
(* empty text as null.                                                     *)
IsParsed(t) == t.shape # "word"

ConWritten(t) ==
    IF IsParsed(t) THEN [type |-> "value", text |-> Escaped(Understood(t))]
    ELSE [type |-> "string", text |-> Escaped(t)]

(* A string is taken as it stands in the message, any other value is       *)
(* spelled by Serialize.                                                   *)
ConRead(con) ==
    IF con.type = "string" THEN con.text ELSE Escaped(con.text)

-----------------------------------------------------------------------------
(* Attributes each serialiser writes when they are set ...                 *)

BaseWritten ==
    {"rn", "ri", "pi", "ct", "lt", "ty", "et", "lbl", "acpi", "cstn", "aa", "at"}

AEWritten ==
    BaseWritten \cup {"api", "aei", "apn", "poa", "rr", "csz", "nl", "srv"}

ContainerWritten ==
    BaseWritten \cup {"st", "cr", "mni", "mbs", "mia", "cni", "cbs", "disr"}

ContentInstanceWritten ==
    BaseWritten \cup {"st", "cr", "cnf", "cs", "con", "dgt"}

(* The criteria of a subscription are attributes of their own here.        *)
CriteriaWritten == {"net", "chty", "atr", "enc lbl"}

(* The creator of a subscription is written only if its client gave it.    *)
SubscriptionWritten(c) ==
    BaseWritten \cup {"nu", "bn", "nct", "exc", "ln", "su"} \cup CriteriaWritten
      \cup (IF "creatorProvided" \in c.has THEN {"cr"} ELSE {})

CSEBaseWritten ==
    BaseWritten \cup {"cst", "csi", "srt", "poa", "srv", "ctm"}

NotificationWritten ==
    {"sur", "vrq", "sud", "cr", "nfu", "ntt", "trr", "tra", "aerp", "aerid",
     "tid1", "tid2", "st", "nev", "om", "idr"}

(* ... and each deserialiser reads.  "cr=null" is a creator given as null. *)

AERead ==
    {"rn", "api", "aei", "apn", "rr", "poa", "csz", "srv", "nl", "et", "lbl"}

ContainerRead == {"rn", "mni", "mbs", "mia", "et", "lbl", "disr"}

ContentInstanceRead == {"rn", "cnf", "con", "cs", "dgt", "lbl"}

CriteriaRead ==
    {"crb", "cra", "ms", "us", "sza", "szb", "atr", "enc lbl", "net", "chty"}

SubscriptionRead ==
    {"rn", "nu", "bn", "su", "exc", "ln", "lbl", "cr", "nct"} \cup CriteriaRead

NotificationRead == NotificationWritten

Creator == {"cr", "cr=null"}

-----------------------------------------------------------------------------

Kind == {"ae", "cnt", "cin", "sub", "cb", "sgn"}

Attribute ==
    AEWritten \cup ContainerWritten \cup ContentInstanceWritten
      \cup CSEBaseWritten \cup SubscriptionRead \cup NotificationWritten
      \cup Creator \cup {"creatorProvided"}

NoContent == [kind |-> "none", has |-> {}, text |-> NoText, rep |-> {}]

Resource ==
    [kind : Kind, has : SUBSET Attribute, text : Text, rep : {{}}]

Written(c) ==
    CASE c.kind = "ae" -> AEWritten
      [] c.kind = "cnt" -> ContainerWritten
      [] c.kind = "cin" -> ContentInstanceWritten
      [] c.kind = "sub" -> SubscriptionWritten(c)
      [] c.kind = "cb" -> CSEBaseWritten
      [] c.kind = "sgn" -> NotificationWritten

Read(doc) ==
    CASE doc.kind = "ae" -> AERead
      [] doc.kind = "cnt" -> ContainerRead
      [] doc.kind = "cin" -> ContentInstanceRead
      [] doc.kind = "sub" -> SubscriptionRead
      [] doc.kind = "sgn" -> NotificationRead

(* Written even when nothing was set.                                      *)
AlwaysWritten(c) ==
    CASE c.kind = "ae" -> {"api"}
      [] c.kind = "cnt" -> {"cni", "cbs"}
      [] c.kind = "cin" -> {"cs", "con"}
      [] c.kind = "cb" -> {"pi", "cst", "csi"}
      [] c.kind = "sgn" -> {"sur"}
      [] OTHER -> {}

SerializeResource(c) ==
    [kind |-> c.kind, members |-> (c.has \cap Written(c)) \cup AlwaysWritten(c),
     con |-> ConWritten(c.text)]

(* The wrapper names the kind; a notification holds a wrapped resource.    *)
SerializePrimitiveContent(c) ==
    [resource |-> SerializeResource(c), rep |-> {SerializeResource(r) : r \in c.rep}]

(* An attribute is read when its member is there.                          *)
DeserializeResource(doc) ==
    [kind |-> doc.kind, rep |-> {},
     has |-> (doc.members \cap Read(doc))
               \cup (IF doc.kind = "sub" /\ doc.members \cap Creator # {}
                     THEN {"creatorProvided"} ELSE {}),
     text |-> IF "con" \in doc.members THEN ConRead(doc.con) ELSE NoText]

IsReadable(doc) == doc.kind \in {"ae", "cnt", "cin", "sub", "sgn"}

DeserializeRequestBody(doc) ==
    IF IsReadable(doc.resource)
    THEN [DeserializeResource(doc.resource) EXCEPT
             !.rep = {DeserializeResource(r) : r \in {r \in doc.rep : IsReadable(r)}}]
    ELSE NoContent

(* What the deserialiser reports to the service beside the content.        *)
Marker(doc) ==
    LET members == doc.resource.members
        kind == doc.resource.kind
    IN  IF kind = "cin" /\ "acpi" \in members THEN "cin_has_acpi"
        ELSE IF kind = "ae" /\ members \cap Creator # {} THEN "has_creator"
        ELSE IF kind \in {"cnt", "cin", "sub"} /\ "cr" \in members
             THEN "creator_present"
        ELSE IF kind \in {"cnt", "cin", "sub"} /\ "cr=null" \in members
             THEN "creator_null"
        ELSE "none"
=============================================================================
