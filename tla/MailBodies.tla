----------------------------- MODULE MailBodies -----------------------------
(***************************************************************************)
(* What becomes of the body of POST /email and POST /emailMerge: how it is *)
(* validated, merged, stored, put into an envelope and shown.              *)
(*                                                                         *)
(* A field holds what the validators and their successors tell apart.      *)
(* Falsy values are the empty string and what is absent; null, false and 0 *)
(* are left out where no number is asked for.  Lists of addresses and of   *)
(* attachments are sets, since nothing depends on their order.             *)
(***************************************************************************)
EXTENDS RequestValues, Integers, FiniteSets, Sequences

CONSTANTS
    Addresses,      \* the strings validator.isEmail takes
    GovAddresses,   \* those of them that bcGovSenderRules lets send
    Strings,        \* strings that are not blank
    Names,          \* names made of letters, digits and underscores
    MaxDate,        \* the milliseconds from 1970 that a Date holds: 8.64e15
    renderString(_, _)   \* nunjucks: of a string and a context

\* Strings that are no address, a string too long for the column of the tag,
\* a time only isInt takes (one in a list, hexadecimal or beyond 64 bits), an
\* entry of a list that is null, and a template that nunjucks fails to render.
Misspelt == [is |-> "misspelt"]
Overlong == [is |-> "overlong"]
OddTime == [is |-> "oddTime"]
Null == [is |-> "null"]
Fails == [is |-> "fails"]

Time(X) == [is: {"time"}, x: X]

\* Are all entries of the list addresses?
Recipients == {Absent, Empty, Malformed} \cup [is: {"list"}, x: SUBSET Addresses, ok: BOOLEAN]

Tag == {Absent, Empty, Malformed, Overlong} \cup Text(Tags)

Delay == {Absent, Empty, Malformed, OddTime} \cup Time(Int)

\* `names' are those of the values that are no objects, `objects' those of the
\* values that are, at any depth.
Variables == [is: {"object"}, names: SUBSET STRING, objects: SUBSET STRING]

Context == [to: Recipients, cc: Recipients, bcc: Recipients, tag: Tag,
            delayTS: Delay, context: {Absent, Malformed} \cup Variables]

\* `small': does its decoded content meet the limit?
Attachment == [filename: {Absent, Malformed} \cup Text(Strings),
               encoding: {Absent, Empty, Malformed} \cup Text(STRING),
               contentType: {Absent, Empty, Malformed} \cup Text(Strings),
               content: {Absent, Malformed} \cup Text(Strings), small: BOOLEAN]

PerMessage == {"to", "cc", "bcc", "tag", "delayTS"}
Shared == {"from", "subject", "bodyType", "body", "encoding", "priority", "attachments"}

Written == {Absent, Empty, Malformed} \cup Text(Strings)
Chosen == {Absent, Empty, Malformed} \cup Text(STRING)

Body == [from: {Absent, Empty, Malformed, Misspelt} \cup Text(Addresses),
         subject: Written, body: Written,
         bodyType: Chosen, encoding: Chosen, priority: Chosen,
         attachments: {Absent, Empty, Malformed}
                      \cup [is: {"list"}, x: SUBSET (Attachment \cup {Null})],
         to: Recipients, cc: Recipients, bcc: Recipients, tag: Tag, delayTS: Delay,
         contexts: {Absent, Malformed} \cup [is: {"list"}, x: Seq(Context \cup {Null})]]

-----------------------------------------------------------------------------
(* models.message, models.attachment and models.context. *)

isString(v) == v.is \in {"text", "empty", "misspelt"}

nonBlank(v) == v.is \in {"text", "overlong"}

isIn(v, X) == v.is = "text" /\ v.x \in X

isEmail(v) == isIn(v, Addresses)

\* Only where the rules are configured.
bcGovSenderRules(rules, v) == rules => isIn(v, GovAddresses)

isEmailList(v) == v.is = "list" /\ v.ok

isInt(v) == v.is \in {"time", "oddTime"}

validTo(v) == isEmailList(v) /\ v.x # {}

\* Of cc and bcc.
validCopies(v) == truthy(v) => isEmailList(v)

validTag(v) == truthy(v) => nonBlank(v)

\* Mutated: whatever parseFloat makes a number of.
validDelayLoosely(v) == TRUE

validDelay(v) == truthy(v) => isInt(v)

validEncoding(v) == truthy(v) => isIn(v, {"base64", "binary", "hex", "utf-8"})

validPriority(v) == truthy(v) => isIn(v, {"normal", "low", "high"})

validAttachment(a) ==
    /\ nonBlank(a.filename)
    /\ truthy(a.encoding) => isIn(a.encoding, {"base64", "binary", "hex"})
    /\ truthy(a.contentType) => nonBlank(a.contentType)
    /\ nonBlank(a.content)
    /\ a.small

\* Looks at the names of what is no object, and into what is.
validNames(v) == v.is = "object" /\ v.names \subseteq Names

-----------------------------------------------------------------------------
(* validators: the fields an error is about. *)

messageFields(rules, obj) ==
    {f \in {"from", "subject", "bodyType", "body", "encoding", "priority"} :
        \/ f = "from" /\ ~(isEmail(obj.from) /\ bcGovSenderRules(rules, obj.from))
        \/ f \in {"subject", "body"} /\ ~nonBlank(obj[f])
        \/ f = "bodyType" /\ ~isIn(obj.bodyType, {"html", "text"})
        \/ f = "encoding" /\ ~validEncoding(obj.encoding)
        \/ f = "priority" /\ ~validPriority(obj.priority)}

\* Those that a message has to itself: in email, and in each of the contexts.
ownFields(obj) ==
    {f \in PerMessage :
        \/ f = "to" /\ ~validTo(obj.to)
        \/ f \in {"cc", "bcc"} /\ ~validCopies(obj[f])
        \/ f = "tag" /\ ~validTag(obj.tag)
        \/ f = "delayTS" /\ ~validDelay(obj.delayTS)}

attachments(obj) ==
    IF \/ ~truthy(obj.attachments)
       \/ obj.attachments.is = "list" /\ \A a \in obj.attachments.x : validAttachment(a)
    THEN {} ELSE {"attachments"}

email(rules, obj) == messageFields(rules, obj) \cup ownFields(obj) \cup attachments(obj)

\* Mutated: a context's copies are not validated.
validContextSansCopies(c) ==
    ownFields(c) \subseteq {"cc", "bcc"} /\ validNames(c.context)

validContext(c) == ownFields(c) = {} /\ validNames(c.context)

contexts(obj) ==
    IF /\ obj.contexts.is = "list"
       /\ \A i \in DOMAIN obj.contexts.x : validContext(obj.contexts.x[i])
    THEN {} ELSE {"contexts"}

merge(rules, obj) == messageFields(rules, obj) \cup contexts(obj) \cup attachments(obj)

\* Reading a field of null, or matching what is no string, throws.
messageFieldsThrows(rules, obj) == rules /\ ~isString(obj.from)

attachmentsThrows(obj) == obj.attachments.is = "list" /\ Null \in obj.attachments.x

contextsThrows(obj) ==
    obj.contexts.is = "list" /\ \E i \in DOMAIN obj.contexts.x : obj.contexts.x[i] = Null

-----------------------------------------------------------------------------
(* merge.js and what is stored. *)

renderMerge(v, context) == renderString(v.x, context)

\* Mutated: the copies are those of the first context.
mergeTemplateFirstCopies(t) ==
    [i \in DOMAIN t.contexts.x |->
        LET entry == t.contexts.x[i]
            own(f) == IF t[f] # Absent THEN t[f] ELSE entry[f]
        IN  [t EXCEPT !.body = renderMerge(t.body, entry.context),
                      !.subject = renderMerge(t.subject, entry.context),
                      !.to = own("to"), !.cc = t.contexts.x[1].cc, !.bcc = own("bcc"),
                      !.tag = own("tag"), !.delayTS = own("delayTS"),
                      !.contexts = Absent]]

\* What the template has itself overrides what its contexts have.
mergeTemplate(t) ==
    [i \in DOMAIN t.contexts.x |->
        LET entry == t.contexts.x[i]
            own(f) == IF t[f] # Absent THEN t[f] ELSE entry[f]
        IN  [t EXCEPT !.body = renderMerge(t.body, entry.context),
                      !.subject = renderMerge(t.subject, entry.context),
                      !.to = own("to"), !.cc = own("cc"), !.bcc = own("bcc"),
                      !.tag = own("tag"), !.delayTS = own("delayTS"),
                      !.contexts = Absent]]

Rendered(messages) ==
    \A i \in DOMAIN messages : Fails \notin {messages[i].body, messages[i].subject}

\* Mutated: no column has a limit to what it takes.
StorableWhateverTag(msg) == msg.delayTS = Absent \/ msg.delayTS.is = "time"

\* A bigint, and a string of at most 255 characters.
Storable(msg) == msg.tag # Overlong /\ (msg.delayTS = Absent \/ msg.delayTS.is = "time")

\* The columns as they are read back: Postgres gives a bigint as a string.
createMessage(msg) ==
    [tag |-> msg.tag, email |-> msg,
     delayTimestamp |-> IF msg.delayTS = Absent THEN Absent
                        ELSE [is |-> "digits", x |-> msg.delayTS.x]]

\* Mutated: the other way around.
calculateDelayMSReversed(delayTS, now) == IF now > delayTS THEN now - delayTS ELSE 0

\* Exact, where JavaScript rounds what is beyond 2^53.
calculateDelayMS(delayTS, now) == IF delayTS > now THEN delayTS - now ELSE 0

\* To Bull, no delay and one of 0 are the same.
delay(row, now) ==
    IF truthy(row.delayTimestamp) THEN calculateDelayMS(row.delayTimestamp.x, now) ELSE 0

-----------------------------------------------------------------------------
(* The envelope, and what the sender is shown. *)

\* Mutated: drops lists of a single entry as well.
hasLengthAboveOne(v) == nonBlank(v) \/ (v.is = "list" /\ Cardinality(v.x) > 1)

hasLength(v) == nonBlank(v) \/ (v.is = "list" /\ v.x # {})

filterUndefinedAndEmptyArray(obj) == {f \in DOMAIN obj : hasLength(obj[f])}

\* The body goes by the name of its type, even if it was filtered out.
createEnvelope(message) ==
    LET kept == filterUndefinedAndEmptyArray(message)
    IN  [f \in (kept \ {"body", "bodyType"}) \cup {message.bodyType.x} |->
            IF f # message.bodyType.x THEN message[f]
            ELSE IF "body" \in kept THEN message.body ELSE Absent]

\* A moment of the number as JSON: one that no Date holds is invalid, its value
\* NaN, which is written as null, here Absent.
moment(x) == IF x \in -MaxDate..MaxDate THEN [is |-> "time", x |-> x] ELSE Absent

\* Mutated: the time is a number before it is asked whether there is one.
toStatusResponseOfNumbers(row) ==
    [tag |-> IF truthy(row.tag) THEN row.tag ELSE Absent,
     delayTS |-> IF row.delayTimestamp # Absent /\ row.delayTimestamp.x # 0
                 THEN moment(row.delayTimestamp.x) ELSE Absent]

toStatusResponse(row) ==
    [tag |-> IF truthy(row.tag) THEN row.tag ELSE Absent,
     delayTS |-> IF truthy(row.delayTimestamp)
                 THEN moment(row.delayTimestamp.x) ELSE Absent]

\* To whom a message is said to go.
toTransactionResponse(row) == IF truthy(row.email.to) THEN row.email.to ELSE Absent

=============================================================================
