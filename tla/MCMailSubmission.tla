-------------------------- MODULE MCMailSubmission --------------------------
(***************************************************************************)
(* A small instance of MailSubmission for TLC: bodies that differ in two   *)
(* fields from one with which everything is in order.                      *)
(***************************************************************************)
EXTENDS MailSubmission, TLC

\* Ids and clients are interchangeable.
Symmetric ==
    Permutations(Messages) \cup Permutations(Trxns) \cup Permutations(Clients)

\* "name" is a template that is a variable of that name, "broken" one that does
\* not render.
MCStrings == {"hello", "name", "broken"}

MCRender(string, context) ==
    CASE string = "broken" -> Fails
      [] string = "name" /\ "name" \notin context.names -> Empty
      [] OTHER -> [is |-> "text", x |-> "hello"]

text(x) == [is |-> "text", x |-> x]
list(X) == [is |-> "list", x |-> X, ok |-> TRUE]
withOther(X) == [is |-> "list", x |-> X, ok |-> FALSE]
time(x) == [is |-> "time", x |-> x]
object(names, objects) == [is |-> "object", names |-> names, objects |-> objects]

Copies == {Absent, Empty, Malformed, list({}), list({"minister"}),
           list({"minister", "citizen"}), withOther({"citizen"})}

file == [filename |-> text("hello"), encoding |-> text("hex"),
         contentType |-> Absent, content |-> text("hello"), small |-> TRUE]

Files == {[is |-> "list", x |-> X] :
            X \in {{}, {file}, {Null}, {file, [file EXCEPT !.small = FALSE]},
                   {[file EXCEPT !.encoding = text("utf-8")]},
                   {[file EXCEPT !.contentType = Malformed]}}}

\* The values that a field is tried with.
Domain(f) ==
    CASE f = "from" -> {Absent, Empty, Malformed, Misspelt, text("citizen")}
      [] f \in {"subject", "body"} -> {Absent, Empty, Malformed, text("name"), text("broken")}
      [] f = "bodyType" -> {Absent, Empty, Malformed, text("text"), text("markdown")}
      [] f = "encoding" -> {Empty, Malformed, text("hex"), text("rot13")}
      [] f = "priority" -> {Empty, Malformed, text("high"), text("urgent")}
      [] f = "attachments" -> {Empty, Malformed} \cup Files
      [] f \in {"to", "cc", "bcc"} -> Copies
      [] f = "tag" -> {Absent, Empty, Malformed, Overlong} \cup Text(Tags)
      [] f = "delayTS" -> {Absent, Empty, Malformed, OddTime} \cup {time(t) : t \in -3..3}

Altered(X, fields) ==
    X \cup UNION {{[x EXCEPT ![f] = v] : x \in X, v \in Domain(f)} : f \in fields}

Sound == [from |-> text("minister"), subject |-> text("hello"),
          bodyType |-> text("html"), body |-> text("hello"), encoding |-> Absent,
          priority |-> Absent, attachments |-> Absent, to |-> list({"minister"}),
          cc |-> Absent, bcc |-> Absent, tag |-> Absent, delayTS |-> Absent,
          contexts |-> Absent]

Emails == Altered(Altered({Sound}, Shared \cup PerMessage), Shared \cup PerMessage)

entry == [to |-> list({"citizen"}), cc |-> Absent, bcc |-> Absent, tag |-> Absent,
          delayTS |-> Absent, context |-> object({"name"}, {})]

Entries ==
    Altered({entry}, PerMessage) \cup
    {[entry EXCEPT !.context = c] :
        c \in {Absent, Malformed, object({}, {}), object({"odd-name"}, {}),
               object({"name"}, {"odd-name"})}}

Template == [Sound EXCEPT !.to = Absent,
                          !.contexts = [is |-> "list", x |-> <<entry>>]]

\* One context of any kind, none, null, or one beside another.
ContextLists ==
    {Absent, Malformed} \cup
    {[is |-> "list", x |-> x] :
        x \in {<<>>, <<Null>>} \cup {<<c>> : c \in Entries}
              \cup {<<[entry EXCEPT !.cc = list({"minister"})], c>> : c \in Entries}}

Templates ==
    LET altered == {[t EXCEPT !.contexts = l] :
                       t \in Altered({Template}, {"bodyType", "body"}), l \in ContextLists}
    IN  altered \cup Altered({Template}, Shared \cup PerMessage)

Good(client) == [is |-> "header", verified |-> TRUE, azp |-> client]

request(kind, header, body) ==
    [kind |-> kind, devMode |-> FALSE, header |-> header, body |-> body,
     config |-> [keycloak |-> TRUE, senderRules |-> TRUE]]

FollowedPosts ==
    {request("email", Good(c), b) : c \in Clients, b \in Emails}
    \cup {request("merge", Good(c), t) : c \in Clients, t \in Templates}
    \cup {[request("email", h, b) EXCEPT !.config = config] :
            h \in Header, config \in Config, b \in Altered({Sound}, {"from"})}
    \cup {[request(kind, Good(c), t) EXCEPT !.devMode = devMode] :
            kind \in {"merge", "preview"}, devMode \in BOOLEAN, c \in Clients,
            t \in Altered({Template}, {"subject"}) \cup
                  {[Template EXCEPT !.contexts = [is |-> "list", x |-> <<>>]]}}
    \cup {[request("email", Good(c), Sound) EXCEPT !.devMode = TRUE] : c \in Clients}

=============================================================================
