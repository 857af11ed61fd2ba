--------------------------- MODULE MailSubmission ---------------------------
(***************************************************************************)
(* A POST of an email or of a merge on its way through the service: the    *)
(* middlewares that say for whom it is, the validators, the merge, and the *)
(* transaction, jobs and answer it ends with.  The messages it stores are  *)
(* those that the other requests of MessageRequests are then about.        *)
(***************************************************************************)
EXTENDS MessageRequests, MailBodies

CONSTANTS
    NoClient,   \* a token, or no token, that names no authorized party
    Posts,      \* the POSTs that are followed
    Clock       \* a set of times

VARIABLES
    post        \* the POST in progress

submissionVars == <<vars, post>>

NoHeader == [is |-> "noHeader"]

\* A header with a token in it, or with something that is none and thus names
\* nobody; `verified': by its signature, issuer, audience and expiry.
Header == {NoHeader} \cup
          [is: {"header"}, verified: BOOLEAN, azp: Clients \cup {NoClient}]

\* What is configured: the keys to verify tokens with, and the sender rules.
Config == [keycloak: BOOLEAN, senderRules: BOOLEAN]

Kinds == {"email", "merge", "preview"}

Post == [kind: Kinds, devMode: BOOLEAN, header: Header, config: Config, body: Body]

ASSUME SubmissionAssumption ==
    /\ NoClient \notin Clients
    /\ Posts \subseteq Post
    /\ Clock \subseteq Int
    /\ MaxDate \in Nat

Idle == [at |-> "idle"]

Over(answer) == [post EXCEPT !.at = "over", !.code = answer]

PostTypeOK ==
    \/ post = Idle
    \/ /\ post.at \in {"arrived", "admitted", "validated", "over", "lost"}
       /\ post.request \in Post
       /\ post.client \in Clients \cup {NoClient}
       /\ post.code \in {0, 201, 400, 401, 422, 500}
       /\ (post.code = 0) = (post.at # "over")
       /\ \A i \in DOMAIN post.rows : post.rows[i].id \in stored

SubmissionInit == Init /\ post = Idle

-----------------------------------------------------------------------------
(* authorizedParty, tokenValidator, authorizedPartyValidator. *)

authorizedParty(header) == IF header = NoHeader THEN NoClient ELSE header.azp

\* Mutated: without keys, tokens are not looked at.
tokenValidatorOptional(config, header) ==
    IF config.keycloak /\ (header = NoHeader \/ ~header.verified) THEN 401 ELSE 0

\* The code it answers; 0 if it passes the request on.
tokenValidator(config, header) ==
    IF header = NoHeader THEN 401
    ELSE IF ~config.keycloak THEN 500
    ELSE IF header.verified THEN 0 ELSE 401

authorizedPartyValidator(client) == IF client = NoClient THEN 400 ELSE 0

\* Only while nothing is stored: later POSTs are `send'.
Arrive ==
    /\ post = Idle
    /\ stored = {}
    /\ \E request \in Posts :
          post' = [at |-> "arrived", request |-> request,
                   client |-> authorizedParty(request.header),
                   code |-> 0, rows |-> <<>>, now |-> 0]
    /\ UNCHANGED vars

\* Mutated: answers, and goes on.
AdmitAnyway ==
    /\ post.at = "arrived"
    /\ LET code == tokenValidator(post.request.config, post.request.header)
           answer == IF code # 0 THEN code ELSE authorizedPartyValidator(post.client)
       IN  post' = [post EXCEPT !.at = "admitted", !.code = answer]
    /\ UNCHANGED vars

Admit ==
    /\ post.at = "arrived"
    /\ LET code == tokenValidator(post.request.config, post.request.header)
           answer == IF code # 0 THEN code ELSE authorizedPartyValidator(post.client)
       IN  post' = IF answer # 0 THEN Over(answer) ELSE [post EXCEPT !.at = "admitted"]
    /\ UNCHANGED vars

-----------------------------------------------------------------------------
(* validateEmail and validateMerge. *)

Throws(request) ==
    \/ messageFieldsThrows(request.config.senderRules, request.body)
    \/ request.kind # "email" /\ contextsThrows(request.body)
    \/ attachmentsThrows(request.body)

errors(request) ==
    IF request.kind = "email" THEN email(request.config.senderRules, request.body)
    ELSE merge(request.config.senderRules, request.body)

\* Nobody catches what an async middleware throws: the rejection is unhandled,
\* the process shuts down, and the POST stays without an answer.
Validate ==
    /\ post.at = "admitted"
    /\ post' = IF Throws(post.request) THEN [post EXCEPT !.at = "lost"]
               ELSE IF errors(post.request) # {} THEN Over(422)
               ELSE [post EXCEPT !.at = "validated"]
    /\ UNCHANGED vars

-----------------------------------------------------------------------------
(* sendEmail, sendEmailMerge and the preview. *)

messagesOf(request) ==
    IF request.kind = "email" THEN <<request.body>> ELSE mergeTemplate(request.body)

\* The transport for devMode has no mailer: whatever is to be sent with it fails.
HandlerFails(request) ==
    LET messages == messagesOf(request)
    IN  \/ request.kind # "email" /\ ~Rendered(messages)
        \/ request.kind # "preview" /\ request.devMode /\ DOMAIN messages # {}
        \/ /\ request.kind # "preview" /\ ~request.devMode
           /\ \E i \in DOMAIN messages : ~Storable(messages[i])

\* One that stores nothing.
Preview ==
    /\ post.at = "validated"
    /\ ~HandlerFails(post.request)
    /\ \/ post.request.kind = "preview"
       \/ DOMAIN messagesOf(post.request) = {}
    /\ post' = Over(201)
    /\ UNCHANGED vars

Fail ==
    /\ post.at = "validated"
    /\ HandlerFails(post.request)
    /\ post' = Over(500)
    /\ UNCHANGED vars

\* The messages get their ids, rows and jobs; Bull counts a delay from when it
\* gets the job, which is later than when the delay was calculated.
Store ==
    /\ post.at = "validated"
    /\ ~HandlerFails(post.request)
    /\ post.request.kind # "preview"
    /\ LET messages == messagesOf(post.request)
           row(i) == createMessage(messages[i])
       IN  \E id \in [DOMAIN messages -> Messages], trxn \in Trxns,
              now \in Clock, added \in Clock :
              /\ \A i, j \in DOMAIN id : id[i] = id[j] => i = j
              /\ added >= now
              /\ LET S == {id[i] : i \in DOMAIN id}
                     index(m) == CHOOSE i \in DOMAIN id : id[i] = m
                 IN  send(post.client, S, trxn, [m \in S |-> messages[index(m)].tag],
                          {m \in S : delay(row(index(m)), now) > 0})
              /\ post' = [Over(201) EXCEPT
                            !.now = now,
                            !.rows = [i \in DOMAIN messages |->
                                        [id |-> id[i], row |-> row(i),
                                         due |-> added + delay(row(i), now)]]]

Forget ==
    /\ post.at \in {"over", "lost"}
    /\ post' = Idle
    /\ UNCHANGED vars

-----------------------------------------------------------------------------

SubmissionNext ==
    \/ Arrive \/ Admit \/ Validate \/ Preview \/ Fail \/ Store \/ Forget
    \/ post = Idle /\ Next /\ UNCHANGED post

SubmissionSpec == SubmissionInit /\ [][SubmissionNext]_submissionVars

\* To whoever looks only at messages, jobs and rows, a POST that ends in Store is
\* one `send' of MessageRequests, all at once and with a tag that its row may
\* have, and any other POST is nothing.
ImplementsRequests == Spec

-----------------------------------------------------------------------------

\* The POST is in the hands of a route, or was.
Routed ==
    post # Idle /\ (post.at \in {"admitted", "validated", "lost"} \/ post.code \in {201, 422})

\* Whoever a route works for, and stores messages for, is named by a token that
\* was verified, although it is read from the token before that.
ClientVerified ==
    Routed =>
        /\ post.request.config.keycloak
        /\ post.request.header # NoHeader /\ post.request.header.verified
        /\ post.client = post.request.header.azp /\ post.client # NoClient
        /\ \A i \in DOMAIN post.rows : rows[post.rows[i].id].client = post.client

\* The template gives no field that its contexts are to give.
Plain(request) ==
    request.kind = "email" \/ \A f \in PerMessage : request.body[f] = Absent

\* Who asks for message i: the body, or its context.
Asker(request, i) ==
    IF request.kind = "email" THEN request.body ELSE request.body.contexts.x[i]

\* Both ways in agree: a merge is accepted just if POST /email would take the
\* template with what each of its contexts has, and the names are in order.
AcceptsAlike ==
    LET body == post.request.body
        message(i) == [f \in DOMAIN body |->
                         IF f \in PerMessage THEN body.contexts.x[i][f] ELSE body[f]]
        taken(i) == /\ email(post.request.config.senderRules, message(i)) = {}
                    /\ validNames(body.contexts.x[i].context)
    IN  Routed /\ post.request.kind # "email" /\ Plain(post.request) =>
            /\ post.at = "validated" => \A i \in DOMAIN body.contexts.x : taken(i)
            /\ post.code = 422 /\ body.contexts.is = "list" /\ DOMAIN body.contexts.x # {} =>
                  \E i \in DOMAIN body.contexts.x : ~taken(i)

addresses(v) == IF v.is = "list" THEN v.x ELSE {}

\* Every context becomes one message, and every message goes to exactly those
\* that its own context names, with its body under its type, from its sender
\* and with its attachments, whatever the envelope leaves out.
GoesToItsOwn ==
    post # Idle /\ post.rows # <<>> /\ Plain(post.request) =>
        LET body == post.request.body IN
        /\ DOMAIN post.rows = IF post.request.kind = "email" THEN {1}
                              ELSE DOMAIN body.contexts.x
        /\ \A i \in DOMAIN post.rows :
              LET message == post.rows[i].row.email
                  envelope == createEnvelope(message)
                  named(f) == IF f \in DOMAIN envelope THEN addresses(envelope[f]) ELSE {}
              IN  /\ \A f \in {"to", "cc", "bcc"} :
                        named(f) = addresses(Asker(post.request, i)[f])
                  /\ {"html", "text", "body"} \cap DOMAIN envelope = {body.bodyType.x}
                  /\ envelope[body.bodyType.x] \in {message.body, Absent}
                  /\ envelope[body.bodyType.x] = Absent => ~nonBlank(message.body)
                  /\ envelope.from = body.from
                  /\ (body.attachments.is = "list" /\ body.attachments.x # {}) =>
                        envelope.attachments = body.attachments

\* What is accepted is stored, all of it; the only exceptions, of which nothing
\* is, are a template that does not render, and a tag or a time that is valid
\* and does not fit its column.
AcceptedIsStored ==
    post # Idle /\ Plain(post.request) /\ post.at = "over"
    /\ post.request.kind # "preview" /\ post.code \in {201, 500} =>
        /\ stored = {post.rows[i].id : i \in DOMAIN post.rows}
        /\ post.code = 500 /\ post.request.config.keycloak /\ ~post.request.devMode =>
              \E i \in DOMAIN messagesOf(post.request) :
                  LET message == messagesOf(post.request)[i]
                  IN  \/ Fails \in {message.body, message.subject}
                      \/ message.tag = Overlong
                      \/ message.delayTS \in {Empty, OddTime}

\* No message is due before the time its context asks for, and only one whose
\* time is to come waits in the delayed set.
DueWhenAsked ==
    post # Idle /\ Plain(post.request) =>
        \A i \in DOMAIN post.rows :
            LET asked == Asker(post.request, i).delayTS
                inTime == asked # Absent /\ asked.x > post.now
            IN  /\ asked # Absent => post.rows[i].due >= asked.x
                /\ (jobs[inLowerCase(post.rows[i].id)].state = "delayed") = inTime

\* The answer says to whom each message goes, and its status shows the tag and
\* the time it was asked to have, a time of 0 too; only a time that no Date
\* holds, although it is accepted, stored and waited for, is shown as none.
ShownAsAsked ==
    post # Idle /\ Plain(post.request) =>
        \A i \in DOMAIN post.rows :
            LET row == post.rows[i].row
                asked == Asker(post.request, i)
            IN  /\ toTransactionResponse(row) = asked.to
                /\ toStatusResponse(row) =
                      [tag |-> IF asked.tag = Empty THEN Absent ELSE asked.tag,
                       delayTS |-> IF asked.delayTS \in Time(-MaxDate..MaxDate)
                                   THEN asked.delayTS ELSE Absent]

\* A field of the wrong type, or a name that is not alphanumeric.
Faulty(request) ==
    \/ ~isString(request.body.from)
    \/ attachmentsThrows(request.body)
    \/ /\ request.kind # "email"
       /\ \/ contextsThrows(request.body)
          \/ /\ request.body.contexts.is = "list"
             /\ \E i \in DOMAIN request.body.contexts.x :
                   LET v == request.body.contexts.x[i].context
                   IN  v.is = "object" /\ ~(v.names \cup v.objects \subseteq Names)

\* "Should there be validation errors, the endpoint will return a list of
\* reasons why it failed validation." (docs/v1.api-spec.yaml, /email and
\* /emailMerge): a faulty body that reaches the validators is answered by 422.
ListsItsReasons ==
    post # Idle /\ Routed /\ post.at \in {"over", "lost"} /\ Faulty(post.request) =>
        post.code = 422

=============================================================================
