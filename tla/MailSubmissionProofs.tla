------------------------ MODULE MailSubmissionProofs ------------------------
(***************************************************************************)
(* That a POST, whatever its body, its token and the configuration, does   *)
(* nothing to messages, jobs and rows but one `send' of MessageRequests,   *)
(* in the name of a verified client; so that what is proved of             *)
(* MessageRequests holds of the whole.                                     *)
(***************************************************************************)
EXTENDS MailSubmission, MessageRequestsProofs

\* A token names the POST's client, and it was verified.
Verified(p) ==
    /\ p.request.config.keycloak
    /\ p.request.header # NoHeader /\ p.request.header.verified
    /\ p.client # NoClient

Passes(request) == ~Throws(request) /\ errors(request) = {}

\* What became of message i of the POST: its row, its job, and when it is due.
StoredAs(p, i) ==
    LET message == messagesOf(p.request)[i]
        wait == delay(p.rows[i].row, p.now)
    IN  /\ i \in DOMAIN messagesOf(p.request)
        /\ Storable(message)
        /\ p.rows[i].row = createMessage(message)
        /\ p.rows[i].due \in Int /\ p.rows[i].due >= p.now + wait
        /\ rows[p.rows[i].id].client = p.client
        /\ jobs[inLowerCase(p.rows[i].id)].state = IF wait > 0 THEN "delayed" ELSE "waiting"

\* The inductive invariant of the POST: what each step has made sure of.
PostInv ==
    post # Idle =>
        /\ post = [at |-> post.at, request |-> post.request, client |-> post.client,
                   code |-> post.code, rows |-> post.rows, now |-> post.now]
        /\ post.at \in {"arrived", "admitted", "validated", "over", "lost"}
        /\ post.request \in Posts
        /\ post.client = authorizedParty(post.request.header)
        /\ post.code \in {0, 201, 400, 401, 422, 500}
        /\ (post.code = 0) = (post.at # "over")
        /\ post.at # "arrived" /\ post.code \in {0, 201, 422} => Verified(post)
        /\ post.at = "validated" \/ post.code = 201 => Passes(post.request)
        /\ post.code = 422 => ~Throws(post.request) /\ errors(post.request) # {}
        /\ post.code = 500 /\ post.request.config.keycloak =>
              Passes(post.request) /\ HandlerFails(post.request)
        /\ post.now \in Int
        /\ post.code # 201 => post.rows = <<>>
        /\ post.rows = <<>> \/ DOMAIN post.rows = DOMAIN messagesOf(post.request)
        /\ stored = {post.rows[i].id : i \in DOMAIN post.rows}
        /\ \A i \in DOMAIN post.rows : StoredAs(post, i)

-----------------------------------------------------------------------------
(* The messages of a sound body. *)

\* A request that passes the validators has contexts, if it is to be merged,
\* and each of them is one.
LEMMA SoundContexts ==
    ASSUME NEW request \in Post, Passes(request), request.kind # "email"
    PROVE  /\ request.body.contexts.is = "list"
           /\ request.body.contexts.x \in Seq(Context)
<1>1. request.body.contexts \in {Absent, Malformed}
                                \cup [is: {"list"}, x: Seq(Context \cup {Null})]
  BY DEF Post, Body
<1>2. contexts(request.body) = {}
  BY DEF Passes, errors, merge
<1>3. request.body.contexts.is = "list"
  BY <1>2 DEF contexts
<1>4. request.body.contexts.x \in Seq(Context \cup {Null})
  BY <1>1, <1>3 DEF Absent, Malformed
<1>5. \A i \in DOMAIN request.body.contexts.x : request.body.contexts.x[i] # Null
  BY <1>3 DEF Passes, Throws, contextsThrows
<1>. QED
  BY <1>3, <1>4, <1>5

\* The fields a message has to itself are those of the body or, in a merge, of
\* the template where it has them and of the context where it has not.
LEMMA OwnFields ==
    ASSUME NEW request \in Post, Passes(request),
           NEW i \in DOMAIN messagesOf(request), NEW f \in PerMessage
    PROVE  messagesOf(request)[i][f] =
              IF request.kind # "email" /\ request.body[f] = Absent
              THEN request.body.contexts.x[i][f] ELSE request.body[f]
<1>1. request.body \in Body
  BY DEF Post
<1>2. CASE request.kind = "email"
  BY <1>2 DEF messagesOf
<1>3. CASE request.kind # "email"
  <2>1. i \in DOMAIN request.body.contexts.x
    BY <1>3 DEF messagesOf, mergeTemplate
  <2>2. messagesOf(request)[i][f] =
          IF request.body[f] # Absent THEN request.body[f]
          ELSE request.body.contexts.x[i][f]
    BY <1>1, <1>3, <2>1 DEF messagesOf, mergeTemplate, PerMessage, Body
  <2>. QED
    BY <1>3, <2>2
<1>. QED
  BY <1>2, <1>3

LEMMA OwnTypes ==
    ASSUME NEW request \in Post, Passes(request), NEW i \in DOMAIN messagesOf(request)
    PROVE  messagesOf(request)[i].tag \in Tag /\ messagesOf(request)[i].delayTS \in Delay
<1>1. \A f \in {"tag", "delayTS"} :
         messagesOf(request)[i][f] =
            IF request.kind # "email" /\ request.body[f] = Absent
            THEN request.body.contexts.x[i][f] ELSE request.body[f]
  BY OwnFields DEF PerMessage
<1>2. request.body.tag \in Tag /\ request.body.delayTS \in Delay
  BY DEF Post, Body
<1>3. request.kind # "email" => request.body.contexts.x[i].tag \in Tag
                                /\ request.body.contexts.x[i].delayTS \in Delay
  <2>. SUFFICES ASSUME request.kind # "email"
                PROVE  request.body.contexts.x[i].tag \in Tag
                       /\ request.body.contexts.x[i].delayTS \in Delay
    OBVIOUS
  <2>1. i \in DOMAIN request.body.contexts.x
    BY DEF messagesOf, mergeTemplate
  <2>2. request.body.contexts.x[i] \in Context
    BY <2>1, SoundContexts
  <2>. QED
    BY <2>2 DEF Context
<1>. QED
  BY <1>1, <1>2, <1>3

\* So the tag of what can be stored is one that MessageRequests knows, and its
\* time is a number.
LEMMA StorableTypes ==
    ASSUME NEW request \in Post, Passes(request),
           NEW i \in DOMAIN messagesOf(request), Storable(messagesOf(request)[i])
    PROVE  /\ messagesOf(request)[i].tag \in {Absent, Empty, Malformed} \cup Text(Tags)
           /\ messagesOf(request)[i].delayTS \in {Absent} \cup Time(Int)
<1>1. messagesOf(request)[i].tag \in Tag /\ messagesOf(request)[i].delayTS \in Delay
  BY OwnTypes
<1>2. messagesOf(request)[i].tag # Overlong
  BY DEF Storable
<1>3. messagesOf(request)[i].delayTS \in {Absent} \cup Time(Int)
  BY <1>1 DEF Storable, Delay, Time, Empty, Malformed, OddTime
<1>. QED
  BY <1>1, <1>2, <1>3 DEF Tag

-----------------------------------------------------------------------------
(* Each step keeps the invariant of the POST. *)

LEMMA PostInitInv == SubmissionInit => PostInv
BY DEF SubmissionInit, PostInv

LEMMA ArriveInv == ASSUME Arrive PROVE PostInv'
<1>1. PICK request \in Posts :
         post' = [at |-> "arrived", request |-> request,
                  client |-> authorizedParty(request.header),
                  code |-> 0, rows |-> <<>>, now |-> 0]
  BY DEF Arrive
<1>2. stored' = {}
  BY DEF Arrive, vars
<1>. QED
  BY <1>1, <1>2 DEF PostInv

\* A step that does no more than to answer, or to pass the request on.
PassesOn(at, code) ==
    /\ post # Idle /\ post.at # "over"
    /\ at \in {"admitted", "validated", "over", "lost"}
    /\ code \in {0, 201, 400, 401, 422, 500}
    /\ (code = 0) = (at # "over")
    /\ \/ post' = [post EXCEPT !.at = at, !.code = code]
       \/ post' = [post EXCEPT !.at = at] /\ code = 0
    /\ code \in {0, 201, 422} => Verified(post)
    /\ at = "validated" \/ code = 201 => Passes(post.request)
    /\ code = 422 => ~Throws(post.request) /\ errors(post.request) # {}
    /\ code = 500 /\ post.request.config.keycloak =>
          Passes(post.request) /\ HandlerFails(post.request)
    /\ UNCHANGED vars

LEMMA PassedOn == ASSUME PostInv, NEW at, NEW code, PassesOn(at, code) PROVE PostInv'
<1>1. /\ post = [at |-> post.at, request |-> post.request, client |-> post.client,
                 code |-> post.code, rows |-> post.rows, now |-> post.now]
      /\ post.code = 0 /\ post.rows = <<>>
      /\ post.client = authorizedParty(post.request.header)
      /\ post.request \in Posts /\ post.now \in Int
  BY DEF PostInv, PassesOn
<1>2. post' = [at |-> at, request |-> post.request, client |-> post.client,
               code |-> code, rows |-> <<>>, now |-> post.now]
  <2>1. PICK x, y, z, r, t, n :
           post = [at |-> x, request |-> y, client |-> z, code |-> t, rows |-> r, now |-> n]
    BY <1>1
  <2>2. CASE post' = [post EXCEPT !.at = at, !.code = code]
    BY <1>1, <2>1, <2>2
  <2>3. CASE post' = [post EXCEPT !.at = at] /\ code = 0
    BY <1>1, <2>1, <2>3
  <2>. QED
    BY <2>2, <2>3 DEF PassesOn
<1>3. /\ post'.at = at /\ post'.request = post.request /\ post'.client = post.client
      /\ post'.code = code /\ post'.rows = <<>> /\ post'.now = post.now
      /\ post' = [at |-> post'.at, request |-> post'.request, client |-> post'.client,
                  code |-> post'.code, rows |-> post'.rows, now |-> post'.now]
  BY <1>2
<1>4. Verified(post) => Verified(post')
  BY <1>3 DEF Verified
<1>5. DOMAIN post'.rows = {} /\ stored' = {}
  BY <1>1, <1>3 DEF PostInv, PassesOn, vars
<1>. QED
  BY <1>1, <1>3, <1>4, <1>5 DEF PostInv, PassesOn

\* Only a verified token that names a client is answered by none of the two
\* middlewares.
LEMMA AdmitInv == ASSUME PostInv, Admit PROVE PostInv'
<1>. DEFINE code == tokenValidator(post.request.config, post.request.header)
            answer == IF code # 0 THEN code ELSE authorizedPartyValidator(post.client)
<1>1. post.at = "arrived" /\ post # Idle /\ post.code = 0
  BY DEF Admit, Idle, PostInv
<1>2. /\ answer \in {0, 400, 401, 500}
      /\ answer = 0 => Verified(post)
      /\ answer = 500 => ~post.request.config.keycloak
  BY DEF tokenValidator, authorizedPartyValidator, Verified
<1>3. /\ post' = IF answer # 0 THEN [post EXCEPT !.at = "over", !.code = answer]
                 ELSE [post EXCEPT !.at = "admitted"]
      /\ UNCHANGED vars
  BY DEF Admit, Over
<1>. HIDE DEF answer
<1>4. CASE answer = 0
  <2>1. PassesOn("admitted", 0)
    BY <1>1, <1>2, <1>3, <1>4 DEF PassesOn
  <2>. QED
    BY <2>1, PassedOn
<1>5. CASE answer # 0
  <2>1. PassesOn("over", answer)
    BY <1>1, <1>2, <1>3, <1>5 DEF PassesOn
  <2>. QED
    BY <2>1, PassedOn
<1>. QED
  BY <1>4, <1>5

LEMMA ValidateInv == ASSUME PostInv, Validate PROVE PostInv'
<1>1. post.at = "admitted" /\ post # Idle /\ post.code = 0 /\ Verified(post)
  BY DEF Validate, Idle, PostInv
<1>2. /\ post' = IF Throws(post.request) THEN [post EXCEPT !.at = "lost"]
                 ELSE IF errors(post.request) # {} THEN [post EXCEPT !.at = "over", !.code = 422]
                 ELSE [post EXCEPT !.at = "validated"]
      /\ UNCHANGED vars
  BY DEF Validate, Over
<1>3. CASE Throws(post.request)
  <2>1. PassesOn("lost", 0)
    BY <1>1, <1>2, <1>3 DEF PassesOn
  <2>. QED
    BY <2>1, PassedOn
<1>4. CASE ~Throws(post.request) /\ errors(post.request) # {}
  <2>1. PassesOn("over", 422)
    BY <1>1, <1>2, <1>4 DEF PassesOn
  <2>. QED
    BY <2>1, PassedOn
<1>5. CASE Passes(post.request)
  <2>1. PassesOn("validated", 0)
    BY <1>1, <1>2, <1>5 DEF PassesOn, Passes
  <2>. QED
    BY <2>1, PassedOn
<1>. QED
  BY <1>3, <1>4, <1>5 DEF Passes

LEMMA AnswerInv == ASSUME PostInv, Preview \/ Fail PROVE PostInv'
<1>1. post.at = "validated" /\ post # Idle /\ Verified(post) /\ Passes(post.request)
  BY DEF Preview, Fail, Idle, PostInv
<1>2. PICK code \in {201, 500} :
         /\ post' = [post EXCEPT !.at = "over", !.code = code]
         /\ code = 500 => HandlerFails(post.request)
         /\ UNCHANGED vars
  BY DEF Preview, Fail, Over
<1>3. PassesOn("over", code)
  BY <1>1, <1>2 DEF PassesOn
<1>. QED
  BY <1>3, PassedOn

LEMMA ForgetInv == ASSUME Forget PROVE PostInv'
BY DEF Forget, PostInv

\* How long a message waits is a number.
LEMMA WaitIsInt ==
    ASSUME NEW request \in Post, Passes(request),
           NEW i \in DOMAIN messagesOf(request), Storable(messagesOf(request)[i]),
           NEW now \in Int
    PROVE  delay(createMessage(messagesOf(request)[i]), now) \in Int
<1>1. messagesOf(request)[i].delayTS \in {Absent} \cup Time(Int)
  BY StorableTypes
<1>. QED
  BY <1>1 DEF delay, createMessage, calculateDelayMS, truthy, Absent, Empty, Time

\* What the transaction and the queue make of a message.
LEMMA SentRow ==
    ASSUME NEW client, NEW S \in SUBSET Messages, NEW trxn, NEW tag, NEW delayed,
           send(client, S, trxn, tag, delayed), NEW m \in S
    PROVE  /\ rows'[m].client = client
           /\ jobs'[inLowerCase(m)].state = IF m \in delayed THEN "delayed" ELSE "waiting"
<1>1. rows'[m].client = client
  BY DEF send, Recorded
<1>2. inLowerCase(m) \in JobIds
  BY DEF inLowerCase, JobIds, Id
<1>3. jobs'[inLowerCase(m)].state = IF m \in delayed THEN "delayed" ELSE "waiting"
  BY <1>2 DEF send, inLowerCase
<1>. QED
  BY <1>1, <1>3

\* The messages of a POST do not share ids; each finds its own row and job. And
\* what a POST stores, MessageRequests sends.
LEMMA StoreInv == ASSUME PostInv, Store PROVE PostInv' /\ Next
<1>. DEFINE messages == messagesOf(post.request)
            row(i) == createMessage(messages[i])
            wait(i, t) == delay(row(i), t)
<1>1. PICK id \in [DOMAIN messages -> Messages], trxn \in Trxns, now \in Clock, added \in Clock :
         /\ \A i, j \in DOMAIN id : id[i] = id[j] => i = j
         /\ added >= now
         /\ LET S == {id[i] : i \in DOMAIN id}
                index(m) == CHOOSE i \in DOMAIN id : id[i] = m
            IN  send(post.client, S, trxn, [m \in S |-> messages[index(m)].tag],
                     {m \in S : delay(row(index(m)), now) > 0})
         /\ post' = [Over(201) EXCEPT
                       !.now = now,
                       !.rows = [i \in DOMAIN messages |->
                                   [id |-> id[i], row |-> row(i),
                                    due |-> added + delay(row(i), now)]]]
  BY DEF Store
<1>. DEFINE S == {id[i] : i \in DOMAIN id}
            index(m) == CHOOSE i \in DOMAIN id : id[i] = m
            tag == [m \in S |-> messages[index(m)].tag]
            delayed == {m \in S : wait(index(m), now) > 0}
            records == [i \in DOMAIN messages |->
                          [id |-> id[i], row |-> row(i), due |-> added + wait(i, now)]]
<1>2. /\ post.at = "validated" /\ post # Idle /\ ~HandlerFails(post.request)
      /\ post.request.kind # "preview"
  BY DEF Store, Idle
<1>3. /\ post = [at |-> post.at, request |-> post.request, client |-> post.client,
                 code |-> post.code, rows |-> post.rows, now |-> post.now]
      /\ post.code = 0 /\ Verified(post) /\ Passes(post.request)
      /\ post.client = authorizedParty(post.request.header)
      /\ post.request \in Posts
  BY <1>2 DEF PostInv
<1>4. post' = [at |-> "over", request |-> post.request, client |-> post.client,
               code |-> 201, rows |-> records, now |-> now]
  <2>1. post' = [Over(201) EXCEPT !.now = now, !.rows = records]
    BY <1>1
  <2>. HIDE DEF records
  <2>. QED
    BY <1>3, <2>1 DEF Over
<1>5. \A i \in DOMAIN messages :
         /\ id[i] \in S /\ index(id[i]) = i
         /\ rows'[id[i]].client = post.client
         /\ jobs'[inLowerCase(id[i])].state =
               IF wait(i, now) > 0 THEN "delayed" ELSE "waiting"
  <2>. SUFFICES ASSUME NEW i \in DOMAIN messages
                PROVE  /\ id[i] \in S /\ index(id[i]) = i
                       /\ rows'[id[i]].client = post.client
                       /\ jobs'[inLowerCase(id[i])].state =
                             IF wait(i, now) > 0 THEN "delayed" ELSE "waiting"
    OBVIOUS
  <2>. HIDE DEF messages, wait, row
  <2>1. id[i] \in S /\ index(id[i]) = i /\ S \in SUBSET Messages
    BY <1>1
  <2>2. send(post.client, S, trxn, tag, delayed)
    BY <1>1 DEF wait
  <2>3. id[i] \in delayed <=> wait(i, now) > 0
    BY <2>1
  <2>. HIDE DEF S, tag, delayed, index
  <2>. QED
    BY <2>1, <2>2, <2>3, SentRow
<1>6. \A i \in DOMAIN messages : Storable(messages[i])
  BY <1>2 DEF HandlerFails
<1>7. \A i \in DOMAIN messages :
         /\ records[i].id = id[i] /\ records[i].row = row(i)
         /\ records[i].due \in Int /\ records[i].due >= now + wait(i, now)
  <2>1. now \in Int /\ added \in Int /\ added >= now
    BY <1>1, SubmissionAssumption
  <2>2. \A i \in DOMAIN messages : wait(i, now) \in Int
    BY <2>1, <1>3, <1>6, WaitIsInt, SubmissionAssumption
  <2>. HIDE DEF wait, row, messages
  <2>. QED
    BY <2>1, <2>2
<1>8. DOMAIN records = DOMAIN messages
  OBVIOUS
<1>9. \A i \in DOMAIN post'.rows : StoredAs(post, i)'
  <2>. SUFFICES ASSUME NEW i \in DOMAIN post'.rows
                PROVE  StoredAs(post, i)'
    OBVIOUS
  <2>. HIDE DEF records
  <2>1. /\ i \in DOMAIN messages /\ post'.rows[i] = records[i] /\ post'.now = now
        /\ messagesOf(post'.request) = messages /\ post'.client = post.client
    BY <1>4, <1>8
  <2>2. /\ Storable(messages[i])
        /\ records[i].id = id[i] /\ records[i].row = row(i)
        /\ records[i].due \in Int /\ records[i].due >= now + wait(i, now)
        /\ rows'[id[i]].client = post.client
        /\ jobs'[inLowerCase(id[i])].state =
               IF wait(i, now) > 0 THEN "delayed" ELSE "waiting"
    BY <1>5, <1>6, <1>7, <2>1
  <2>. HIDE DEF messages
  <2>. QED
    BY <2>1, <2>2 DEF StoredAs
<1>10. post'.at = "over" /\ post'.code = 201 /\ post'.request = post.request
       /\ post'.client = post.client /\ post'.now = now
       /\ post' = [at |-> post'.at, request |-> post'.request, client |-> post'.client,
                   code |-> post'.code, rows |-> post'.rows, now |-> post'.now]
  BY <1>4
<1>11. Verified(post') /\ Passes(post'.request) /\ now \in Int
  BY <1>1, <1>3, <1>10, SubmissionAssumption DEF Verified
<1>12. stored' = {post'.rows[i].id : i \in DOMAIN post'.rows}
  <2>1. stored' = S
    <3>1. send(post.client, S, trxn, tag, delayed)
      BY <1>1
    <3>2. stored = {}
      BY <1>2, <1>3 DEF PostInv
    <3>. HIDE DEF S, tag, delayed
    <3>. QED
      BY <3>1, <3>2 DEF send
  <2>. HIDE DEF row, wait
  <2>2. DOMAIN post'.rows = DOMAIN messages /\ \A i \in DOMAIN messages : post'.rows[i].id = id[i]
    BY <1>4
  <2>. HIDE DEF messages
  <2>. QED
    BY <2>1, <2>2
<1>13. PostInv'
  <2>1. DOMAIN post'.rows = DOMAIN messagesOf(post'.request)
    BY <1>4, <1>8, <1>10
  <2>. QED
    BY <1>3, <1>9, <1>10, <1>11, <1>12, <2>1 DEF PostInv
<1>14. post.client \in Clients
  <2>1. post.request.header \in Header
    BY <1>3, SubmissionAssumption DEF Post
  <2>. QED
    BY <1>3, <2>1, SubmissionAssumption DEF Verified, authorizedParty, Header
<1>15. \A i \in DOMAIN messages : messages[i].tag \in {Absent, Empty, Malformed} \cup Text(Tags)
  BY <1>3, <1>6, StorableTypes, SubmissionAssumption
<1>16. Next
  <2>. HIDE DEF messages, row, wait, records
  <2>1. send(post.client, S, trxn, tag, delayed)
    BY <1>1 DEF wait
  <2>2. \A m \in S : index(m) \in DOMAIN messages
    BY <1>1
  <2>3. tag \in [S -> {Absent, Empty, Malformed} \cup Text(Tags)]
    BY <1>15, <2>2
  <2>4. S \in SUBSET (Messages \ stored) /\ delayed \in SUBSET S
    BY <1>1, <2>1 DEF send
  <2>. HIDE DEF S, tag, delayed
  <2>. QED
    BY <1>1, <1>14, <2>1, <2>3, <2>4 DEF Next
<1>. QED
  BY <1>13, <1>16

\* Nor does anything else change what the invariant says.
LEMMA SubmissionNextInv == PostInv /\ [SubmissionNext]_submissionVars => PostInv'
<1>. SUFFICES ASSUME PostInv, [SubmissionNext]_submissionVars
              PROVE  PostInv'
  OBVIOUS
<1>1. CASE UNCHANGED submissionVars
  BY <1>1 DEF submissionVars, vars, PostInv, Verified, StoredAs
<1>2. CASE post = Idle /\ Next /\ UNCHANGED post
  BY <1>2 DEF PostInv
<1>. QED
  BY <1>1, <1>2, ArriveInv, AdmitInv, ValidateInv, AnswerInv, StoreInv, ForgetInv
     DEF SubmissionNext

-----------------------------------------------------------------------------
(* The refinement. *)

\* Through its POSTs the service does to messages nothing but what MessageRequests
\* says of `send', in the name of a client.
THEOREM SubmissionImplements == SubmissionSpec => ImplementsRequests
<1>1. SubmissionInit => Init /\ PostInv
  BY PostInitInv DEF SubmissionInit
<1>2. PostInv /\ [SubmissionNext]_submissionVars => [Next]_vars
  <2>. SUFFICES ASSUME PostInv, SubmissionNext PROVE [Next]_vars
    BY DEF submissionVars, vars
  <2>1. CASE Store
    BY <2>1, StoreInv
  <2>2. CASE Forget
    BY <2>2 DEF Forget
  <2>. QED
    BY <2>1, <2>2 DEF SubmissionNext, Arrive, Admit, Validate, Preview, Fail
<1>. QED
  BY <1>1, <1>2, SubmissionNextInv, PTL DEF SubmissionSpec, ImplementsRequests, Spec

-----------------------------------------------------------------------------
(* The theorems. *)

\* The invariant of the POST holds of every run.
THEOREM SubmissionSafe == SubmissionSpec => []PostInv
BY PostInitInv, SubmissionNextInv, PTL DEF SubmissionSpec

\* So does that of MessageRequests, with everything that follows from it.
THEOREM RequestsStaySafe == SubmissionSpec => []RequestInv
BY SubmissionImplements, RequestsSafe, PTL DEF ImplementsRequests

\* The POST keeps its type, and its rows are stored.
THEOREM PostTypeCorrect == SubmissionSpec => []PostTypeOK
<1>1. PostInv => PostTypeOK
  <2>. SUFFICES ASSUME PostInv, post # Idle PROVE PostTypeOK
    BY DEF PostTypeOK
  <2>1. /\ post.request \in Posts /\ post.client = authorizedParty(post.request.header)
        /\ post.request.header \in Header
    BY SubmissionAssumption DEF PostInv, Post
  <2>2. post.client \in Clients \cup {NoClient}
    BY <2>1 DEF authorizedParty, Header
  <2>. QED
    BY <2>1, <2>2, SubmissionAssumption DEF PostTypeOK, PostInv
<1>. QED
  BY <1>1, SubmissionSafe, PTL

\* A route works, and stores messages, only for the client of a verified token.
THEOREM ClientVerifiedCorrect == SubmissionSpec => []ClientVerified
<1>1. PostInv => ClientVerified
  <2>. SUFFICES ASSUME PostInv, Routed PROVE ClientVerified
    BY DEF ClientVerified
  <2>1. post # Idle /\ Verified(post) /\ post.client = authorizedParty(post.request.header)
    BY DEF Routed, PostInv
  <2>2. \A i \in DOMAIN post.rows : rows[post.rows[i].id].client = post.client
    BY <2>1 DEF PostInv, StoredAs
  <2>. QED
    BY <2>1, <2>2 DEF ClientVerified, Verified, authorizedParty
<1>. QED
  BY <1>1, SubmissionSafe, PTL

\* A message's own fields are those of whoever asks for it.
LEMMA AskedFor ==
    ASSUME PostInv, post # Idle, Plain(post.request), NEW i \in DOMAIN post.rows
    PROVE  LET message == messagesOf(post.request)[i] IN
           /\ post.request \in Post /\ Passes(post.request)
           /\ i \in DOMAIN messagesOf(post.request)
           /\ message.delayTS \in {Absent} \cup Time(Int)
           /\ \A f \in PerMessage : message[f] = Asker(post.request, i)[f]
<1>1. /\ post.request \in Post /\ StoredAs(post, i)
  BY SubmissionAssumption DEF PostInv
<1>2. Passes(post.request)
  <2>1. post.rows # <<>>
    OBVIOUS
  <2>. QED
    BY <2>1 DEF PostInv
<1>3. i \in DOMAIN messagesOf(post.request) /\ Storable(messagesOf(post.request)[i])
  BY <1>1 DEF StoredAs
<1>4. \A f \in PerMessage :
         messagesOf(post.request)[i][f] = Asker(post.request, i)[f]
  BY <1>1, <1>2, <1>3, OwnFields DEF Asker, Plain
<1>. QED
  BY <1>1, <1>2, <1>3, <1>4, StorableTypes

\* No message is due before the time it was asked for, and just those whose
\* time is to come are delayed.
THEOREM DueCorrect == SubmissionSpec => []DueWhenAsked
<1>1. PostInv => DueWhenAsked
  <2>. SUFFICES ASSUME PostInv, post # Idle, Plain(post.request), NEW i \in DOMAIN post.rows
                PROVE  LET asked == Asker(post.request, i).delayTS
                           inTime == asked # Absent /\ asked.x > post.now
                       IN  /\ asked # Absent => post.rows[i].due >= asked.x
                           /\ (jobs[inLowerCase(post.rows[i].id)].state = "delayed") = inTime
    BY DEF DueWhenAsked
  <2>. DEFINE asked == messagesOf(post.request)[i].delayTS
              wait == delay(post.rows[i].row, post.now)
  <2>1. /\ asked \in {Absent} \cup Time(Int) /\ asked = Asker(post.request, i).delayTS
    BY AskedFor DEF PerMessage
  <2>2. /\ post.rows[i].row = createMessage(messagesOf(post.request)[i])
        /\ post.rows[i].due \in Int /\ post.rows[i].due >= post.now + wait
        /\ jobs[inLowerCase(post.rows[i].id)].state = IF wait > 0 THEN "delayed" ELSE "waiting"
        /\ post.now \in Int
    BY DEF PostInv, StoredAs
  <2>3. wait = IF asked = Absent THEN 0
               ELSE IF asked.x > post.now THEN asked.x - post.now ELSE 0
    BY <2>1, <2>2 DEF delay, createMessage, calculateDelayMS, truthy, Absent, Empty, Time
  <2>4. asked # Absent => asked.x \in Int
    BY <2>1 DEF Time
  <2>. HIDE DEF wait
  <2>. QED
    BY <2>1, <2>2, <2>3, <2>4
<1>. QED
  BY <1>1, SubmissionSafe, PTL

\* The fields a message has to itself are sound.
LEMMA AskerValid ==
    ASSUME NEW request \in Post, Passes(request), Plain(request),
           NEW i \in DOMAIN messagesOf(request)
    PROVE  ownFields(Asker(request, i)) = {}
<1>1. CASE request.kind = "email"
  BY <1>1 DEF Passes, errors, email, Asker
<1>2. CASE request.kind # "email"
  <2>1. contexts(request.body) = {}
    BY <1>2 DEF Passes, errors, merge
  <2>2. i \in DOMAIN request.body.contexts.x
    BY <1>2 DEF messagesOf, mergeTemplate
  <2>. QED
    BY <1>2, <2>1, <2>2 DEF contexts, validContext, Asker
<1>. QED
  BY <1>1, <1>2

\* The sender is shown the recipients and the tag that were asked for, and the
\* time if a Date holds it.
THEOREM ShownAsAskedCorrect == SubmissionSpec => []ShownAsAsked
<1>1. PostInv => ShownAsAsked
  <2>. SUFFICES ASSUME PostInv, post # Idle, Plain(post.request), NEW i \in DOMAIN post.rows
                PROVE  LET row == post.rows[i].row
                           asked == Asker(post.request, i)
                       IN  /\ toTransactionResponse(row) = asked.to
                           /\ toStatusResponse(row) =
                                 [tag |-> IF asked.tag = Empty THEN Absent ELSE asked.tag,
                                  delayTS |-> IF asked.delayTS \in Time(-MaxDate..MaxDate)
                                              THEN asked.delayTS ELSE Absent]
    BY DEF ShownAsAsked
  <2>. DEFINE message == messagesOf(post.request)[i]
              asked == Asker(post.request, i)
  <2>1. /\ message.delayTS \in {Absent} \cup Time(Int)
        /\ message.to = asked.to /\ message.tag = asked.tag
        /\ message.delayTS = asked.delayTS
    BY AskedFor DEF PerMessage
  <2>2. post.rows[i].row = createMessage(message)
    BY DEF PostInv, StoredAs
  <2>3. validTo(asked.to)
    <3>1. ownFields(asked) = {}
      BY AskedFor, AskerValid
    <3>. QED
      BY <3>1 DEF ownFields, PerMessage
  <2>4. truthy(asked.to)
    BY <2>3 DEF validTo, isEmailList, truthy, Absent, Empty
  <2>. HIDE DEF message, asked
  <2>5. toTransactionResponse(post.rows[i].row) = asked.to
    BY <2>1, <2>2, <2>4 DEF toTransactionResponse, createMessage
  <2>6. post.rows[i].row.tag = asked.tag
    BY <2>1, <2>2 DEF createMessage
  <2>7. post.rows[i].row.delayTimestamp =
           IF asked.delayTS = Absent THEN Absent ELSE [is |-> "digits", x |-> asked.delayTS.x]
    BY <2>1, <2>2 DEF createMessage
  <2>8. (IF truthy(post.rows[i].row.delayTimestamp)
         THEN moment(post.rows[i].row.delayTimestamp.x) ELSE Absent)
           = IF asked.delayTS \in Time(-MaxDate..MaxDate) THEN asked.delayTS ELSE Absent
    <3>1. CASE asked.delayTS = Absent
      BY <2>7, <3>1 DEF truthy, Absent, Time
    <3>2. CASE asked.delayTS \in Time(Int)
      <4>1. PICK x \in Int : asked.delayTS = [is |-> "time", x |-> x]
        BY <3>2 DEF Time
      <4>2. truthy(post.rows[i].row.delayTimestamp) /\ post.rows[i].row.delayTimestamp.x = x
        BY <2>7, <4>1 DEF truthy, Absent, Empty
      <4>3. asked.delayTS \in Time(-MaxDate..MaxDate) <=> x \in -MaxDate..MaxDate
        BY <4>1 DEF Time
      <4>. QED
        BY <4>1, <4>2, <4>3 DEF moment
    <3>. QED
      BY <2>1, <3>1, <3>2
  <2>9. (IF truthy(asked.tag) THEN asked.tag ELSE Absent)
           = IF asked.tag = Empty THEN Absent ELSE asked.tag
    BY DEF truthy
  <2>10. toStatusResponse(post.rows[i].row) =
            [tag |-> IF asked.tag = Empty THEN Absent ELSE asked.tag,
             delayTS |-> IF asked.delayTS \in Time(-MaxDate..MaxDate)
                         THEN asked.delayTS ELSE Absent]
    BY <2>6, <2>8, <2>9 DEF toStatusResponse
  <2>. QED
    BY <2>5, <2>10 DEF asked
<1>. QED
  BY <1>1, SubmissionSafe, PTL

\* What a POST leaves stored is what its answer names, and one that fails fails
\* for one of the named reasons.
THEOREM AcceptedCorrect == SubmissionSpec => []AcceptedIsStored
<1>1. PostInv => AcceptedIsStored
  <2>. SUFFICES ASSUME PostInv, post # Idle, Plain(post.request), post.code = 500,
                       post.request.config.keycloak, ~post.request.devMode,
                       post.request.kind # "preview"
                PROVE  \E i \in DOMAIN messagesOf(post.request) :
                          LET message == messagesOf(post.request)[i]
                          IN  \/ Fails \in {message.body, message.subject}
                              \/ message.tag = Overlong
                              \/ message.delayTS \in {Empty, OddTime}
    BY DEF AcceptedIsStored, PostInv
  <2>1. post.request \in Post /\ Passes(post.request) /\ HandlerFails(post.request)
    BY SubmissionAssumption DEF PostInv
  <2>2. CASE \E i \in DOMAIN messagesOf(post.request) : ~Storable(messagesOf(post.request)[i])
    <3>1. PICK i \in DOMAIN messagesOf(post.request) : ~Storable(messagesOf(post.request)[i])
      BY <2>2
    <3>. DEFINE message == messagesOf(post.request)[i]
    <3>2. message.delayTS \in Delay
      BY <2>1, OwnTypes
    <3>3. validDelay(message.delayTS)
      <4>1. message.delayTS = Asker(post.request, i).delayTS
        BY <2>1, OwnFields DEF PerMessage, Asker, Plain
      <4>2. ownFields(Asker(post.request, i)) = {}
        BY <2>1, AskerValid
      <4>. QED
        BY <4>1, <4>2 DEF ownFields, PerMessage
    <3>4. message.tag = Overlong \/ ~(message.delayTS = Absent \/ message.delayTS.is = "time")
      BY <3>1 DEF Storable
    <3>. HIDE DEF message
    <3>5. message.tag = Overlong \/ message.delayTS \in {Empty, OddTime}
      BY <3>2, <3>3, <3>4
         DEF Delay, Time, validDelay, isInt, truthy, Absent, Empty, Malformed, OddTime
    <3>. QED
      BY <3>5 DEF message
  <2>3. CASE ~Rendered(messagesOf(post.request))
    BY <2>3 DEF Rendered
  <2>. QED
    BY <2>1, <2>2, <2>3 DEF HandlerFails
<1>. QED
  BY <1>1, SubmissionSafe, PTL

\* What the validators make of the template and one of its contexts is what
\* those of POST /email make of the two together.
LEMMA TakenAlike ==
    ASSUME NEW body \in Body, NEW context, NEW rules
    PROVE  LET message == [f \in DOMAIN body |->
                             IF f \in PerMessage THEN context[f] ELSE body[f]]
           IN  email(rules, message) =
                 messageFields(rules, body) \cup ownFields(context) \cup attachments(body)
<1>. DEFINE message == [f \in DOMAIN body |->
                          IF f \in PerMessage THEN context[f] ELSE body[f]]
<1>1. DOMAIN body = Shared \cup PerMessage \cup {"contexts"}
  BY DEF Body, Shared, PerMessage
<1>2. /\ \A f \in Shared : message[f] = body[f]
      /\ \A f \in PerMessage : message[f] = context[f]
  BY <1>1 DEF Shared, PerMessage
<1>. HIDE DEF message
<1>3. /\ messageFields(rules, message) = messageFields(rules, body)
      /\ attachments(message) = attachments(body)
  BY <1>2 DEF Shared, messageFields, attachments
<1>4. ownFields(message) = ownFields(context)
  BY <1>2 DEF PerMessage, ownFields
<1>. QED
  BY <1>3, <1>4 DEF email, message

\* A merge is accepted just if POST /email would take each of its messages.
THEOREM AcceptsAlikeCorrect == SubmissionSpec => []AcceptsAlike
<1>1. PostInv => AcceptsAlike
  <2>. SUFFICES ASSUME PostInv, post # Idle, post.request.kind # "email"
                PROVE  AcceptsAlike
    BY DEF AcceptsAlike, Routed
  <2>. DEFINE body == post.request.body
              rules == post.request.config.senderRules
              message(i) == [f \in DOMAIN body |->
                               IF f \in PerMessage THEN body.contexts.x[i][f] ELSE body[f]]
              taken(i) == /\ email(rules, message(i)) = {}
                          /\ validNames(body.contexts.x[i].context)
  <2>1. body \in Body
    BY SubmissionAssumption DEF PostInv, Post
  <2>2. \A i : email(rules, message(i)) =
                 messageFields(rules, body) \cup ownFields(body.contexts.x[i])
                    \cup attachments(body)
    BY <2>1, TakenAlike
  <2>3. errors(post.request) =
           messageFields(rules, body) \cup contexts(body) \cup attachments(body)
    BY DEF errors, merge
  <2>. HIDE DEF body, rules, message
  <2>4. ASSUME errors(post.request) = {}, NEW i \in DOMAIN body.contexts.x
        PROVE  taken(i)
    BY <2>2, <2>3, <2>4 DEF contexts, validContext
  <2>5. ASSUME errors(post.request) # {}, body.contexts.is = "list",
               DOMAIN body.contexts.x # {}
        PROVE  \E i \in DOMAIN body.contexts.x : ~taken(i)
    <3>1. CASE contexts(body) = {}
      BY <2>2, <2>3, <2>5, <3>1
    <3>2. CASE contexts(body) # {}
      BY <2>2, <2>5, <3>2 DEF contexts, validContext
    <3>. QED
      BY <3>1, <3>2
  <2>6. /\ post.at = "validated" => errors(post.request) = {}
        /\ post.code = 422 => errors(post.request) # {}
    BY DEF PostInv, Passes
  <2>. QED
    BY <2>4, <2>5, <2>6 DEF AcceptsAlike, body, rules, message
<1>. QED
  BY <1>1, SubmissionSafe, PTL

\* What a message has from the body or the template.
LEMMA SharedFields ==
    ASSUME NEW request \in Post, Passes(request), NEW i \in DOMAIN messagesOf(request)
    PROVE  LET message == messagesOf(request)[i] IN
           /\ DOMAIN message = Shared \cup PerMessage \cup {"contexts"}
           /\ message.from = request.body.from
           /\ message.bodyType = request.body.bodyType
           /\ message.attachments = request.body.attachments
<1>1. request.body \in Body
  BY DEF Post
<1>2. DOMAIN request.body = Shared \cup PerMessage \cup {"contexts"}
  BY <1>1 DEF Body, Shared, PerMessage
<1>3. CASE request.kind = "email"
  BY <1>2, <1>3 DEF messagesOf
<1>4. CASE request.kind # "email"
  <2>1. i \in DOMAIN request.body.contexts.x
    BY <1>4 DEF messagesOf, mergeTemplate
  <2>2. messagesOf(request)[i] = mergeTemplate(request.body)[i]
    BY <1>4 DEF messagesOf
  <2>. QED
    BY <1>1, <1>2, <2>1, <2>2 DEF mergeTemplate, Shared, PerMessage
<1>. QED
  BY <1>3, <1>4

\* The envelope of a message with these fields: what is filtered out of it is
\* nothing that anybody would be sent.
LEMMA EnvelopeKeeps ==
    ASSUME NEW message, DOMAIN message = Shared \cup PerMessage \cup {"contexts"},
           message.bodyType.x \in {"html", "text"},
           isEmail(message.from),
           \A f \in {"to", "cc", "bcc"} : message[f] \in Recipients
    PROVE  LET envelope == createEnvelope(message)
               type == message.bodyType.x
               named(f) == IF f \in DOMAIN envelope THEN addresses(envelope[f]) ELSE {}
           IN  /\ \A f \in {"to", "cc", "bcc"} : named(f) = addresses(message[f])
               /\ {"html", "text", "body"} \cap DOMAIN envelope = {type}
               /\ envelope[type] \in {message.body, Absent}
               /\ envelope[type] = Absent => ~nonBlank(message.body)
               /\ envelope.from = message.from
               /\ message.attachments.is = "list" /\ message.attachments.x # {} =>
                     envelope.attachments = message.attachments
<1>. DEFINE kept == filterUndefinedAndEmptyArray(message)
            type == message.bodyType.x
            envelope == createEnvelope(message)
            named(f) == IF f \in DOMAIN envelope THEN addresses(envelope[f]) ELSE {}
<1>1. kept = {f \in Shared \cup PerMessage \cup {"contexts"} : hasLength(message[f])}
  BY DEF filterUndefinedAndEmptyArray
<1>2. envelope = [f \in (kept \ {"body", "bodyType"}) \cup {type} |->
                    IF f # type THEN message[f]
                    ELSE IF "body" \in kept THEN message.body ELSE Absent]
  BY DEF createEnvelope
<1>3. \A f \in (Shared \cup PerMessage) \ {"body", "bodyType"} :
         /\ f \in DOMAIN envelope <=> hasLength(message[f])
         /\ f \in DOMAIN envelope => envelope[f] = message[f]
  BY <1>1, <1>2 DEF Shared, PerMessage
<1>4. \A f \in {"to", "cc", "bcc"} : named(f) = addresses(message[f])
  <2>. SUFFICES ASSUME NEW f \in {"to", "cc", "bcc"}
                PROVE  named(f) = addresses(message[f])
    OBVIOUS
  <2>1. ~hasLength(message[f]) => addresses(message[f]) = {}
    BY DEF hasLength, addresses
  <2>2. f \in (Shared \cup PerMessage) \ {"body", "bodyType"}
    BY DEF PerMessage
  <2>. HIDE DEF envelope
  <2>. QED
    BY <1>3, <2>1, <2>2
<1>5. {"html", "text", "body"} \cap DOMAIN envelope = {type}
  BY <1>1, <1>2 DEF Shared, PerMessage
<1>6. /\ envelope[type] \in {message.body, Absent}
      /\ envelope[type] = Absent => ~nonBlank(message.body)
  <2>1. "body" \in kept <=> hasLength(message.body)
    BY <1>1 DEF Shared
  <2>2. ~nonBlank(Absent)
    BY DEF nonBlank, Absent
  <2>3. envelope[type] = IF "body" \in kept THEN message.body ELSE Absent
    BY <1>2
  <2>. HIDE DEF envelope, kept
  <2>. QED
    BY <2>1, <2>2, <2>3 DEF hasLength
<1>7. envelope.from = message.from
  BY <1>3 DEF Shared, hasLength, nonBlank, isEmail, isIn
<1>8. message.attachments.is = "list" /\ message.attachments.x # {} =>
         envelope.attachments = message.attachments
  BY <1>3 DEF Shared, hasLength
<1>. QED
  BY <1>4, <1>5, <1>6, <1>7, <1>8

\* Every message goes to those that its own context names, as it was written.
THEOREM GoesToItsOwnCorrect == SubmissionSpec => []GoesToItsOwn
<1>1. PostInv => GoesToItsOwn
  <2>. SUFFICES ASSUME PostInv, post # Idle, post.rows # <<>>, Plain(post.request)
                PROVE  GoesToItsOwn
    BY DEF GoesToItsOwn
  <2>. DEFINE body == post.request.body
  <2>1. /\ post.request \in Post /\ Passes(post.request)
        /\ DOMAIN post.rows = DOMAIN messagesOf(post.request)
    BY SubmissionAssumption DEF PostInv
  <2>2. DOMAIN post.rows = IF post.request.kind = "email" THEN {1} ELSE DOMAIN body.contexts.x
    BY <2>1 DEF messagesOf, mergeTemplate
  <2>3. isEmail(body.from) /\ isIn(body.bodyType, {"html", "text"})
    BY <2>1 DEF Passes, errors, email, merge, messageFields
  <2>4. ASSUME NEW i \in DOMAIN post.rows
        PROVE  LET message == post.rows[i].row.email
                   envelope == createEnvelope(message)
                   named(f) == IF f \in DOMAIN envelope THEN addresses(envelope[f]) ELSE {}
               IN  /\ \A f \in {"to", "cc", "bcc"} :
                         named(f) = addresses(Asker(post.request, i)[f])
                   /\ {"html", "text", "body"} \cap DOMAIN envelope = {body.bodyType.x}
                   /\ envelope[body.bodyType.x] \in {message.body, Absent}
                   /\ envelope[body.bodyType.x] = Absent => ~nonBlank(message.body)
                   /\ envelope.from = body.from
                   /\ (body.attachments.is = "list" /\ body.attachments.x # {}) =>
                         envelope.attachments = body.attachments
    <3>. DEFINE message == messagesOf(post.request)[i]
    <3>1. i \in DOMAIN messagesOf(post.request)
      BY <2>1
    <3>2. post.rows[i].row.email = message
      <4>1. post.rows[i].row = createMessage(message)
        BY DEF PostInv, StoredAs
      <4>. QED
        BY <4>1 DEF createMessage
    <3>3. /\ DOMAIN message = Shared \cup PerMessage \cup {"contexts"}
          /\ message.from = body.from /\ message.bodyType = body.bodyType
          /\ message.attachments = body.attachments
      BY <2>1, <3>1, SharedFields
    <3>4. \A f \in {"to", "cc", "bcc"} : message[f] = Asker(post.request, i)[f]
      BY AskedFor DEF PerMessage
    <3>5. \A f \in {"to", "cc", "bcc"} : message[f] \in Recipients
      <4>1. CASE post.request.kind = "email"
        BY <2>1, <3>4, <4>1 DEF Asker, Post, Body
      <4>2. CASE post.request.kind # "email"
        <5>1. i \in DOMAIN body.contexts.x
          BY <2>2, <4>2
        <5>2. body.contexts.x[i] \in Context
          BY <2>1, <4>2, <5>1, SoundContexts
        <5>. QED
          BY <3>4, <4>2, <5>2 DEF Asker, Context
      <4>. QED
        BY <4>1, <4>2
    <3>6. message.bodyType.x \in {"html", "text"} /\ isEmail(message.from)
      BY <2>3, <3>3 DEF isIn
    <3>. DEFINE envelope == createEnvelope(message)
                type == message.bodyType.x
                named(f) == IF f \in DOMAIN envelope THEN addresses(envelope[f]) ELSE {}
    <3>. HIDE DEF message
    <3>7. /\ \A f \in {"to", "cc", "bcc"} : named(f) = addresses(message[f])
          /\ {"html", "text", "body"} \cap DOMAIN envelope = {type}
          /\ envelope[type] \in {message.body, Absent}
          /\ envelope[type] = Absent => ~nonBlank(message.body)
          /\ envelope.from = message.from
          /\ message.attachments.is = "list" /\ message.attachments.x # {} =>
                envelope.attachments = message.attachments
      BY <3>3, <3>5, <3>6, EnvelopeKeeps
    <3>. HIDE DEF body
    <3>. QED
      BY <3>2, <3>3, <3>4, <3>7
  <2>. QED
    BY <2>2, <2>4 DEF GoesToItsOwn
<1>. QED
  BY <1>1, SubmissionSafe, PTL

=============================================================================
