----------------------------- MODULE AccountProofs -----------------------------
(***************************************************************************)
(* Proofs about Account and the Sessions below it, for any devices, any    *)
(* number of concurrent requests, tokens, reset links and passwords.       *)
(***************************************************************************)
EXTENDS Account, FiniteSetTheorems, TLAPS

TokenStates == {"none", "live", "revoked", "lapsed", "gone"}
TokenRecords == [state : TokenStates, to : Devices \cup {Nobody},
                 password : Passwords \cup {Late}]
Ops == {"idle", "refresh", "logout", "forgot"} \cup Signing \cup Deleting
CallRecords ==
    [op : Ops, from : Devices \cup {Nobody}, pc : {"sent", "read", "deleting", "answered"},
     arg : (0..MaxTokens) \cup Links, saw : SUBSET (Tokens \cup Links),
     password : Passwords \cup {Late}, late : BOOLEAN, out : 0..MaxTokens, ok : BOOLEAN]

CallTypes == call \in [Calls -> CallRecords]

(* A request that is still going to spend the token it carries.            *)
Spends(c) == call[c].op \in {"refresh", "logout"} /\ call[c].pc \in {"sent", "read"}

SessionTypes ==
    /\ account \in {"none", "active", "deleted"} /\ password \in Passwords
    /\ token \in [Tokens -> TokenRecords]
    /\ link \subseteq Links
    /\ store \in [Devices -> 0..MaxTokens]
    /\ CallTypes
    /\ \A c \in Calls : Spends(c) => call[c].arg \in Tokens
    /\ excused \subseteq Devices

Opens(c) == call[c].op \in Signing \cup {"refresh"} /\ call[c].pc = "read"

(* Tokens are numbered in the order of their issue, and whoever carries one*)
(* carries one that has been issued.                                       *)
Issued == {t \in Tokens : token[t].state # "none"}
TokensInOrder == \E n \in 0..MaxTokens : Issued = 1..n
CarriedIsIssued ==
    /\ \A d \in Devices : store[d] # 0 => store[d] \in Issued
    /\ \A c \in Calls : Spends(c) => call[c].arg \in Issued
    /\ \A c \in Calls : call[c].pc = "deleting" => call[c].saw \subseteq Issued
    /\ \A c \in Calls : call[c].out # 0 => call[c].out \in Issued
                                           /\ token[call[c].out].state # "revoked"

(* A token is in one place: with one device, or on the way to it.          *)
OnePlace ==
    /\ \A d, e \in Devices : store[d] = store[e] /\ store[d] # 0 => d = e
    /\ \A c \in Calls : call[c].out # 0 =>
        /\ \A d \in Devices : store[d] # call[c].out
        /\ \A x \in Calls : Spends(x) => call[x].arg # call[c].out
        /\ \A x \in Calls : call[x].out = call[c].out => x = c
    /\ \A d \in Devices \ excused, c \in Calls :
        Spends(c) /\ call[c].arg = store[d] => call[c].from = d

(* What spent the token a device keeps is an answer on the way to it.      *)
SpentIsKnown ==
    \A d \in Devices \ excused :
        store[d] # 0 /\ token[store[d]].state = "revoked" =>
        \E c \in Waits(d) : call[c].op \in {"refresh", "logout"} /\ call[c].pc = "answered"

(* The passwords of the sessions, open or being opened.                    *)
Continues == IF account = "deleted" THEN {Late} ELSE {password, Late}
OpenedInTime ==
    /\ \A t \in Tokens : Live(t) => token[t].password \in Continues
    /\ \A c \in Calls : Opens(c) /\ ~call[c].late => call[c].password \in Continues

(* A link that a reset holds is there and no other reset holds it.         *)
LinksHeld ==
    /\ \A c \in Calls : call[c].op = "reset" => call[c].arg \in link /\ call[c].from = Nobody
    /\ \A c, x \in Calls : call[c].op = "reset" /\ call[x].op = "reset"
                           /\ call[c].arg = call[x].arg => c = x

(* What a device may be waiting for at the same time.                      *)
NothingYet == account = "none" => /\ Issued = {}
                                  /\ \A c \in Calls : call[c].op \in {"idle", "register"}
Leaves(c) == call[c].op \in {"logout"} \cup Deleting
OneAtATime ==
    /\ \A d \in Devices : \A c, x \in Waits(d) :
        /\ Leaves(c) /\ Leaves(x) => c = x
        /\ call[c].op \in Signing /\ d \notin excused => x = c
        /\ /\ call[c].op \in {"refresh", "logout"} /\ call[x].op \in {"refresh", "logout"}
           /\ d \notin excused
           => c = x
SpendsOwn ==
    \A d \in Devices \ excused : \A c \in Waits(d) :
        /\ Spends(c) => call[c].arg = store[d]
        /\ account = "active" /\ call[c].op \in {"refresh", "logout"}
           /\ call[c].pc = "answered" /\ store[d] # 0
           => ~Live(store[d])
OnItsWay(d, t) ==
    \E c \in Waits(d) : /\ call[c].out = t /\ call[c].ok = TRUE /\ call[c].pc = "answered"
                        /\ call[c].op \in Signing \cup {"refresh"}
LiveIsReachable ==
    account = "active" =>
    \A d \in Devices \ excused, t \in Tokens :
        Live(t) /\ token[t].to = d => store[d] = t \/ OnItsWay(d, t)

Ownership == TokensInOrder /\ CarriedIsIssued /\ OnePlace /\ SpentIsKnown
Reach == NothingYet /\ OneAtATime /\ SpendsOwn /\ LiveIsReachable

(* The deletion beside the handlers: a booking of a deleted account refers *)
(* to a vehicle that its deletion had not seen.                            *)
DataTypes ==
    /\ edit \in BOOLEAN /\ profile \subseteq ProfileData
    /\ added \in BOOLEAN /\ rides \subseteq Vehicles /\ booked \in BOOLEAN
    /\ "added" \in rides => added
Deletion ==
    /\ DataTypes
    /\ booked => rides # {}
    /\ account = "deleted" => "usual" \notin rides
    /\ ~Erasing /\ account # "deleted" => ~added

SessionInv == SessionTypes /\ Ownership /\ Reach /\ OpenedInTime /\ LinksHeld
IInv == SessionInv /\ Deletion

-------------------------------------------------------------------------------
(* What the operators on requests return, as sets of the records that have *)
(* these fields.                                                           *)
OthersKept(c) == \A x \in Calls \ {c} : call'[x] = call[x]
Became(c, R) == call'[c] \in R /\ OthersKept(c)
NewCalls(op, d, pc, arg, saw) ==
    [op : {op}, from : {d}, pc : {pc}, arg : {arg}, saw : {saw},
     password : {password}, late : {FALSE}, out : {0}, ok : {FALSE}]
Idle == [op : {"idle"}, from : {Nobody}, pc : {"answered"}, arg : {0}, saw : {{}},
         password : {0}, late : {FALSE}, out : {0}, ok : {FALSE}]
Answers(c, out, ok) ==
    IF call[c].from = Nobody THEN Idle
    ELSE [op : {call[c].op}, from : {call[c].from}, pc : {"answered"}, arg : {0}, saw : {{}},
          password : {0}, late : {FALSE}, out : {out}, ok : {ok}]

(* A request replaced by another leaves the others as they are.            *)
LEMMA Replaced ==
    ASSUME CallTypes, NEW c \in Calls, NEW R, NEW r \in R,
           call' = [call EXCEPT ![c] = r]
    PROVE  Became(c, R) /\ (R \subseteq CallRecords => CallTypes')
  <1>1. Became(c, R)
    BY DEF CallTypes, Became, OthersKept
  <1>2. ASSUME R \subseteq CallRecords PROVE CallTypes'
    <2>1. r \in CallRecords
      BY <1>2
    <2>2. QED
      BY <2>1 DEF CallTypes
  <1>3. QED
    BY <1>1, <1>2

(* The empty request.                                                      *)
LEMMA NoCallType == NoCall \in Idle /\ Idle \subseteq CallRecords
  <1>1. NoCall \in Idle
    BY DEF NoCall, Idle
  <1>2. 0 \in 0..MaxTokens /\ 0 \in Passwords
    BY SessionsAssumption DEF Passwords
  <1>3. ASSUME NEW r \in Idle PROVE r \in CallRecords
    BY <1>2 DEF Idle, CallRecords, Ops
  <1>4. QED
    BY <1>1, <1>3

(* A request that begins.                                                  *)
LEMMA Begun ==
    ASSUME CallTypes, password \in Passwords,
           NEW c \in Calls, NEW d \in Devices \cup {Nobody}, NEW op \in Ops,
           NEW pc \in {"sent", "read"}, NEW arg \in (0..MaxTokens) \cup Links,
           NEW saw \in SUBSET (Tokens \cup Links), Begin(c, d, op, pc, arg, saw)
    PROVE  /\ call[c] = NoCall
           /\ Became(c, NewCalls(op, d, pc, arg, saw))
           /\ CallTypes'
  <1> DEFINE r == [NoCall EXCEPT !.op = op, !.from = d, !.pc = pc, !.arg = arg, !.saw = saw,
                                 !.password = password]
  <1>1. call' = [call EXCEPT ![c] = r]
    BY DEF Begin
  <1>2. r \in NewCalls(op, d, pc, arg, saw)
    BY DEF NewCalls, NoCall
  <1>3. NewCalls(op, d, pc, arg, saw) \subseteq CallRecords
    <2>1. 0 \in 0..MaxTokens
      BY SessionsAssumption
    <2>2. ASSUME NEW x \in NewCalls(op, d, pc, arg, saw) PROVE x \in CallRecords
      BY <2>1 DEF NewCalls, CallRecords
    <2>3. QED
      BY <2>2
  <1> HIDE DEF r
  <1>4. QED
    BY <1>1, <1>2, <1>3, Replaced DEF Begin

(* The answers are requests.                                               *)
LEMMA AnswersType ==
    ASSUME CallTypes, NEW c \in Calls, NEW out \in 0..MaxTokens, NEW ok \in BOOLEAN
    PROVE  Answers(c, out, ok) \subseteq CallRecords
  <1>1. 0 \in 0..MaxTokens /\ 0 \in Passwords
    BY SessionsAssumption DEF Passwords
  <1>2. CASE call[c].from = Nobody
    BY <1>2, NoCallType DEF Answers
  <1>3. CASE call[c].from # Nobody
    <2>1. call[c].op \in Ops /\ call[c].from \in Devices
      BY <1>3 DEF CallTypes, CallRecords
    <2>2. ASSUME NEW x \in Answers(c, out, ok) PROVE x \in CallRecords
      BY <1>1, <1>3, <2>1 DEF Answers, CallRecords
    <2>3. QED
      BY <2>2
  <1>4. QED
    BY <1>2, <1>3

(* A request that is answered, if anybody waits for it.                    *)
LEMMA AnsweredIs ==
    ASSUME CallTypes, NEW c \in Calls, NEW ok \in BOOLEAN
    PROVE  /\ Answered(c, ok) \in [Calls -> CallRecords]
           /\ Answered(c, ok)[c] \in Answers(c, 0, ok)
           /\ \A x \in Calls \ {c} : Answered(c, ok)[x] = call[x]
  <1> DEFINE r == IF call[c].from = Nobody THEN NoCall
                  ELSE [NoCall EXCEPT !.op = call[c].op, !.from = call[c].from, !.ok = ok]
  <1>1. Answered(c, ok) = [call EXCEPT ![c] = r]
    BY DEF Answered
  <1>2. r \in Answers(c, 0, ok)
    <2>1. CASE call[c].from = Nobody
      BY <2>1, NoCallType DEF Answers
    <2>2. CASE call[c].from # Nobody
      BY <2>2 DEF Answers, NoCall
    <2>3. QED
      BY <2>1, <2>2
  <1>3. 0 \in 0..MaxTokens
    BY SessionsAssumption
  <1>4. r \in CallRecords
    BY <1>2, <1>3, AnswersType
  <1> HIDE DEF r
  <1>5. QED
    BY <1>1, <1>2, <1>4 DEF CallTypes

(* A token is issued, to a device or to nobody.                            *)
LEMMA IssuedIs ==
    ASSUME CallTypes, NEW c \in Calls, NEW tokens, Issues(c, tokens)
    PROVE  /\ CallTypes'
           /\ Became(c, Answers(c, NewToken, TRUE))
           /\ NewToken \in Tokens
  <1> DEFINE a == Answered(c, TRUE)
             n == IF call[c].from = Nobody THEN 0 ELSE NewToken
  <1>1. /\ a \in [Calls -> CallRecords]
        /\ a[c] \in Answers(c, 0, TRUE)
        /\ \A x \in Calls \ {c} : a[x] = call[x]
    BY AnsweredIs
  <1>2. call' = [a EXCEPT ![c].out = n]
    BY DEF Issues
  <1>3. NewToken \in Tokens
    BY DEF Issues
  <1>4. NewToken \in 0..MaxTokens
    BY <1>3, SessionsAssumption DEF Tokens
  <1>5. call' \in [Calls -> CallRecords]
    <2>1. n \in 0..MaxTokens
      BY <1>4, SessionsAssumption
    <2> HIDE DEF n, a
    <2>2. QED
      BY <1>1, <1>2, <2>1 DEF CallRecords
  <1>6. call'[c] \in Answers(c, NewToken, TRUE)
    <2>1. CASE call[c].from = Nobody
      <3>1. n = 0
        BY <2>1
      <3> HIDE DEF a, n
      <3>2. QED
        BY <1>1, <1>2, <2>1, <3>1 DEF Answers, Idle, CallRecords
    <2>2. CASE call[c].from # Nobody
      <3>1. n = NewToken
        BY <2>2
      <3> HIDE DEF a, n
      <3>2. QED
        BY <1>1, <1>2, <2>2, <3>1 DEF Answers, CallRecords
    <2>3. QED
      BY <2>1, <2>2
  <1>7. OthersKept(c)
    <2> HIDE DEF a, n
    <2>1. QED
      BY <1>1, <1>2 DEF OthersKept
  <1>8. QED
    BY <1>3, <1>5, <1>6, <1>7 DEF CallTypes, Became

-------------------------------------------------------------------------------
(* What each action does to the requests.                                  *)

(* A refresh or a logout of the app starts with the stored token, in a     *)
(* free slot.                                                              *)
LEMMA StartFacts ==
    ASSUME SessionTypes, NEW c \in Calls, NEW d \in Devices,
           NEW op \in {"refresh", "logout"},
           store[d] # 0 /\ Begin(c, d, op, "sent", store[d], {})
    PROVE  /\ call[c] = NoCall
           /\ Became(c, NewCalls(op, d, "sent", store[d], {}))
           /\ CallTypes'
  <1>1. op \in Ops /\ store[d] \in (0..MaxTokens) \cup Links
    BY DEF SessionTypes, Ops
  <1>2. {} \in SUBSET (Tokens \cup Links)
    OBVIOUS
  <1>3. QED
    BY <1>1, <1>2, Begun DEF SessionTypes

(* Every other call starts with what it has read, in a free slot; what     *)
(* it reads are links or nothing.                                          *)
LEMMA ReadFacts ==
    ASSUME SessionTypes, NEW c \in Calls, NEW d \in Devices \cup {Nobody}, NEW op \in Ops,
           NEW arg \in {0} \cup Links, NEW saw \in SUBSET Links,
           Begin(c, d, op, "read", arg, saw)
    PROVE  /\ call[c] = NoCall
           /\ Became(c, NewCalls(op, d, "read", arg, saw))
           /\ CallTypes'
  <1>1. arg \in (0..MaxTokens) \cup Links /\ saw \in SUBSET (Tokens \cup Links)
    BY SessionsAssumption
  <1>2. QED
    BY <1>1, Begun DEF SessionTypes

(* An answer that does nothing else.                                       *)
LEMMA AnswerFacts ==
    ASSUME SessionTypes, NEW c \in Calls, NEW ok \in BOOLEAN, call' = Answered(c, ok)
    PROVE  Became(c, Answers(c, 0, ok)) /\ CallTypes'
  BY AnsweredIs DEF SessionTypes, CallTypes, Became, OthersKept

RefreshReads(c) ==
    [op : {"refresh"}, from : {call[c].from}, pc : {"read"}, arg : {call[c].arg},
     saw : {call[c].saw}, password : {token[call[c].arg].password}, late : {call[c].late},
     out : {call[c].out}, ok : {call[c].ok}]

(* The read of a refresh goes on with the token, or is refused and         *)
(* brings none.                                                            *)
LEMMA RefreshReadFacts ==
    ASSUME SessionTypes, NEW c \in Calls, RefreshRead(c)
    PROVE  /\ Spends(c) /\ CallTypes'
           /\ UNCHANGED <<server, store, excused>>
           /\ \/ Refreshable(call[c].arg) /\ Became(c, RefreshReads(c))
              \/ ~Refreshable(call[c].arg) /\ Became(c, Answers(c, 0, FALSE))
  <1>1. Spends(c) /\ call[c].op = "refresh" /\ call[c].arg \in Tokens
    BY DEF SessionTypes, RefreshRead, At, Spends
  <1>2. CASE Refreshable(call[c].arg)
    <2>1. call' = [call EXCEPT ![c].pc = "read", ![c].password = token[call[c].arg].password]
      BY <1>2 DEF RefreshRead
    <2>2. token[call[c].arg].password \in Passwords \cup {Late}
      BY <1>1 DEF SessionTypes, TokenRecords
    <2> DEFINE mid == [call EXCEPT ![c].pc = "read"]
               w == token[call[c].arg].password
    <2>3. mid \in [Calls -> CallRecords] /\ call' = [mid EXCEPT ![c].password = w]
      BY <2>1 DEF SessionTypes, CallTypes, CallRecords
    <2>4. Became(c, RefreshReads(c))
      BY <1>1, <2>1 DEF Became, OthersKept, RefreshReads, SessionTypes, CallTypes, CallRecords
    <2> HIDE DEF mid, w
    <2>6. CallTypes'
      BY <2>2, <2>3 DEF CallTypes, CallRecords, w
    <2>5. QED
      BY <1>1, <1>2, <2>4, <2>6 DEF RefreshRead
  <1>3. CASE ~Refreshable(call[c].arg)
    <2>1. Refused(c)
      BY <1>3 DEF RefreshRead
    <2>2. QED
      BY <1>1, <1>3, <2>1, AnswerFacts DEF RefreshRead, Refused
  <1>4. QED
    BY <1>2, <1>3

LogoutReads(c) ==
    [op : {"logout"}, from : {call[c].from}, pc : {"read"}, arg : {call[c].arg},
     saw : {call[c].saw}, password : {call[c].password}, late : {call[c].late},
     out : {call[c].out}, ok : {call[c].ok}]

(* The read of a logout goes on, or finds the token deleted and is         *)
(* answered.                                                               *)
LEMMA LogoutReadFacts ==
    ASSUME SessionTypes, NEW c \in Calls, LogoutRead(c)
    PROVE  /\ Spends(c) /\ call[c].op = "logout" /\ CallTypes'
           /\ UNCHANGED <<server, store, excused>>
           /\ \/ Became(c, LogoutReads(c))
              \/ token[call[c].arg].state = "gone" /\ Became(c, Answers(c, 0, TRUE))
  <1>1. Spends(c) /\ call[c].op = "logout"
    BY DEF LogoutRead, At, Spends
  <1>2. CASE token[call[c].arg].state # "gone"
    <2>1. call' = [call EXCEPT ![c].pc = "read"]
      BY <1>2 DEF LogoutRead
    <2>3. CallTypes'
      BY <2>1 DEF SessionTypes, CallTypes, CallRecords
    <2>4. Became(c, LogoutReads(c))
      BY <1>1, <2>1 DEF Became, OthersKept, LogoutReads, SessionTypes, CallTypes, CallRecords
    <2>5. QED
      BY <1>1, <2>3, <2>4 DEF LogoutRead
  <1>3. CASE token[call[c].arg].state = "gone"
    BY <1>1, <1>3, AnswerFacts DEF LogoutRead
  <1>4. QED
    BY <1>2, <1>3

SnapshotReads(c) ==
    [op : {call[c].op}, from : {call[c].from}, pc : {"deleting"}, arg : {call[c].arg},
     saw : {Issued}, password : {call[c].password}, late : {call[c].late},
     out : {call[c].out}, ok : {call[c].ok}]

(* A change of the password, a reset or a deletion only notes the          *)
(* tokens that live.                                                       *)
LEMMA SnapshotFacts ==
    ASSUME SessionTypes, NEW c \in Calls, SnapshotRead(c)
    PROVE  /\ call[c].op \in Deleting /\ call[c].pc = "read" /\ CallTypes'
           /\ UNCHANGED <<server, store, excused>>
           /\ Became(c, SnapshotReads(c))
  <1> DEFINE S == {t \in Tokens : token[t].state # "none"}
  <1>1. call' = [call EXCEPT ![c].pc = "deleting", ![c].saw = S]
    BY DEF SnapshotRead
  <1>2. S = Issued /\ S \in SUBSET Tokens
    BY DEF Issued
  <1> DEFINE mid == [call EXCEPT ![c].pc = "deleting"]
  <1> HIDE DEF S
  <1>6. mid \in [Calls -> CallRecords] /\ call' = [mid EXCEPT ![c].saw = S]
    BY <1>1 DEF SessionTypes, CallTypes, CallRecords
  <1>3. CallTypes'
    <2> HIDE DEF mid
    <2>1. QED
      BY <1>2, <1>6 DEF CallTypes, CallRecords
  <1>4. Became(c, SnapshotReads(c))
    <2>1. OthersKept(c)
      BY <1>1 DEF OthersKept, SessionTypes, CallTypes
    <2>2. mid[c] \in [op : {call[c].op}, from : {call[c].from}, pc : {"deleting"},
                      arg : {call[c].arg}, saw : {call[c].saw}, password : {call[c].password},
                      late : {call[c].late}, out : {call[c].out}, ok : {call[c].ok}]
      BY DEF SessionTypes, CallTypes, CallRecords
    <2> HIDE DEF mid
    <2>3. call'[c] \in SnapshotReads(c)
      BY <1>2, <1>6, <2>2 DEF SnapshotReads
    <2>4. QED
      BY <2>1, <2>3 DEF Became
  <1>5. QED
    BY <1>3, <1>4 DEF SnapshotRead

(* After a deletion of sessions the request is answered, and the others are*)
(* as they were but for being late.                                        *)
SameButLate(x) ==
    /\ call'[x].op = call[x].op /\ call'[x].from = call[x].from /\ call'[x].pc = call[x].pc
    /\ call'[x].arg = call[x].arg /\ call'[x].saw = call[x].saw
    /\ call'[x].password = call[x].password /\ call'[x].out = call[x].out
    /\ call'[x].ok = call[x].ok
    /\ call'[x].late = (call[x].late \/ call[x].pc = "read")

(* A sign-in in flight while the sessions end is marked late; nothing      *)
(* else changes in the other calls.                                        *)
LEMMA LateFacts ==
    ASSUME SessionTypes, NEW c \in Calls,
           call' = [LateCalls EXCEPT ![c] = Answered(c, TRUE)[c]]
    PROVE  /\ CallTypes'
           /\ call'[c] \in Answers(c, 0, TRUE)
           /\ \A x \in Calls \ {c} : SameButLate(x)
  <1>1. /\ Answered(c, TRUE)[c] \in CallRecords
        /\ Answered(c, TRUE)[c] \in Answers(c, 0, TRUE)
    BY AnsweredIs DEF SessionTypes
  <1>2. LateCalls \in [Calls -> CallRecords]
    BY DEF SessionTypes, CallTypes, LateCalls, CallRecords
  <1>3. \A x \in Calls \ {c} : call'[x] = [call[x] EXCEPT !.late = @ \/ call[x].pc = "read"]
    BY DEF LateCalls
  <1>4. ASSUME NEW x \in Calls \ {c} PROVE SameButLate(x)
    <2>1. call[x] \in CallRecords /\ call'[x] = [call[x] EXCEPT !.late = call[x].late \/ call[x].pc = "read"]
      BY <1>3 DEF SessionTypes, CallTypes
    <2>2. QED
      BY <2>1 DEF SameButLate, CallRecords
  <1>5. QED
    BY <1>1, <1>2, <1>4 DEF CallTypes
-------------------------------------------------------------------------------
(* What happens to the tokens: one is issued, one dies, or those a deletion*)
(* has seen die and the others become late.                                *)
Buried(t, state) ==
    /\ token'[t].state = state /\ token'[t].to = Nobody
    /\ \A u \in Tokens \ {t} : token'[u] = token[u]
TokenTypes == token \in [Tokens -> TokenRecords]

(* A dead token is a token.                                                *)
LEMMA DeadType ==
    ASSUME NEW state \in TokenStates
    PROVE  /\ Dead(state) \in TokenRecords
           /\ Dead(state).state = state /\ Dead(state).to = Nobody
  BY SessionsAssumption DEF Dead, NoToken, TokenRecords, Passwords

(* A token dies.                                                           *)
LEMMA Burial ==
    ASSUME TokenTypes, NEW t \in Tokens, NEW state \in TokenStates,
           token' = [token EXCEPT ![t] = Dead(state)]
    PROVE  Buried(t, state) /\ TokenTypes'
  BY DeadType DEF TokenTypes, Buried

Doomed(c, t) ==
    /\ token'[t].state = IF t \in call[c].saw THEN "gone" ELSE token[t].state
    /\ token'[t].to = IF t \in call[c].saw THEN Nobody ELSE token[t].to
    /\ t \notin call[c].saw /\ Live(t) => token'[t].password = Late

(* A change of the password, a reset or the deletion commits.              *)
LEMMA SessionsDeletedIs ==
    ASSUME TokenTypes, NEW c \in Calls, token' = SessionsDeleted(c)
    PROVE  TokenTypes' /\ \A t \in Tokens : Doomed(c, t)
  <1>1. ASSUME NEW t \in Tokens PROVE token'[t] \in TokenRecords /\ Doomed(c, t)
    <2>1. token[t] \in TokenRecords
      BY DEF TokenTypes
    <2>2. CASE t \in call[c].saw
      <3>1. token'[t] = Dead("gone")
        BY <2>2 DEF SessionsDeleted
      <3>2. QED
        BY <2>2, <3>1, DeadType DEF Doomed, TokenStates
    <2>3. CASE t \notin call[c].saw /\ Live(t)
      <3>1. token'[t] = [token[t] EXCEPT !.password = Late]
        BY <2>3 DEF SessionsDeleted
      <3>2. QED
        BY <2>1, <2>3, <3>1 DEF Doomed, TokenRecords
    <2>4. CASE t \notin call[c].saw /\ ~Live(t)
      <3>1. token'[t] = token[t]
        BY <2>4 DEF SessionsDeleted
      <3>2. QED
        BY <2>1, <2>4, <3>1 DEF Doomed
    <2>5. QED
      BY <2>2, <2>3, <2>4
  <1>2. token' = [t \in Tokens |-> token'[t]]
    BY DEF SessionsDeleted
  <1>3. QED
    BY <1>1, <1>2 DEF TokenTypes

NewTokens(c) ==
    [state : {"live"}, to : {call[c].from},
     password : {IF call[c].late THEN Late ELSE call[c].password}]

(* A token is issued beside the others, of which a refresh spends one.     *)
LEMMA IssuedToken ==
    ASSUME SessionTypes, NEW c \in Calls, NEW tokens \in [Tokens -> TokenRecords],
           Issues(c, tokens)
    PROVE  /\ TokenTypes'
           /\ token'[NewToken] \in NewTokens(c)
           /\ \A u \in Tokens \ {NewToken} : token'[u] = tokens[u]
  <1> DEFINE new == [state |-> "live", to |-> call[c].from,
                     password |-> IF call[c].late THEN Late ELSE call[c].password]
  <1>1. NewToken \in Tokens /\ token' = [tokens EXCEPT ![NewToken] = new]
    BY DEF Issues
  <1>2. new \in NewTokens(c) /\ new \in TokenRecords
    <2>1. call[c] \in CallRecords
      BY DEF SessionTypes, CallTypes
    <2>2. QED
      BY <2>1 DEF NewTokens, TokenRecords, TokenStates, CallRecords
  <1> HIDE DEF new
  <1>3. QED
    BY <1>1, <1>2 DEF TokenTypes

(* The token of a refresh is spent.                                        *)
LEMMA RotatedIs ==
    ASSUME TokenTypes, NEW t \in Tokens
    PROVE  /\ Rotated(t) \in [Tokens -> TokenRecords]
           /\ Rotated(t)[t].state = "revoked" /\ Rotated(t)[t].to = Nobody
           /\ \A u \in Tokens \ {t} : Rotated(t)[u] = token[u]
  BY DeadType DEF TokenTypes, Rotated, TokenStates

(* The commits of the handlers.                                            *)
Issuance(c) ==
    /\ NewToken \in Tokens /\ TokenTypes' /\ CallTypes'
    /\ Became(c, Answers(c, NewToken, TRUE))
    /\ token'[NewToken] \in NewTokens(c)
    /\ UNCHANGED <<password, link, store, excused>>
Refusal(c) ==
    /\ CallTypes' /\ Became(c, Answers(c, 0, FALSE))
    /\ UNCHANGED <<server, store, excused>>

(* A login or registration is refused, or issues the next token and        *)
(* leaves the others alone.                                                *)
LEMMA SignInFacts ==
    ASSUME SessionTypes, NEW c \in Calls, SignInCommit(c)
    PROVE  /\ call[c].op \in Signing /\ call[c].pc = "read"
           /\ \/ call[c].op = "register" /\ account # "none" /\ Refusal(c)
              \/ /\ Issuance(c)
                 /\ account' = IF call[c].op = "register" THEN "active" ELSE account
                 /\ call[c].op = "register" => account = "none"
                 /\ \A u \in Tokens \ {NewToken} : token'[u] = token[u]
  <1>1. CASE call[c].op = "register" /\ account # "none"
    BY <1>1, AnswerFacts DEF SignInCommit, Refused, Refusal
  <1>2. CASE ~(call[c].op = "register" /\ account # "none")
    <2>1. Issues(c, token) /\ UNCHANGED <<password, link, store, excused>>
      BY <1>2 DEF SignInCommit
    <2>2. token \in [Tokens -> TokenRecords] /\ CallTypes
      BY DEF SessionTypes
    <2>3. QED
      BY <1>2, <2>1, <2>2, IssuedIs, IssuedToken DEF SignInCommit, Issuance
  <1>3. QED
    BY <1>1, <1>2

(* A refresh that commits is refused, or revokes the token it came with    *)
(* and issues the next one.                                                *)
LEMMA RefreshFacts ==
    ASSUME SessionTypes, NEW c \in Calls, RefreshCommit(c)
    PROVE  /\ Spends(c) /\ call[c].op = "refresh" /\ call[c].pc = "read"
           /\ \/ token[call[c].arg].state = "gone" /\ Refusal(c)
              \/ /\ Issuance(c)
                 /\ account' = account
                 /\ call[c].arg # NewToken => /\ token'[call[c].arg].state = "revoked"
                                              /\ token'[call[c].arg].to = Nobody
                 /\ \A u \in Tokens \ {NewToken, call[c].arg} : token'[u] = token[u]
  <1>0. Spends(c) /\ call[c].op = "refresh" /\ call[c].pc = "read" /\ call[c].arg \in Tokens
    BY DEF RefreshCommit, At, Spends, SessionTypes
  <1>1. CASE token[call[c].arg].state = "gone"
    BY <1>0, <1>1, AnswerFacts DEF RefreshCommit, Refused, Refusal
  <1>2. CASE token[call[c].arg].state # "gone"
    <2> DEFINE t == call[c].arg
    <2>1. Issues(c, Rotated(t)) /\ UNCHANGED <<account, password, link, store, excused>>
      BY <1>2 DEF RefreshCommit
    <2>2. /\ Rotated(t) \in [Tokens -> TokenRecords]
          /\ Rotated(t)[t].state = "revoked" /\ Rotated(t)[t].to = Nobody
          /\ \A u \in Tokens \ {t} : Rotated(t)[u] = token[u]
      BY <1>0, RotatedIs DEF SessionTypes, TokenTypes
    <2>3. CallTypes
      BY DEF SessionTypes
    <2>4. Issuance(c) /\ \A u \in Tokens \ {NewToken} : token'[u] = Rotated(t)[u]
      BY <2>1, <2>2, <2>3, IssuedIs, IssuedToken DEF Issuance
    <2>5. QED
      BY <1>0, <2>1, <2>2, <2>4
  <1>3. QED
    BY <1>1, <1>2

(* A logout that commits revokes its token, unless a deletion has          *)
(* removed the row.                                                        *)
LEMMA LogoutFacts ==
    ASSUME SessionTypes, NEW c \in Calls, LogoutCommit(c)
    PROVE  /\ Spends(c) /\ call[c].op = "logout"
           /\ \/ token[call[c].arg].state = "gone" /\ Refusal(c)
              \/ /\ Buried(call[c].arg, "revoked") /\ TokenTypes' /\ CallTypes'
                 /\ Became(c, Answers(c, 0, TRUE))
                 /\ UNCHANGED <<account, password, link, store, excused>>
  <1>0. Spends(c) /\ call[c].op = "logout" /\ call[c].arg \in Tokens
    BY DEF LogoutCommit, At, Spends, SessionTypes
  <1>1. CASE token[call[c].arg].state = "gone"
    BY <1>0, <1>1, AnswerFacts DEF LogoutCommit, Refused, Refusal
  <1>2. CASE token[call[c].arg].state # "gone"
    <2>1. /\ token' = Rotated(call[c].arg) /\ call' = Answered(c, TRUE)
          /\ UNCHANGED <<account, password, link, store, excused>>
      BY <1>2 DEF LogoutCommit
    <2>2. Buried(call[c].arg, "revoked") /\ TokenTypes'
      BY <1>0, <2>1, Burial DEF Rotated, SessionTypes, TokenTypes, TokenStates
    <2>3. QED
      BY <1>0, <2>1, <2>2, AnswerFacts
  <1>3. QED
    BY <1>1, <1>2

(* A change of the password, a reset and the deletion of the account.      *)
SessionsEnd(c) ==
    /\ CallTypes' /\ TokenTypes' /\ call[c].pc = "deleting"
    /\ call'[c] \in Answers(c, 0, TRUE)
    /\ \A x \in Calls \ {c} : SameButLate(x)
    /\ \A t \in Tokens : Doomed(c, t)
    /\ UNCHANGED <<store, excused>>

(* A change or a reset ends the sessions it has read and counts the        *)
(* password up; a reset spends its link.                                   *)
LEMMA PasswordFacts ==
    ASSUME SessionTypes, NEW c \in Calls, PasswordCommit(c)
    PROVE  /\ SessionsEnd(c) /\ call[c].op \in {"change", "reset"}
           /\ password' = password + 1 /\ password' \in Passwords
           /\ account' = account
           /\ link' = IF call[c].op = "reset" THEN link \ {call[c].arg} ELSE link
  <1>1. password' \in Passwords
    BY SessionsAssumption DEF PasswordCommit, Passwords, SessionTypes
  <1>2. TokenTypes' /\ \A t \in Tokens : Doomed(c, t)
    BY SessionsDeletedIs DEF PasswordCommit, SessionTypes, TokenTypes
  <1>3. QED
    BY <1>1, <1>2, LateFacts DEF PasswordCommit, SessionsEnd

(* The deletion of an account ends the sessions it has read, and           *)
(* removes every link.                                                     *)
LEMMA DeleteFacts ==
    ASSUME SessionTypes, NEW c \in Calls, DeleteCommit(c)
    PROVE  /\ SessionsEnd(c) /\ call[c].op = "delete"
           /\ \A x \in Calls : call[x].op = "reset" => call[x].arg \notin Links
           /\ account' = "deleted" /\ password' = password /\ link' = {}
  <1>1. TokenTypes' /\ \A t \in Tokens : Doomed(c, t)
    BY SessionsDeletedIs DEF DeleteCommit, SessionTypes, TokenTypes
  <1>2. QED
    BY <1>1, LateFacts DEF DeleteCommit, SessionsEnd, At, LinkFree

(* A request for a link replaces the links it has read by a free one.      *)
LEMMA ForgotFacts ==
    ASSUME SessionTypes, NEW c \in Calls, ForgotCommit(c)
    PROVE  /\ call[c].op = "forgot" /\ CallTypes'
           /\ Became(c, Answers(c, 0, TRUE))
           /\ \A k \in call[c].saw : LinkFree(k)
           /\ link \ call[c].saw \subseteq link' /\ link' \subseteq Links
           /\ UNCHANGED <<account, password, token, store, excused>>
  <1>1. call' = Answered(c, TRUE) /\ UNCHANGED <<account, password, token, store, excused>>
    BY DEF ForgotCommit
  <1>2. link \ call[c].saw \subseteq link' /\ link' \subseteq Links
    BY DEF ForgotCommit, LinksDeleted, SessionTypes
  <1>3. QED
    BY <1>1, <1>2, AnswerFacts DEF ForgotCommit, At
(* What a device does with an answer, and without one.                     *)
LogoutsSent(d) == 
    [op : {"logout"}, from : {d}, pc : {"sent"}, arg : {store[d]}, saw : {{}},
     password : {0}, late : {FALSE}, out : {0}, ok : {FALSE}]

(* A sign-in takes the token stored before from the device, and nothing    *)
(* else from any token.                                                    *)
Overwrites(c) ==
    /\ \A u \in Tokens :
        /\ token'[u].state = token[u].state /\ token'[u].password = token[u].password
        /\ token'[u].to \in {token[u].to, Nobody}
    /\ call[c].op \in Signing /\ call[c].ok = TRUE /\ store[call[c].from] # 0
       => token'[store[call[c].from]].to = Nobody

(* An answer that arrives changes the app's store and its calls, and at    *)
(* most what is known of the stored token; after a deletion the app sends  *)
(* its logout.                                                             *)
LEMMA ReceiveFacts ==
    ASSUME SessionTypes, NEW c \in Calls, Receive(c)
    PROVE  /\ call[c].op # "idle" /\ call[c].pc = "answered" /\ call[c].from \in Devices
           /\ CallTypes'
           /\ \/ Became(c, Idle)
              \/ /\ call[c].op \in Deleting /\ store[call[c].from] # 0
                 /\ Became(c, LogoutsSent(call[c].from))
           /\ store' = [store EXCEPT ![call[c].from] = KeptAfter(c)]
           /\ KeptAfter(c) \in 0..MaxTokens
           /\ excused' = IF call[c].op \in Deleting /\ Doing(call[c].from, "refresh")
                         THEN excused \cup {call[c].from} ELSE excused
           /\ Overwrites(c) /\ TokenTypes'
           /\ UNCHANGED <<account, password, link>>
  <1> DEFINE k == call[c]
             send == [NoCall EXCEPT !.op = "logout", !.from = k.from, !.pc = "sent",
                                    !.arg = store[k.from]]
  <1>1. k \in CallRecords /\ k.from \in Devices
    BY DEF Receive, SessionTypes, CallTypes, CallRecords
  <1>2. send \in LogoutsSent(k.from)
    BY DEF LogoutsSent, NoCall
  <1>3. LogoutsSent(k.from) \subseteq CallRecords
    <2>1. 0 \in Passwords /\ 0 \in 0..MaxTokens /\ store[k.from] \in 0..MaxTokens
      BY <1>1, SessionsAssumption DEF Passwords, SessionTypes
    <2>2. ASSUME NEW x \in LogoutsSent(k.from) PROVE x \in CallRecords
      BY <1>1, <2>1 DEF LogoutsSent, CallRecords, Ops
    <2>3. QED
      BY <2>2
  <1>4. call' = [call EXCEPT ![c] = IF k.op \in Deleting /\ k.ok /\ store[k.from] # 0
                                    THEN send ELSE NoCall]
    BY DEF Receive
  <1>5. CallTypes
    BY DEF SessionTypes
  <1>6. /\ CallTypes'
        /\ \/ Became(c, Idle)
           \/ /\ k.op \in Deleting /\ store[k.from] # 0
              /\ Became(c, LogoutsSent(k.from))
    <2> HIDE DEF send
    <2>1. CASE k.op \in Deleting /\ k.ok /\ store[k.from] # 0
      <3>1. call' = [call EXCEPT ![c] = send]
        BY <1>4, <2>1
      <3> HIDE DEF k
      <3>2. QED
        BY <1>2, <1>3, <1>5, <2>1, <3>1, Replaced
    <2>2. CASE ~(k.op \in Deleting /\ k.ok /\ store[k.from] # 0)
      <3>1. call' = [call EXCEPT ![c] = NoCall]
        BY <1>4, <2>2
      <3>2. QED
        BY <1>5, <3>1, NoCallType, Replaced
    <2>3. QED
      BY <2>1, <2>2
  <1>7. KeptAfter(c) \in 0..MaxTokens
    BY <1>1, SessionsAssumption DEF KeptAfter, SessionTypes, CallRecords
  <1>8. Overwrites(c) /\ TokenTypes'
    <2>1. CASE k.op \in Signing /\ k.ok /\ store[k.from] # 0
      <3>1. token' = [token EXCEPT ![store[k.from]].to = Nobody]
        BY <2>1 DEF Receive, Overwritten
      <3>2. store[k.from] \in Tokens /\ token \in [Tokens -> TokenRecords]
        BY <1>1, <2>1, SessionsAssumption DEF SessionTypes, Tokens
      <3> HIDE DEF k
      <3>3. TokenTypes'
        BY <3>1, <3>2 DEF TokenTypes, TokenRecords
      <3>4. Overwrites(c)
        BY <2>1, <3>1, <3>2 DEF Overwrites, TokenRecords, k
      <3>5. QED
        BY <3>3, <3>4
    <2>2. CASE ~(k.op \in Signing /\ k.ok /\ store[k.from] # 0)
      <3>1. token' = token
        BY <2>2 DEF Receive, Overwritten
      <3>2. QED
        BY <1>1, <2>2, <3>1 DEF Overwrites, TokenTypes, SessionTypes, CallRecords
    <2>3. QED
      BY <2>1, <2>2
  <1>9. QED
    BY <1>1, <1>6, <1>7, <1>8 DEF Receive, ExcusedIf

(* A request nobody waits for any more is otherwise the same.              *)
Orphaned(x) ==
    /\ call'[x].op = call[x].op /\ call'[x].from = Nobody /\ call'[x].pc = call[x].pc
    /\ call'[x].arg = call[x].arg /\ call'[x].saw = call[x].saw
    /\ call'[x].password = call[x].password /\ call'[x].late = call[x].late
    /\ call'[x].out = call[x].out /\ call'[x].ok = call[x].ok
Disconnects(d) ==
    /\ CallTypes' /\ UNCHANGED server
    /\ \A x \in Calls : \/ call'[x] = call[x]
                        \/ Orphaned(x) /\ call[x].from = d
    /\ store' = store \/ store' = [store EXCEPT ![d] = 0]
    /\ excused' = excused \cup {d}

(* Losing an answer disconnects the device from its calls.                 *)
LEMMA GiveUpFacts ==
    ASSUME SessionTypes, NEW c \in Calls, GiveUp(c)
    PROVE  call[c].from \in Devices /\ Disconnects(call[c].from)
  <1>1. call[c].from \in Devices
    BY DEF GiveUp, SessionTypes, CallTypes, CallRecords
  <1>2. call' = [call EXCEPT ![c].from = Nobody]
    BY DEF GiveUp
  <1>3. CallTypes'
    BY <1>2 DEF SessionTypes, CallTypes, CallRecords
  <1>4. Orphaned(c)
    BY <1>2 DEF Orphaned, SessionTypes, CallTypes, CallRecords
  <1>5. store' = store \/ store' = [store EXCEPT ![call[c].from] = 0]
    <2>1. CASE call[c].op \in {"refresh", "logout"}
      BY <2>1 DEF GiveUp
    <2>2. CASE call[c].op \notin {"refresh", "logout"}
      <3>1. store' = [store EXCEPT ![call[c].from] = store[call[c].from]]
        BY <2>2 DEF GiveUp
      <3>2. QED
        BY <1>1, <3>1 DEF SessionTypes
    <2>3. QED
      BY <2>1, <2>2
  <1>6. \A x \in Calls \ {c} : call'[x] = call[x]
    BY <1>2 DEF SessionTypes, CallTypes
  <1>7. QED
    BY <1>1, <1>3, <1>4, <1>5, <1>6 DEF GiveUp, Disconnects

(* So does a restart of the app.                                           *)
LEMMA RestartFacts ==
    ASSUME SessionTypes, NEW d \in Devices, Restart(d)
    PROVE  Disconnects(d)
  <1>1. call' = [c \in Calls |-> IF c \in Waits(d) THEN [call[c] EXCEPT !.from = Nobody]
                                 ELSE call[c]]
    BY DEF Restart
  <1>2. ASSUME NEW x \in Calls
        PROVE  /\ call'[x] \in CallRecords
               /\ call'[x] = call[x] \/ (Orphaned(x) /\ call[x].from = d)
    <2>1. call[x] \in CallRecords
      BY DEF SessionTypes, CallTypes
    <2>2. CASE x \in Waits(d)
      <3>1. call'[x] = [call[x] EXCEPT !.from = Nobody]
        BY <1>1, <2>2
      <3>2. QED
        BY <2>1, <2>2, <3>1 DEF Orphaned, Waits, CallRecords
    <2>3. CASE x \notin Waits(d)
      BY <1>1, <2>1, <2>3
    <2>4. QED
      BY <2>2, <2>3
  <1>3. CallTypes'
    BY <1>1, <1>2 DEF CallTypes
  <1>4. QED
    BY <1>2, <1>3 DEF Restart, Disconnects

(* A request nobody waits for may die without a trace.                     *)
LEMMA DiesFacts ==
    ASSUME SessionTypes, NEW c \in Calls, Dies(c)
    PROVE  /\ call[c].from = Nobody /\ CallTypes' /\ Became(c, Idle)
           /\ UNCHANGED <<server, store, excused>>
  BY NoCallType, Replaced DEF Dies, SessionTypes

(* A token lapses between requests.                                        *)
LEMMA LapseFacts ==
    ASSUME SessionTypes, NEW t \in Tokens, TokenLapses(t)
    PROVE  /\ Buried(t, "lapsed") /\ TokenTypes' /\ Live(t)
           /\ \A c \in Calls : call[c] = NoCall
           /\ UNCHANGED <<account, password, link, store, call, excused>>
  BY Burial DEF TokenLapses, SessionTypes, TokenTypes, TokenStates, Quiet
-------------------------------------------------------------------------------
(* The kinds of steps of the sessions.  A request begins:                  *)
Begins(c, R) == call[c] = NoCall /\ Became(c, R) /\ CallTypes' /\ UNCHANGED <<server, store>>
Sends(c, d) ==
    /\ store[d] # 0
    /\ \/ /\ ~Doing(d, "refresh") /\ Begins(c, NewCalls("refresh", d, "sent", store[d], {}))
          /\ ExcusedIf(d, Doing(d, "logout") \/ SigningIn(d))
       \/ /\ ~Leaving(d) /\ Begins(c, NewCalls("logout", d, "sent", store[d], {}))
          /\ ExcusedIf(d, Doing(d, "refresh") \/ SigningIn(d))
SignsIn(c, d) ==
    /\ ExcusedIf(d, Waits(d) # {})
    /\ \E op \in Signing : /\ Begins(c, NewCalls(op, d, "read", 0, {}))
                           /\ account = IF op = "register" THEN "none" ELSE "active"
Asks(c, d) ==
    /\ store[d] # 0 /\ ~Leaving(d) /\ account = "active" /\ ExcusedIf(d, SigningIn(d))
    /\ \E op \in {"change", "delete"} : Begins(c, NewCalls(op, d, "read", 0, {}))
Resets(c, k) ==
    /\ LinkFree(k) /\ k \in link /\ account = "active" /\ excused' = excused
    /\ Begins(c, NewCalls("reset", Nobody, "read", k, {}))
Forgets(c) ==
    /\ account = "active" /\ excused' = excused
    /\ Begins(c, NewCalls("forgot", Nobody, "read", 0, link))

(* It reads its rows, is answered without more, or commits:                *)
Advances(c) ==
    /\ CallTypes' /\ UNCHANGED <<server, store, excused>>
    /\ \/ Spends(c) /\ call[c].op = "refresh" /\ Refreshable(call[c].arg) /\ Became(c, RefreshReads(c))
       \/ Spends(c) /\ call[c].op = "logout" /\ Became(c, LogoutReads(c))
       \/ call[c].op \in Deleting /\ Became(c, SnapshotReads(c))
JustAnswers(c) ==
    /\ CallTypes' /\ UNCHANGED <<server, store, excused>>
    /\ \E ok \in BOOLEAN : Became(c, Answers(c, 0, ok))
    /\ call[c].pc # "answered"
    /\ call[c].op \in {"refresh", "logout"} =>
          Spends(c) /\ ~Refreshable(call[c].arg)
SignedIn(c) ==
    /\ Issuance(c) /\ call[c].op \in Signing /\ call[c].pc = "read"
    /\ account' = IF call[c].op = "register" THEN "active" ELSE account
    /\ call[c].op = "register" => account = "none"
    /\ \A u \in Tokens \ {NewToken} : token'[u] = token[u]
Refreshed(c) ==
    /\ Issuance(c) /\ Spends(c) /\ call[c].op = "refresh" /\ call[c].pc = "read"
    /\ account' = account
    /\ call[c].arg # NewToken => /\ token'[call[c].arg].state = "revoked"
                                 /\ token'[call[c].arg].to = Nobody
    /\ \A u \in Tokens \ {NewToken, call[c].arg} : token'[u] = token[u]
LoggedOut(c) ==
    /\ Spends(c) /\ call[c].op = "logout" /\ Buried(call[c].arg, "revoked")
    /\ TokenTypes' /\ CallTypes' /\ Became(c, Answers(c, 0, TRUE))
    /\ UNCHANGED <<account, password, link, store, excused>>
Changed(c) ==
    /\ SessionsEnd(c) /\ call[c].op \in {"change", "reset"}
    /\ password' = password + 1 /\ password' \in Passwords
    /\ account' = account
    /\ link' = IF call[c].op = "reset" THEN link \ {call[c].arg} ELSE link
Deleted(c) ==
    /\ SessionsEnd(c) /\ call[c].op = "delete"
    /\ \A x \in Calls : call[x].op = "reset" => call[x].arg \notin Links
    /\ account' = "deleted" /\ password' = password /\ link' = {}
Mailed(c) ==
    /\ call[c].op = "forgot" /\ CallTypes' /\ Became(c, Answers(c, 0, TRUE))
    /\ \A k \in call[c].saw : LinkFree(k)
    /\ link \ call[c].saw \subseteq link' /\ link' \subseteq Links
    /\ UNCHANGED <<account, password, token, store, excused>>

(* The device takes an answer; without one the handler may die; time passes*)
Receives(c) ==
    /\ call[c].op # "idle" /\ call[c].pc = "answered" /\ call[c].from \in Devices
    /\ CallTypes'
    /\ \/ Became(c, Idle)
       \/ /\ call[c].op \in Deleting /\ store[call[c].from] # 0
          /\ Became(c, LogoutsSent(call[c].from))
    /\ store' = [store EXCEPT ![call[c].from] = KeptAfter(c)]
    /\ KeptAfter(c) \in 0..MaxTokens
    /\ excused' = IF call[c].op \in Deleting /\ Doing(call[c].from, "refresh")
                  THEN excused \cup {call[c].from} ELSE excused
    /\ Overwrites(c) /\ TokenTypes'
    /\ UNCHANGED <<account, password, link>>
Dropped(c) ==
    /\ call[c].from = Nobody /\ CallTypes' /\ Became(c, Idle)
    /\ UNCHANGED <<server, store, excused>>
Lapsed(t) ==
    /\ Buried(t, "lapsed") /\ TokenTypes' /\ Live(t)
    /\ UNCHANGED <<account, password, link, store, call, excused>>
LinkGone ==
    /\ link' \subseteq link /\ \A c \in Calls : call[c] = NoCall
    /\ UNCHANGED <<account, password, token, store, call, excused>>

RequestKind(c) ==
    \/ \E d \in Devices : Sends(c, d) \/ SignsIn(c, d) \/ Asks(c, d)
    \/ \E k \in Links : Resets(c, k)
    \/ Forgets(c) \/ Advances(c) \/ JustAnswers(c)
CommitKind(c) ==
    \/ SignedIn(c) \/ Refreshed(c) \/ LoggedOut(c) \/ Changed(c) \/ Deleted(c) \/ Mailed(c)
DeviceKind ==
    \/ \E c \in Calls : Receives(c) \/ Dropped(c)
    \/ \E d \in Devices : Disconnects(d)
    \/ \E t \in Tokens : Lapsed(t)
    \/ LinkGone
Kinds ==
    \/ \E c \in Calls : RequestKind(c) \/ CommitKind(c)
    \/ DeviceKind
    \/ UNCHANGED vars

(* The requests that a device sends.                                       *)
LEMMA DeviceKinds ==
    ASSUME SessionTypes, NEW c \in Calls, NEW d \in Devices,
           DeviceStep(c, d) \/ PasswordRead(c, d, "delete")
    PROVE  RequestKind(c)
  <1>1. CASE StartRefresh(c, d)
    <2>1. store[d] # 0 /\ Begin(c, d, "refresh", "sent", store[d], {})
      BY <1>1 DEF StartRefresh, SingleFlight
    <2>2. Begins(c, NewCalls("refresh", d, "sent", store[d], {}))
      BY <1>1, <2>1, StartFacts DEF StartRefresh, Begins
    <2>3. QED
      BY <1>1, <2>1, <2>2 DEF StartRefresh, SingleFlight, Sends, RequestKind
  <1>2. CASE StartLogout(c, d)
    <2>1. store[d] # 0 /\ Begin(c, d, "logout", "sent", store[d], {})
      BY <1>2 DEF StartLogout
    <2>2. Begins(c, NewCalls("logout", d, "sent", store[d], {}))
      BY <1>2, <2>1, StartFacts DEF StartLogout, Begins
    <2>3. QED
      BY <1>2, <2>1, <2>2 DEF StartLogout, Sends, RequestKind
  <1>3. ASSUME NEW op \in Signing, SignInRead(c, d, op) PROVE RequestKind(c)
    <2>1. op \in Ops /\ Begin(c, d, op, "read", 0, {})
      BY <1>3 DEF SignInRead, Ops
    <2>2. Begins(c, NewCalls(op, d, "read", 0, {}))
      BY <1>3, <2>1, ReadFacts DEF SignInRead, Begins
    <2>3. QED
      BY <1>3, <2>2 DEF SignInRead, SignsIn, RequestKind
  <1>4. ASSUME NEW op \in {"change", "delete"}, PasswordRead(c, d, op) PROVE RequestKind(c)
    <2>1. op \in Ops /\ Begin(c, d, op, "read", 0, {})
      BY <1>4 DEF PasswordRead, Ops, Deleting
    <2>2. Begins(c, NewCalls(op, d, "read", 0, {}))
      BY <1>4, <2>1, ReadFacts DEF PasswordRead, Begins
    <2>3. QED
      BY <1>4, <2>2 DEF PasswordRead, Asks, RequestKind
  <1>5. QED
    BY <1>1, <1>2, <1>3, <1>4 DEF DeviceStep

(* What the handlers do.                                                   *)
LEMMA ServerKinds ==
    ASSUME SessionTypes, NEW c \in Calls, ServerStep(c) \/ DeleteCommit(c) \/ DeleteFails(c)
    PROVE  RequestKind(c) \/ CommitKind(c)
  <1>1. CASE RefreshRead(c)
    BY <1>1, RefreshReadFacts DEF RefreshRead, At, Advances, JustAnswers, RequestKind
  <1>2. CASE LogoutRead(c)
    BY <1>2, LogoutReadFacts DEF Spends, At, LogoutRead, Advances, JustAnswers, RequestKind,
                                 Refreshable, Live
  <1>3. CASE ForgotRead(c)
    <2>1. Begin(c, Nobody, "forgot", "read", 0, link) /\ link \in SUBSET Links
      BY <1>3 DEF ForgotRead, SessionTypes
    <2>2. "forgot" \in Ops
      BY DEF Ops
    <2>3. QED
      BY <1>3, <2>1, <2>2, ReadFacts DEF ForgotRead, Begins, Forgets, RequestKind
  <1>4. ASSUME NEW k \in Links, ResetRead(c, k) PROVE RequestKind(c)
    <2>1. Begin(c, Nobody, "reset", "read", k, {}) /\ "reset" \in Ops
      BY <1>4 DEF ResetRead, Ops, Deleting
    <2>4. k \in {0} \cup Links /\ {} \in SUBSET Links /\ Nobody \in Devices \cup {Nobody}
      OBVIOUS
    <2>2. Begins(c, NewCalls("reset", Nobody, "read", k, {}))
      BY <1>4, <2>1, <2>4, ReadFacts DEF ResetRead, Begins
    <2>3. QED
      BY <1>4, <2>2 DEF ResetRead, SelectForUpdate, Resets, RequestKind
  <1>5. CASE SnapshotRead(c)
    BY <1>5, SnapshotFacts DEF Advances, RequestKind
  <1>6. CASE SignInCommit(c)
    <2>1. CASE Refusal(c)
      BY <1>6, <2>1, SignInFacts DEF Refusal, JustAnswers, RequestKind, Signing
    <2>2. QED
      BY <1>6, <2>1, SignInFacts DEF SignedIn, CommitKind
  <1>7. CASE RefreshCommit(c)
    <2>1. CASE token[call[c].arg].state = "gone" /\ Refusal(c)
      BY <1>7, <2>1, RefreshFacts DEF Refusal, JustAnswers, RequestKind, Refreshable, Live
    <2>2. QED
      BY <1>7, <2>1, RefreshFacts DEF Refreshed, CommitKind
  <1>8. CASE LogoutCommit(c)
    <2>1. CASE token[call[c].arg].state = "gone" /\ Refusal(c)
      BY <1>8, <2>1, LogoutFacts DEF Spends, Refusal, JustAnswers, RequestKind, Refreshable, Live
    <2>2. QED
      BY <1>8, <2>1, LogoutFacts DEF LoggedOut, CommitKind
  <1>9. CASE PasswordCommit(c)
    BY <1>9, PasswordFacts DEF Changed, CommitKind
  <1>10. CASE ForgotCommit(c)
    BY <1>10, ForgotFacts DEF Mailed, CommitKind
  <1>11. CASE DeleteCommit(c)
    BY <1>11, DeleteFacts DEF Deleted, CommitKind
  <1>12. CASE DeleteFails(c)
    BY <1>12, AnswerFacts DEF DeleteFails, Refused, At, JustAnswers, RequestKind
  <1>13. QED
    BY <1>1, <1>2, <1>3, <1>4, <1>5, <1>6, <1>7, <1>8, <1>9, <1>10, <1>11, <1>12 DEF ServerStep

(* Every step is of one of these kinds.                                    *)
LEMMA StepKinds ==
    ASSUME SessionTypes, [Next]_vars PROVE Kinds
  <1>1. ASSUME NEW c \in Calls, NEW d \in Devices, DeviceStep(c, d) \/ PasswordRead(c, d, "delete")
        PROVE  Kinds
    BY <1>1, DeviceKinds DEF Kinds
  <1>2. ASSUME NEW c \in Calls, ServerStep(c) \/ DeleteCommit(c) \/ DeleteFails(c)
        PROVE  Kinds
    BY <1>2, ServerKinds DEF Kinds
  <1>3. ASSUME NEW c \in Calls, Receive(c) PROVE Kinds
    BY <1>3, ReceiveFacts DEF Receives, DeviceKind, Kinds
  <1>4. ASSUME NEW c \in Calls, GiveUp(c) PROVE Kinds
    BY <1>4, GiveUpFacts DEF DeviceKind, Kinds
  <1>5. ASSUME NEW c \in Calls, Dies(c) PROVE Kinds
    BY <1>5, DiesFacts DEF Dropped, DeviceKind, Kinds
  <1>6. ASSUME NEW d \in Devices, Restart(d) PROVE Kinds
    BY <1>6, RestartFacts DEF DeviceKind, Kinds
  <1>7. ASSUME NEW t \in Tokens, TokenLapses(t) PROVE Kinds
    BY <1>7, LapseFacts DEF Lapsed, DeviceKind, Kinds
  <1>8. ASSUME NEW k \in Links, LinkLapses(k) PROVE Kinds
    BY <1>8 DEF LinkLapses, Quiet, LinkGone, DeviceKind, Kinds
  <1>9. QED
    BY <1>1, <1>2, <1>3, <1>4, <1>5, <1>6, <1>7, <1>8 DEF Next, SessionStep, Kinds
-------------------------------------------------------------------------------
(* Types.                                                                  *)
LEMMA TypesInit ==
    ASSUME Init PROVE SessionTypes
  <1>1. 0 \in Passwords /\ 0 \in 0..MaxTokens
    BY SessionsAssumption DEF Passwords
  <1>2. NoToken \in TokenRecords
    BY <1>1 DEF NoToken, TokenRecords, TokenStates
  <1>3. CallTypes
    BY NoCallType DEF Init, CallTypes
  <1>4. \A c \in Calls : ~Spends(c)
    BY DEF Init, Spends, NoCall
  <1>5. QED
    BY <1>1, <1>2, <1>3, <1>4 DEF Init, SessionTypes

(* Every step keeps the types of users, tokens, stores and calls.          *)
LEMMA TypesStep ==
    ASSUME SessionTypes, [Next]_vars PROVE SessionTypes'
  <1> USE DEF SessionTypes
  <1>0. Kinds
    BY StepKinds
  <1>1. ASSUME NEW c \in Calls, OthersKept(c), Spends(c)' => call'[c].arg \in Tokens
        PROVE  \A x \in Calls : Spends(x)' => call'[x].arg \in Tokens
    BY <1>1 DEF OthersKept, Spends
  <1>2. ASSUME NEW c \in Calls, RequestKind(c) PROVE SessionTypes'
    <2>1. ASSUME NEW d \in Devices, Sends(c, d) PROVE SessionTypes'
      <3>1. store[d] \in Tokens
        BY <2>1, SessionsAssumption DEF Sends, Tokens
      <3>2. QED
        BY <2>1, <3>1, <1>1 DEF Sends, Begins, Became, NewCalls, server, ExcusedIf
    <2>2. ASSUME NEW d \in Devices, SignsIn(c, d) \/ Asks(c, d) PROVE SessionTypes'
      BY <2>2, <1>1 DEF SignsIn, Asks, Begins, Became, NewCalls, server, Spends, Signing,
                        ExcusedIf
    <2>3. ASSUME NEW k \in Links, Resets(c, k) PROVE SessionTypes'
      BY <2>3, <1>1 DEF Resets, Begins, Became, NewCalls, server, Spends
    <2>4. CASE Forgets(c)
      BY <2>4, <1>1 DEF Forgets, Begins, Became, NewCalls, server, Spends
    <2>5. CASE Advances(c)
      <3>1. OthersKept(c) /\ (Spends(c)' => call'[c].arg \in Tokens)
        BY <2>5 DEF Advances, Became, RefreshReads, LogoutReads, SnapshotReads, Spends
      <3>2. QED
        BY <2>5, <3>1, <1>1 DEF Advances, server
    <2>6. CASE JustAnswers(c)
      <3>1. OthersKept(c) /\ ~Spends(c)'
        BY <2>6 DEF JustAnswers, Became, Answers, Idle, Spends
      <3>2. QED
        BY <2>6, <3>1, <1>1 DEF JustAnswers, server
    <2>7. QED
      BY <1>2, <2>1, <2>2, <2>3, <2>4, <2>5, <2>6 DEF RequestKind
  <1>3. ASSUME NEW c \in Calls, CommitKind(c) PROVE SessionTypes'
    <2>1. ASSUME OthersKept(c), \E out, ok : call'[c] \in Answers(c, out, ok)
          PROVE  \A x \in Calls : Spends(x)' => call'[x].arg \in Tokens
      BY <2>1, <1>1 DEF Answers, Idle, Spends
    <2>2. CASE SignedIn(c)
      BY <2>1, <2>2 DEF SignedIn, Issuance, Became, TokenTypes
    <2>3. CASE Refreshed(c)
      BY <2>1, <2>3 DEF Refreshed, Issuance, Became, TokenTypes
    <2>4. CASE LoggedOut(c)
      BY <2>1, <2>4 DEF LoggedOut, Became, TokenTypes
    <2>5. ASSUME SessionsEnd(c) PROVE \A x \in Calls : Spends(x)' => call'[x].arg \in Tokens
      BY <2>5 DEF SessionsEnd, SameButLate, Answers, Idle, Spends
    <2>6. CASE Changed(c)
      BY <2>5, <2>6 DEF Changed, SessionsEnd, TokenTypes
    <2>7. CASE Deleted(c)
      BY <2>5, <2>7 DEF Deleted, SessionsEnd, TokenTypes
    <2>8. CASE Mailed(c)
      BY <2>1, <2>8 DEF Mailed, Became
    <2>9. QED
      BY <1>3, <2>2, <2>3, <2>4, <2>6, <2>7, <2>8 DEF CommitKind
  <1>4. CASE DeviceKind
    <2>1. ASSUME NEW c \in Calls, Receives(c) PROVE SessionTypes'
      <3>1. CASE Became(c, Idle)
        BY <2>1, <3>1, <1>1 DEF Receives, Became, Idle, TokenTypes, Spends
      <3>2. CASE store[call[c].from] # 0 /\ Became(c, LogoutsSent(call[c].from))
        <4>1. store[call[c].from] \in Tokens
          BY <2>1, <3>2, SessionsAssumption DEF Receives, Tokens
        <4>2. QED
          BY <2>1, <3>2, <4>1, <1>1 DEF Receives, Became, LogoutsSent, TokenTypes
      <3>3. QED
        BY <2>1, <3>1, <3>2 DEF Receives
    <2>2. ASSUME NEW c \in Calls, Dropped(c) PROVE SessionTypes'
      BY <2>2, <1>1 DEF Dropped, Became, Idle, server, Spends
    <2>3. ASSUME NEW d \in Devices, Disconnects(d) PROVE SessionTypes'
      BY <2>3, SessionsAssumption DEF Disconnects, Orphaned, server, Spends
    <2>4. ASSUME NEW t \in Tokens, Lapsed(t) PROVE SessionTypes'
      BY <2>4 DEF Lapsed, TokenTypes, CallTypes, Spends
    <2>5. CASE LinkGone
      BY <2>5 DEF LinkGone, CallTypes, Spends
    <2>6. QED
      BY <1>4, <2>1, <2>2, <2>3, <2>4, <2>5 DEF DeviceKind
  <1>5. CASE UNCHANGED vars
    BY <1>5 DEF vars, server, CallTypes, Spends
  <1>6. QED
    BY <1>0, <1>2, <1>3, <1>4, <1>5 DEF Kinds
-------------------------------------------------------------------------------
(* The links that resets hold.                                             *)
LEMMA LinksHeldStep ==
    ASSUME SessionTypes, LinksHeld, [Next]_vars PROVE LinksHeld'
  <1> USE DEF LinksHeld
  <1>0. Kinds
    BY StepKinds
  <1>1. ASSUME NEW c \in Calls, OthersKept(c), call'[c].op # "reset",
               \A x \in Calls \ {c} : call[x].op = "reset" => call[x].arg \in link'
        PROVE  LinksHeld'
    BY <1>1 DEF OthersKept
  <1>2. ASSUME NEW c \in Calls, RequestKind(c) PROVE LinksHeld'
    <2>1. ASSUME NEW d \in Devices, Sends(c, d) PROVE LinksHeld'
      BY <2>1, <1>1 DEF Sends, Begins, Became, NewCalls, server
    <2>2. ASSUME NEW d \in Devices, SignsIn(c, d) \/ Asks(c, d) PROVE LinksHeld'
      BY <2>2, <1>1 DEF SignsIn, Asks, Begins, Became, NewCalls, server, Signing
    <2>3. ASSUME NEW k \in Links, Resets(c, k) PROVE LinksHeld'
      <3>1. OthersKept(c) /\ link' = link /\ call'[c].arg = k /\ call'[c].from = Nobody
        BY <2>3 DEF Resets, Begins, Became, NewCalls, server
      <3>2. k \in link /\ \A x \in Calls : call[x].op = "reset" => call[x].arg # k
        BY <2>3 DEF Resets, LinkFree
      <3>3. QED
        BY <3>1, <3>2 DEF OthersKept
    <2>4. CASE Forgets(c)
      BY <2>4, <1>1 DEF Forgets, Begins, Became, NewCalls, server
    <2>5. CASE Advances(c)
      <3>1. OthersKept(c) /\ call'[c].op = call[c].op /\ call'[c].arg = call[c].arg
            /\ call'[c].from = call[c].from /\ link' = link
        BY <2>5 DEF Advances, Became, RefreshReads, LogoutReads, SnapshotReads, Spends, server
      <3>2. QED
        BY <3>1 DEF OthersKept
    <2>6. CASE JustAnswers(c)
      <3>1. OthersKept(c) /\ call'[c].op # "reset"
        BY <2>6 DEF JustAnswers, Became, Answers, Idle
      <3>2. QED
        BY <2>6, <3>1, <1>1 DEF JustAnswers, server
    <2>7. QED
      BY <1>2, <2>1, <2>2, <2>3, <2>4, <2>5, <2>6 DEF RequestKind
  <1>3. ASSUME NEW c \in Calls, CommitKind(c) PROVE LinksHeld'
    <2>1. CASE SignedIn(c)
      BY <2>1, <1>1 DEF SignedIn, Issuance, Became, Answers, Idle, Signing
    <2>2. CASE Refreshed(c)
      BY <2>2, <1>1 DEF Refreshed, Issuance, Became, Answers, Idle
    <2>3. CASE LoggedOut(c)
      BY <2>3, <1>1 DEF LoggedOut, Became, Answers, Idle
    <2>4. CASE Changed(c)
      <3>1. call'[c].op # "reset"
        BY <2>4 DEF Changed, SessionsEnd, Answers, Idle
      <3>2. QED
        BY <2>4, <3>1 DEF Changed, SessionsEnd, SameButLate
    <2>5. CASE Deleted(c)
      <3>1. \A x \in Calls : call[x].op # "reset"
        BY <2>5 DEF Deleted, SessionTypes
      <3>2. \A x \in Calls : call'[x].op # "reset"
        BY <2>5, <3>1 DEF Deleted, SessionsEnd, SameButLate, Answers, Idle
      <3>3. QED
        BY <3>2
    <2>6. CASE Mailed(c)
      BY <2>6, <1>1 DEF Mailed, Became, Answers, Idle, LinkFree
    <2>7. QED
      BY <1>3, <2>1, <2>2, <2>3, <2>4, <2>5, <2>6 DEF CommitKind
  <1>4. CASE DeviceKind
    <2>1. ASSUME NEW c \in Calls, Receives(c) PROVE LinksHeld'
      BY <2>1, <1>1 DEF Receives, Became, Idle, LogoutsSent, server
    <2>2. ASSUME NEW c \in Calls, Dropped(c) PROVE LinksHeld'
      BY <2>2, <1>1 DEF Dropped, Became, Idle, server
    <2>3. ASSUME NEW d \in Devices, Disconnects(d) PROVE LinksHeld'
      BY <2>3 DEF Disconnects, Orphaned, server
    <2>4. ASSUME NEW t \in Tokens, Lapsed(t) PROVE LinksHeld'
      BY <2>4 DEF Lapsed
    <2>5. CASE LinkGone
      BY <2>5 DEF LinkGone, NoCall
    <2>6. QED
      BY <1>4, <2>1, <2>2, <2>3, <2>4, <2>5 DEF DeviceKind
  <1>5. CASE UNCHANGED vars
    BY <1>5 DEF vars, server
  <1>6. QED
    BY <1>0, <1>2, <1>3, <1>4, <1>5 DEF Kinds

(* The passwords of the sessions.  A request that has read before a change *)
(* of the password, a reset or the deletion commits is late afterwards.    *)
LEMMA OpenedInTimeStep ==
    ASSUME SessionTypes, OpenedInTime, [Next]_vars PROVE OpenedInTime'
  <1> USE DEF OpenedInTime
  <1>0. Kinds
    BY StepKinds
  <1>1. ASSUME NEW c \in Calls, OthersKept(c), UNCHANGED <<account, password>>,
               \A t \in Tokens : Live(t)' => token'[t].password \in Continues',
               Opens(c)' /\ ~call'[c].late => call'[c].password \in Continues'
        PROVE  OpenedInTime'
    BY <1>1 DEF OthersKept, Opens, Continues
  <1>2. ASSUME UNCHANGED <<account, password, token>>
        PROVE  \A t \in Tokens : Live(t)' => token'[t].password \in Continues'
    BY <1>2 DEF Live, Continues
  <1>3. ASSUME NEW c \in Calls, RequestKind(c) PROVE OpenedInTime'
    <2>1. ASSUME NEW d \in Devices, Sends(c, d) PROVE OpenedInTime'
      BY <2>1, <1>1, <1>2 DEF Sends, Begins, Became, NewCalls, server, Opens
    <2>2. ASSUME NEW d \in Devices, SignsIn(c, d) PROVE OpenedInTime'
      <3>1. password \in Continues
        BY <2>2 DEF SignsIn, Signing, Continues
      <3>2. QED
        BY <2>2, <3>1, <1>1, <1>2 DEF SignsIn, Begins, Became, NewCalls, server, Continues
    <2>3. ASSUME NEW d \in Devices, Asks(c, d) PROVE OpenedInTime'
      BY <2>3, <1>1, <1>2 DEF Asks, Begins, Became, NewCalls, server, Opens, Signing
    <2>4. ASSUME NEW k \in Links, Resets(c, k) PROVE OpenedInTime'
      BY <2>4, <1>1, <1>2 DEF Resets, Begins, Became, NewCalls, server, Opens, Signing
    <2>5. CASE Forgets(c)
      BY <2>5, <1>1, <1>2 DEF Forgets, Begins, Became, NewCalls, server, Opens, Signing
    <2>6. CASE Advances(c)
      <3>1. UNCHANGED <<account, password, token>> /\ OthersKept(c)
        BY <2>6 DEF Advances, server, Became
      <3>2. CASE Spends(c) /\ Refreshable(call[c].arg) /\ Became(c, RefreshReads(c))
        <4>1. call[c].arg \in Tokens
          BY <3>2 DEF SessionTypes
        <4>2. token[call[c].arg].password \in Continues
          BY <3>2, <4>1 DEF Refreshable
        <4>3. QED
          BY <3>1, <3>2, <4>2, <1>1, <1>2 DEF Became, RefreshReads, Continues
      <3>3. CASE Spends(c) /\ call[c].op = "logout" /\ Became(c, LogoutReads(c))
        BY <3>1, <3>3, <1>1, <1>2 DEF Became, LogoutReads, Opens, Signing
      <3>4. CASE call[c].op \in Deleting /\ Became(c, SnapshotReads(c))
        BY <3>1, <3>4, <1>1, <1>2 DEF Became, SnapshotReads, Opens, Signing
      <3>5. QED
        BY <2>6, <3>2, <3>3, <3>4 DEF Advances
    <2>7. CASE JustAnswers(c)
      <3>1. OthersKept(c) /\ ~Opens(c)'
        BY <2>7 DEF JustAnswers, Became, Answers, Idle, Opens
      <3>2. QED
        BY <2>7, <3>1, <1>1, <1>2 DEF JustAnswers, server
    <2>8. QED
      BY <1>3, <2>1, <2>2, <2>3, <2>4, <2>5, <2>6, <2>7 DEF RequestKind
  <1>4. ASSUME NEW c \in Calls, CommitKind(c) PROVE OpenedInTime'
    <2>1. ASSUME Issuance(c), NEW u, account' = account \/ account = "none",
                 account' = "deleted" => account = "deleted", Opens(c),
                 \A t \in Tokens \ {NewToken} : token'[t] = token[t] \/ ~Live(t)'
          PROVE  OpenedInTime'
      <3>1. Continues' = Continues
        BY <2>1 DEF Issuance, Continues
      <3>2. OthersKept(c) /\ ~Opens(c)'
        BY <2>1 DEF Issuance, Became, Answers, Idle, Opens
      <3>3. \A x \in Calls : Opens(x)' /\ ~call'[x].late => call'[x].password \in Continues'
        BY <3>1, <3>2 DEF OthersKept, Opens
      <3>4. token'[NewToken].password \in Continues
        <4>1. token'[NewToken].password = IF call[c].late THEN Late ELSE call[c].password
          BY <2>1 DEF Issuance, NewTokens
        <4>2. QED
          BY <2>1, <4>1 DEF Continues
      <3>5. QED
        BY <2>1, <3>1, <3>3, <3>4 DEF Live
    <2>2. CASE SignedIn(c)
      <3>1. Opens(c)
        BY <2>2 DEF SignedIn, Opens
      <3>2. account' = account \/ account = "none"
        BY <2>2 DEF SignedIn
      <3>3. account' = "deleted" => account = "deleted"
        BY <2>2 DEF SignedIn
      <3>4. QED
        BY <2>2, <3>1, <3>2, <3>3, <2>1 DEF SignedIn
    <2>3. CASE Refreshed(c)
      <3>1. Opens(c)
        BY <2>3 DEF Refreshed, Opens
      <3>2. \A t \in Tokens \ {NewToken} : token'[t] = token[t] \/ ~Live(t)'
        BY <2>3 DEF Refreshed, Live
      <3>3. QED
        BY <2>3, <3>1, <3>2, <2>1 DEF Refreshed
    <2>4. CASE LoggedOut(c)
      <3>1. UNCHANGED <<account, password>> /\ OthersKept(c) /\ ~Opens(c)'
        BY <2>4 DEF LoggedOut, Became, Answers, Idle, Opens
      <3>2. \A t \in Tokens : Live(t)' => token'[t].password \in Continues'
        BY <2>4, <3>1 DEF LoggedOut, Buried, Live, Continues
      <3>3. QED
        BY <3>1, <3>2, <1>1
    <2>5. ASSUME SessionsEnd(c) PROVE OpenedInTime'
      <3>1. Late \in Continues'
        BY DEF Continues
      <3>2. \A t \in Tokens : Live(t)' => token'[t].password \in Continues'
        BY <2>5, <3>1 DEF SessionsEnd, Doomed, Live
      <3>3. ASSUME NEW x \in Calls, Opens(x)' PROVE call'[x].late
        <4>1. x # c
          BY <2>5, <3>3 DEF SessionsEnd, Answers, Idle, Opens
        <4>2. call[x].pc = "read" /\ call'[x].late = (call[x].late \/ call[x].pc = "read")
          BY <2>5, <3>3, <4>1 DEF SessionsEnd, SameButLate, Opens
        <4>3. QED
          BY <4>2
      <3>4. QED
        BY <3>2, <3>3
    <2>6. CASE Mailed(c)
      <3>1. UNCHANGED <<account, password, token>> /\ OthersKept(c) /\ ~Opens(c)'
        BY <2>6 DEF Mailed, Became, Answers, Idle, Opens
      <3>2. QED
        BY <3>1, <1>1, <1>2
    <2>7. QED
      BY <1>4, <2>2, <2>3, <2>4, <2>5, <2>6 DEF CommitKind, Changed, Deleted
  <1>5. CASE DeviceKind
    <2>1. ASSUME NEW c \in Calls, Receives(c) PROVE OpenedInTime'
      <3>1. UNCHANGED <<account, password>> /\ OthersKept(c) /\ ~Opens(c)'
        BY <2>1 DEF Receives, Became, Idle, LogoutsSent, Opens, Signing
      <3>2. \A t \in Tokens : Live(t)' => Live(t) /\ token'[t].password = token[t].password
        BY <2>1 DEF Receives, Overwrites, Live
      <3>3. QED
        BY <3>1, <3>2, <1>2 DEF OthersKept, Opens, Continues
    <2>2. ASSUME NEW c \in Calls, Dropped(c) PROVE OpenedInTime'
      <3>1. UNCHANGED <<account, password, token>> /\ OthersKept(c) /\ ~Opens(c)'
        BY <2>2 DEF Dropped, Became, Idle, server, Opens, Signing
      <3>2. QED
        BY <3>1, <1>1, <1>2
    <2>3. ASSUME NEW d \in Devices, Disconnects(d) PROVE OpenedInTime'
      BY <2>3, <1>2 DEF Disconnects, Orphaned, server, Opens, Continues
    <2>4. ASSUME NEW t \in Tokens, Lapsed(t) PROVE OpenedInTime'
      BY <2>4 DEF Lapsed, Buried, Live, Opens, Continues
    <2>5. CASE LinkGone
      BY <2>5 DEF LinkGone, Live, Opens, Continues
    <2>6. QED
      BY <1>5, <2>1, <2>2, <2>3, <2>4, <2>5 DEF DeviceKind
  <1>6. CASE UNCHANGED vars
    BY <1>6 DEF vars, server, Live, Opens, Continues
  <1>7. QED
    BY <1>0, <1>3, <1>4, <1>5, <1>6 DEF Kinds
-------------------------------------------------------------------------------
(* What a step may do to a token, a request and a device's storage.        *)
Issuing(c) == SignedIn(c) \/ Refreshed(c)
TokenHistory ==
    \A t \in Tokens :
        /\ t \in Issued => t \in Issued'
        /\ t \in Issued /\ Live(t)' => Live(t) /\ token'[t].to \in {token[t].to, Nobody}
        /\ t \in Issued' \ Issued =>
             \E c \in Calls : Issuing(c) /\ t = NewToken /\ token'[t] \in NewTokens(c)
        /\ token'[t].state = "revoked" /\ token[t].state # "revoked" =>
             \E c \in Calls : call[c].arg = t /\ (Refreshed(c) \/ LoggedOut(c))

(* The token issued next is none of those issued so far, and the next      *)
(* number.                                                                 *)
LEMMA FreshToken ==
    ASSUME SessionTypes, TokensInOrder, NewToken \in Tokens
    PROVE  /\ NewToken \notin Issued /\ NewToken \in 1..MaxTokens
           /\ Issued \cup {NewToken} = 1..NewToken
  <1>1. PICK n \in 0..MaxTokens : Issued = 1..n
    BY DEF TokensInOrder
  <1>2. Cardinality(Issued) = n
    BY <1>1, FS_Interval, SessionsAssumption
  <1>3. NewToken = n + 1
    BY <1>2 DEF NewToken, Issued
  <1>4. QED
    BY <1>1, <1>3, SessionsAssumption DEF Tokens

(* What a step may do to a token that has been issued: each case of        *)
(* Kinds in turn.                                                          *)
LEMMA TokenSteps ==
    ASSUME SessionTypes, TokensInOrder, CarriedIsIssued, Kinds
    PROVE  TokenHistory /\ TokensInOrder'
  <1> USE DEF SessionTypes
  <1>1. ASSUME UNCHANGED token PROVE TokenHistory /\ TokensInOrder'
    BY <1>1 DEF TokenHistory, TokensInOrder, Issued, Live
  <1>2. ASSUME NEW t \in Issued, NEW state \in {"revoked", "lapsed"}, Buried(t, state), 
               state = "revoked" => \E c \in Calls : call[c].arg = t /\ LoggedOut(c)
        PROVE TokenHistory /\ TokensInOrder'
    <2>1. t \in Tokens
      BY DEF Issued
    <2>2. Issued' = Issued
      BY <1>2, <2>1 DEF Buried, Issued
    <2>3. TokenHistory
      BY <1>2, <2>1, <2>2 DEF TokenHistory, Buried, Live
    <2>4. QED
      BY <2>2, <2>3 DEF TokensInOrder
  <1>3. ASSUME NEW c \in Calls, SessionsEnd(c) PROVE TokenHistory /\ TokensInOrder'
    <2>1. call[c].saw \subseteq Issued
      BY <1>3 DEF CarriedIsIssued, SessionsEnd
    <2>2. Issued' = Issued
      BY <1>3, <2>1 DEF SessionsEnd, Doomed, Issued
    <2>3. TokenHistory
      BY <1>3, <2>1, <2>2 DEF TokenHistory, SessionsEnd, Doomed, Live
    <2>4. QED
      BY <2>2, <2>3 DEF TokensInOrder
  <1>4. ASSUME NEW c \in Calls, Issuing(c) PROVE TokenHistory /\ TokensInOrder'
    <2>1. NewToken \in Tokens /\ token'[NewToken] \in NewTokens(c)
      BY <1>4 DEF Issuing, SignedIn, Refreshed, Issuance
    <2>2. /\ NewToken \notin Issued /\ NewToken \in 1..MaxTokens
          /\ Issued \cup {NewToken} = 1..NewToken
      BY <2>1, FreshToken
    <2>3. CASE SignedIn(c)
      <3>1. Issued' = Issued \cup {NewToken}
        BY <2>1, <2>3 DEF SignedIn, Issued, NewTokens
      <3>2. TokenHistory
        BY <1>4, <2>1, <2>2, <2>3, <3>1 DEF TokenHistory, SignedIn, Live, NewTokens
      <3>3. QED
        BY <2>2, <3>1, <3>2 DEF TokensInOrder
    <2>4. CASE Refreshed(c)
      <3>1. call[c].arg \in Issued /\ call[c].arg # NewToken
        BY <2>2, <2>4 DEF Refreshed, CarriedIsIssued
      <3>2. Issued' = Issued \cup {NewToken}
        BY <2>1, <2>4, <3>1 DEF Refreshed, Issued, NewTokens
      <3>3. TokenHistory
        BY <1>4, <2>1, <2>2, <2>4, <3>1, <3>2 DEF TokenHistory, Refreshed, Live, NewTokens
      <3>4. QED
        BY <2>2, <3>2, <3>3 DEF TokensInOrder
    <2>5. QED
      BY <1>4, <2>3, <2>4 DEF Issuing
  <1>5. ASSUME NEW c \in Calls, LoggedOut(c) PROVE TokenHistory /\ TokensInOrder'
    BY <1>5, <1>2 DEF LoggedOut, CarriedIsIssued
  <1>6. ASSUME NEW t \in Tokens, Lapsed(t) PROVE TokenHistory /\ TokensInOrder'
    BY <1>6, <1>2 DEF Lapsed, Live, Issued
  <1>7. ASSUME NEW c \in Calls, RequestKind(c) PROVE UNCHANGED token
    BY <1>7 DEF RequestKind, Sends, SignsIn, Asks, Resets, Forgets, Begins, Advances,
                JustAnswers, server
  <1>8. ASSUME NEW c \in Calls, CommitKind(c) PROVE TokenHistory /\ TokensInOrder'
    BY <1>8, <1>1, <1>3, <1>4, <1>5 DEF CommitKind, Issuing, Changed, Deleted, Mailed
  <1>9. CASE DeviceKind
    <2>1. ASSUME NEW c \in Calls, Receives(c) PROVE TokenHistory /\ TokensInOrder'
      <3>1. Overwrites(c)
        BY <2>1 DEF Receives
      <3>2. Issued' = Issued
        BY <3>1 DEF Overwrites, Issued
      <3>3. TokenHistory
        BY <3>1, <3>2 DEF Overwrites, TokenHistory, Live
      <3>4. QED
        BY <3>2, <3>3 DEF TokensInOrder
    <2>2. QED
      BY <1>9, <2>1, <1>1, <1>6 DEF DeviceKind, Dropped, Disconnects, LinkGone, server
  <1>10. CASE UNCHANGED vars
    BY <1>10, <1>1 DEF vars, server
  <1>11. QED
    BY <1>1, <1>7, <1>8, <1>9, <1>10 DEF Kinds

(* A request that is going to spend a token was, or has just been sent with*)
(* the one its device keeps; the token of an answer is new; a deletion sees*)
(* what is issued; an answer stays until its device takes it.              *)
SpendHistory(x) ==
    Spends(x)' =>
        \/ /\ Spends(x) /\ call'[x].arg = call[x].arg /\ call'[x].op = call[x].op
           /\ call'[x].from = call[x].from
              \/ (call'[x].from = Nobody /\ call[x].from \in excused')
        \/ \E d \in Devices :
            /\ store[d] # 0 /\ call'[x].arg = store[d] /\ call'[x].from = d
            /\ store' = store
OutHistory(x) ==
    call'[x].out # 0 => \/ call'[x].out = call[x].out
                        \/ Issuing(x) /\ call'[x].out = NewToken
SawHistory(x) ==
    call'[x].pc = "deleting" => \/ call[x].pc = "deleting" /\ call'[x].saw = call[x].saw
                                \/ call'[x].saw = Issued /\ token' = token
AnswerHistory(x) ==
    /\ call[x].op \in {"refresh", "logout"} \cup Signing /\ call[x].pc = "answered"
    /\ call[x].from \in Devices \ excused'
    => \/ /\ call'[x].op = call[x].op /\ call'[x].pc = call[x].pc
          /\ call'[x].from = call[x].from /\ call'[x].out = call[x].out
          /\ call'[x].ok = call[x].ok
       \/ Receives(x)
CallHistory ==
    \A x \in Calls : SpendHistory(x) /\ OutHistory(x) /\ SawHistory(x) /\ AnswerHistory(x)

(* What a step may do to what a call spends, brings, has read and          *)
(* answers.                                                                *)
LEMMA CallSteps ==
    ASSUME SessionTypes, Kinds PROVE CallHistory
  <1> DEFINE H(x) == SpendHistory(x) /\ OutHistory(x) /\ SawHistory(x) /\ AnswerHistory(x)
  <1>1. ASSUME NEW x \in Calls, call'[x] = call[x] PROVE H(x)
    BY <1>1 DEF Spends, SpendHistory, OutHistory, SawHistory, AnswerHistory, Signing
  <1>2. ASSUME NEW c \in Calls, OthersKept(c), H(c) PROVE CallHistory
    <2>1. ASSUME NEW x \in Calls PROVE H(x)
      <3>1. CASE x = c
        BY <1>2, <3>1
      <3>2. CASE x # c
        BY <1>1, <1>2, <3>2 DEF OthersKept
      <3>3. QED
        BY <3>1, <3>2
    <2>2. QED
      BY <2>1 DEF CallHistory
  <1>3. ASSUME NEW c \in Calls, call[c] = NoCall,
               NEW op, NEW d, NEW pc, NEW arg, NEW saw,
               call'[c] \in NewCalls(op, d, pc, arg, saw), pc \in {"sent", "read"},
               op \in {"refresh", "logout"} => d \in Devices /\ store[d] # 0 /\ arg = store[d],
               store' = store
        PROVE  H(c)
    <2>1. /\ call'[c].op = op /\ call'[c].from = d /\ call'[c].pc = pc
          /\ call'[c].arg = arg /\ call'[c].out = 0
      BY <1>3 DEF NewCalls
    <2>2. SpendHistory(c)
      BY <1>3, <2>1 DEF Spends, SpendHistory
    <2>3. OutHistory(c) /\ SawHistory(c)
      BY <1>3, <2>1 DEF OutHistory, SawHistory
    <2>4. AnswerHistory(c)
      BY <1>3 DEF NoCall, AnswerHistory, Signing
    <2>5. QED
      BY <2>2, <2>3, <2>4
  <1>4. ASSUME NEW c \in Calls, RequestKind(c) PROVE CallHistory
    <2>1. ASSUME NEW d \in Devices, Sends(c, d) PROVE CallHistory
      BY <2>1, <1>2, <1>3 DEF Sends, Begins, Became
    <2>2. ASSUME NEW d \in Devices, SignsIn(c, d) \/ Asks(c, d) PROVE CallHistory
      BY <2>2, <1>2, <1>3 DEF SignsIn, Asks, Begins, Became, Signing
    <2>3. ASSUME NEW k \in Links, Resets(c, k) PROVE CallHistory
      BY <2>3, <1>2, <1>3 DEF Resets, Begins, Became
    <2>4. CASE Forgets(c)
      BY <2>4, <1>2, <1>3 DEF Forgets, Begins, Became
    <2>5. CASE Advances(c)
      <3>1. OthersKept(c) /\ UNCHANGED <<token, store>>
        BY <2>5 DEF Advances, Became, server
      <3>2. H(c)
        BY <2>5, <3>1 DEF Advances, Became, RefreshReads, LogoutReads, SnapshotReads, Deleting,
                     Spends, SpendHistory, OutHistory, SawHistory, AnswerHistory, Signing
      <3>3. QED
        BY <3>1, <3>2, <1>2
    <2>6. CASE JustAnswers(c)
      <3>1. OthersKept(c)
        BY <2>6 DEF JustAnswers, Became
      <3>2. H(c)
        BY <2>6 DEF JustAnswers, Became, Answers, Idle, Spends, SpendHistory, OutHistory,
                    SawHistory, AnswerHistory, Signing
      <3>3. QED
        BY <3>1, <3>2, <1>2
    <2>7. QED
      BY <1>4, <2>1, <2>2, <2>3, <2>4, <2>5, <2>6 DEF RequestKind
  <1>5. ASSUME NEW c \in Calls, CommitKind(c) PROVE CallHistory
    <2>1. CASE Issuing(c)
      <3>1. Became(c, Answers(c, NewToken, TRUE))
        BY <2>1 DEF Issuing, SignedIn, Refreshed, Issuance
      <3>2. call[c].pc = "read"
        BY <2>1 DEF Issuing, SignedIn, Refreshed
      <3>3. H(c)
        BY <2>1, <3>1, <3>2 DEF Became, Answers, Idle, Spends, SpendHistory, OutHistory,
                    SawHistory, AnswerHistory, Signing
      <3>4. QED
        BY <3>1, <3>3, <1>2 DEF Became
    <2>2. CASE LoggedOut(c)
      <3>1. H(c)
        BY <2>2 DEF LoggedOut, Became, Answers, Idle, Spends, SpendHistory, OutHistory,
                    SawHistory, AnswerHistory, Signing
      <3>2. QED
        BY <2>2, <3>1, <1>2 DEF LoggedOut, Became
    <2>3. CASE SessionsEnd(c)
      <3>1. H(c)
        BY <2>3 DEF SessionsEnd, Answers, Idle, Spends, SpendHistory, OutHistory, SawHistory,
                    AnswerHistory, Signing
      <3>2. ASSUME NEW x \in Calls \ {c} PROVE H(x)
        BY <2>3, <3>2 DEF SessionsEnd, SameButLate, Spends, SpendHistory, OutHistory,
                    SawHistory, AnswerHistory, Signing
      <3>3. QED
        BY <3>1, <3>2 DEF CallHistory
    <2>4. CASE Mailed(c)
      <3>1. H(c)
        BY <2>4 DEF Mailed, Became, Answers, Idle, Spends, SpendHistory, OutHistory,
                    SawHistory, AnswerHistory, Signing
      <3>2. QED
        BY <2>4, <3>1, <1>2 DEF Mailed, Became
    <2>5. QED
      BY <1>5, <2>1, <2>2, <2>3, <2>4 DEF CommitKind, Issuing, Changed, Deleted
  <1>6. CASE DeviceKind
    <2>1. ASSUME NEW c \in Calls, Receives(c) PROVE CallHistory
      <3>0. OthersKept(c)
        BY <2>1 DEF Receives, Became
      <3>1. CASE Became(c, Idle)
        <4>1. H(c)
          BY <2>1, <3>1 DEF Became, Idle, Spends, SpendHistory, OutHistory,
                    SawHistory, AnswerHistory, Signing
        <4>2. QED
          BY <3>0, <4>1, <1>2
      <3>2. CASE /\ call[c].op \in Deleting /\ store[call[c].from] # 0
                 /\ Became(c, LogoutsSent(call[c].from))
        <4>1. KeptAfter(c) = store[call[c].from]
          BY <3>2 DEF KeptAfter, Signing, Deleting
        <4>2. store' = store
          BY <2>1, <4>1 DEF Receives, SessionTypes
        <4>3. H(c)
          BY <2>1, <3>2, <4>2 DEF Became, LogoutsSent, Spends, SpendHistory, OutHistory,
                    SawHistory, AnswerHistory, Signing, Receives
        <4>4. QED
          BY <3>0, <4>3, <1>2
      <3>3. QED
        BY <2>1, <3>1, <3>2 DEF Receives
    <2>2. ASSUME NEW c \in Calls, Dropped(c) PROVE CallHistory
      <3>1. H(c)
        BY <2>2, SessionsAssumption DEF Dropped, Became, Idle, Spends, SpendHistory, OutHistory,
                    SawHistory, AnswerHistory, Signing, Nobody
      <3>2. QED
        BY <2>2, <3>1, <1>2 DEF Dropped, Became
    <2>3. ASSUME NEW d \in Devices, Disconnects(d) PROVE CallHistory
      <3>1. ASSUME NEW x \in Calls PROVE H(x)
        <4>1. CASE call'[x] = call[x]
          BY <4>1, <1>1
        <4>2. CASE Orphaned(x) /\ call[x].from = d
          BY <2>3, <4>2 DEF Disconnects, Orphaned, Spends, SpendHistory, OutHistory,
                    SawHistory, AnswerHistory, Signing
        <4>3. QED
          BY <2>3, <4>1, <4>2 DEF Disconnects
      <3>2. QED
        BY <3>1 DEF CallHistory
    <2>4. ASSUME call' = call PROVE CallHistory
      BY <2>4, <1>1 DEF CallHistory
    <2>5. QED
      BY <1>6, <2>1, <2>2, <2>3, <2>4 DEF DeviceKind, Lapsed, LinkGone
  <1>7. CASE UNCHANGED vars
    BY <1>7, <1>1 DEF vars, CallHistory
  <1>8. QED
    BY <1>4, <1>5, <1>6, <1>7 DEF Kinds

(* A device keeps its token, loses it or takes one from an answer.         *)
StoreHistory ==
    \A d \in Devices :
        \/ store'[d] = store[d]
        \/ store'[d] = 0
        \/ \E c \in Calls : /\ Receives(c) /\ call[c].from = d
                            /\ call[c].out = store'[d] /\ call'[c].out = 0

(* Each case of Kinds in turn.                                             *)
LEMMA StoreSteps ==
    ASSUME SessionTypes, Kinds PROVE StoreHistory
  <1> USE DEF SessionTypes
  <1>1. ASSUME NEW c \in Calls, Receives(c) PROVE StoreHistory
    <2>1. call'[c].out = 0
      BY <1>1 DEF Receives, Became, Idle, LogoutsSent
    <2>2. KeptAfter(c) \in {0, store[call[c].from], call[c].out}
      BY DEF KeptAfter
    <2>3. QED
      BY <1>1, <2>1, <2>2 DEF Receives, StoreHistory
  <1>2. ASSUME NEW d \in Devices, Disconnects(d) PROVE StoreHistory
    BY <1>2 DEF Disconnects, StoreHistory
  <1>3. ASSUME store' = store PROVE StoreHistory
    BY <1>3 DEF StoreHistory
  <1>4. ASSUME NEW c \in Calls, RequestKind(c) \/ CommitKind(c) PROVE store' = store
    BY <1>4 DEF RequestKind, Sends, SignsIn, Asks, Resets, Forgets, Begins, Advances, JustAnswers,
                CommitKind, SignedIn, Refreshed, Issuance, LoggedOut, Changed, Deleted,
                SessionsEnd, Mailed
  <1>5. QED
    BY <1>1, <1>2, <1>3, <1>4 DEF Kinds, DeviceKind, Dropped, Lapsed, LinkGone, vars
(* Nobody is excused for less than for ever.                               *)
LEMMA ExcusedGrows ==
    ASSUME Kinds PROVE excused \subseteq excused'
  <1>1. ASSUME NEW c \in Calls, NEW d \in Devices, Sends(c, d) \/ SignsIn(c, d) \/ Asks(c, d)
        PROVE  excused \subseteq excused'
    BY <1>1 DEF Sends, SignsIn, Asks, ExcusedIf
  <1>2. QED
    BY <1>1 DEF Kinds, RequestKind, Resets, Forgets, Advances, JustAnswers,
         CommitKind, SignedIn, Refreshed, Issuance, LoggedOut, Changed, Deleted, SessionsEnd,
         Mailed, DeviceKind, Receives, Dropped, Disconnects, Lapsed, LinkGone, vars

(* What an issue of a token gives.                                         *)
LEMMA IssueIs ==
    ASSUME NEW c \in Calls, Issuing(c)
    PROVE  /\ NewToken \in Tokens /\ NewToken \in Issued' /\ token'[NewToken].state = "live"
           /\ call[c].pc = "read" /\ call'[c].pc = "answered" /\ OthersKept(c)
           /\ call'[c].op # "idle" => call'[c].out = NewToken
  BY DEF Issuing, SignedIn, Refreshed, Issuance, NewTokens, Issued, Live, Became, Answers, Idle

-------------------------------------------------------------------------------
(* Where the tokens are.                                                   *)
Moves == TokenHistory /\ CallHistory /\ StoreHistory /\ excused \subseteq excused'

(* A token that a call carries or a device stores stays one that was       *)
(* issued.                                                                 *)
LEMMA CarriedStep ==
    ASSUME SessionTypes, SessionTypes', TokensInOrder, CarriedIsIssued, OnePlace, Moves
    PROVE  CarriedIsIssued'
  <1>1. \A t \in Tokens : t \in Issued => t \in Issued'
    BY DEF Moves, TokenHistory
  <1>2. Issued \subseteq Issued'
    BY <1>1 DEF Issued
  <1>3. ASSUME NEW d \in Devices, store'[d] # 0 PROVE store'[d] \in Issued'
    BY <1>2, <1>3 DEF Moves, StoreHistory, CarriedIsIssued
  <1>4. ASSUME NEW c \in Calls, Spends(c)' PROVE call'[c].arg \in Issued'
    BY <1>2, <1>4 DEF Moves, CallHistory, SpendHistory, CarriedIsIssued
  <1>5. ASSUME NEW c \in Calls, call'[c].pc = "deleting" PROVE call'[c].saw \subseteq Issued'
    BY <1>2, <1>5 DEF Moves, CallHistory, SawHistory, CarriedIsIssued
  <1>6. ASSUME NEW c \in Calls, call'[c].out # 0
        PROVE  call'[c].out \in Issued' /\ token'[call'[c].out].state # "revoked"
    <2>1. CASE call'[c].out = call[c].out
      <3>1. /\ call[c].out \in Issued /\ token[call[c].out].state # "revoked"
            /\ call[c].out \in Tokens
        BY <1>6, <2>1 DEF CarriedIsIssued, Issued
      <3>2. ASSUME NEW x \in Calls, Refreshed(x) \/ LoggedOut(x) PROVE call[x].arg # call[c].out
        BY <1>6, <2>1, <3>2 DEF Refreshed, LoggedOut, OnePlace
      <3>3. token'[call[c].out].state # "revoked"
        BY <3>1, <3>2 DEF Moves, TokenHistory
      <3>4. QED
        BY <1>2, <2>1, <3>1, <3>3
    <2>2. CASE Issuing(c) /\ call'[c].out = NewToken
      BY <2>2, IssueIs
    <2>3. QED
      BY <1>6, <2>1, <2>2 DEF Moves, CallHistory, OutHistory
  <1>7. QED
    BY <1>3, <1>4, <1>5, <1>6 DEF CarriedIsIssued

(* Every step keeps a token in one place: with one device, or on the       *)
(* way to it.                                                              *)
LEMMA OnePlaceStep ==
    ASSUME SessionTypes, SessionTypes', TokensInOrder, CarriedIsIssued, OnePlace, Moves
    PROVE  OnePlace'
  <1>0. NewToken \in Tokens => NewToken \notin Issued
    BY FreshToken
  <1>1. ASSUME NEW d \in Devices, NEW e \in Devices, store'[d] = store'[e], store'[d] # 0
        PROVE  d = e
    <2>1. store'[d] = store[d]
          \/ \E c \in Calls : call[c].from = d /\ call[c].out = store'[d]
      BY <1>1 DEF Moves, StoreHistory
    <2>2. store'[e] = store[e]
          \/ \E c \in Calls : call[c].from = e /\ call[c].out = store'[e]
      BY <1>1 DEF Moves, StoreHistory
    <2>3. QED
      BY <1>1, <2>1, <2>2 DEF OnePlace
  <1>2. ASSUME NEW c \in Calls, call'[c].out # 0
        PROVE  /\ \A d \in Devices : store'[d] # call'[c].out
               /\ \A x \in Calls : Spends(x)' => call'[x].arg # call'[c].out
               /\ \A x \in Calls : call'[x].out = call'[c].out => x = c
    <2>1. CASE call'[c].out = call[c].out
      <3>1. \A d \in Devices : store'[d] # call'[c].out
        BY <1>2, <2>1 DEF Moves, StoreHistory, OnePlace
      <3>2. \A x \in Calls : Spends(x)' => call'[x].arg # call'[c].out
        BY <1>2, <2>1 DEF Moves, CallHistory, SpendHistory, OnePlace
      <3>3. call[c].out \in Issued
        BY <1>2, <2>1 DEF CarriedIsIssued
      <3>4. \A x \in Calls : call'[x].out = call'[c].out => x = c
        BY <1>0, <1>2, <2>1, <3>3, IssueIs DEF Moves, CallHistory, OutHistory, OnePlace
      <3>5. QED
        BY <3>1, <3>2, <3>4
    <2>2. CASE Issuing(c) /\ call'[c].out = NewToken
      <3>1. NewToken \in Tokens /\ NewToken \notin Issued
        BY <1>0, <2>2, IssueIs
      <3>2. \A d \in Devices : store'[d] # NewToken
        BY <1>2, <2>2, <3>1 DEF Moves, StoreHistory, CarriedIsIssued
      <3>3. \A x \in Calls : Spends(x)' => call'[x].arg # NewToken
        BY <3>1 DEF Moves, CallHistory, SpendHistory, CarriedIsIssued
      <3>4. ASSUME NEW x \in Calls, call'[x].out = NewToken PROVE x = c
        <4>1. Issuing(x)
          BY <1>2, <2>2, <3>1, <3>4 DEF Moves, CallHistory, OutHistory, CarriedIsIssued
        <4>2. QED
          BY <2>2, <4>1, IssueIs DEF OthersKept
      <3>5. QED
        BY <2>2, <3>2, <3>3, <3>4
    <2>3. QED
      BY <1>2, <2>1, <2>2 DEF Moves, CallHistory, OutHistory
  <1>3. ASSUME NEW d \in Devices \ excused', NEW c \in Calls, Spends(c)', call'[c].arg = store'[d]
        PROVE  call'[c].from = d
    <2>0. d \in Devices \ excused /\ call'[c].arg \in Tokens /\ store'[d] # 0
      BY <1>3, SessionsAssumption DEF Moves, SessionTypes, Tokens
    <2>1. CASE /\ Spends(c) /\ call'[c].arg = call[c].arg
               /\ call'[c].from = call[c].from
                  \/ (call'[c].from = Nobody /\ call[c].from \in excused')
      <3>1. store'[d] = store[d]
        <4>1. \A x \in Calls : call[x].out # store'[d]
          BY <1>3, <2>0, <2>1 DEF OnePlace
        <4>2. QED
          BY <2>0, <4>1 DEF Moves, StoreHistory
      <3>2. call[c].from = d
        BY <1>3, <2>0, <2>1, <3>1 DEF OnePlace
      <3>3. QED
        BY <1>3, <2>1, <3>2
    <2>2. CASE \E e \in Devices : /\ store[e] # 0 /\ call'[c].arg = store[e]
                                  /\ call'[c].from = e /\ store' = store
      BY <1>3, <2>0, <2>2 DEF OnePlace
    <2>3. QED
      BY <1>3, <2>1, <2>2 DEF Moves, CallHistory, SpendHistory
  <1>4. QED
    BY <1>1, <1>2, <1>3 DEF OnePlace

(* What spent the token a device keeps stays an answer on the way to       *)
(* it.                                                                     *)
LEMMA SpentStep ==
    ASSUME SessionTypes, SessionTypes', CarriedIsIssued, OnePlace, SpentIsKnown, Moves
    PROVE  SpentIsKnown'
  <1> SUFFICES ASSUME NEW d \in Devices \ excused', store'[d] # 0,
                      token'[store'[d]].state = "revoked"
               PROVE  \E c \in Waits(d)' : call'[c].op \in {"refresh", "logout"}
                                           /\ call'[c].pc = "answered"
    BY DEF SpentIsKnown
  <1>0. d \in Devices \ excused /\ d # Nobody /\ store'[d] \in Tokens
    BY SessionsAssumption DEF Moves, Nobody, SessionTypes, Tokens
  <1>1. ASSUME NEW c \in Calls, call'[c].op \in {"refresh", "logout"}, call'[c].pc = "answered",
               call'[c].from = d
        PROVE  \E x \in Waits(d)' : call'[x].op \in {"refresh", "logout"}
                                    /\ call'[x].pc = "answered"
    BY <1>1 DEF Waits
  <1>2. CASE store'[d] = store[d]
    <2>1. CASE token[store[d]].state = "revoked"
      <3>1. PICK c \in Waits(d) : call[c].op \in {"refresh", "logout"} /\ call[c].pc = "answered"
        BY <1>0, <1>2, <2>1 DEF SpentIsKnown
      <3>2. c \in Calls /\ call[c].from = d
        BY <3>1 DEF Waits
      <3>3. ~Receives(c)
        <4>1. KeptAfter(c) \in {0, call[c].out}
          BY <3>1 DEF KeptAfter, Signing
        <4>2. Receives(c) => store'[d] \in {0, call[c].out}
          BY <3>2, <4>1 DEF Receives, SessionTypes
        <4>3. QED
          BY <1>0, <1>2, <3>2, <4>2 DEF OnePlace
      <3>4. QED
        BY <1>1, <3>1, <3>2, <3>3 DEF Moves, CallHistory, AnswerHistory
    <2>2. CASE token[store[d]].state # "revoked"
      <3>1. PICK c \in Calls : call[c].arg = store[d] /\ (Refreshed(c) \/ LoggedOut(c))
        BY <1>0, <1>2, <2>2 DEF Moves, TokenHistory
      <3>2. Spends(c) /\ call[c].op \in {"refresh", "logout"}
            /\ \E out \in {0, NewToken} : call'[c] \in Answers(c, out, TRUE)
        BY <3>1 DEF Refreshed, LoggedOut, Issuance, Became
      <3>3. call[c].from = d
        BY <1>0, <3>1, <3>2 DEF OnePlace
      <3>4. call'[c].op = call[c].op /\ call'[c].from = d /\ call'[c].pc = "answered"
        BY <1>0, <3>2, <3>3 DEF Answers
      <3>5. QED
        BY <1>1, <3>2, <3>4
    <2>3. QED
      BY <2>1, <2>2
  <1>3. ASSUME NEW c \in Calls, call[c].out = store'[d] PROVE FALSE
    <2>1. token[store'[d]].state # "revoked"
      BY <1>0, <1>3 DEF CarriedIsIssued
    <2>2. PICK x \in Calls : call[x].arg = store'[d] /\ (Refreshed(x) \/ LoggedOut(x))
      BY <1>0, <2>1 DEF Moves, TokenHistory
    <2>3. QED
      BY <1>0, <1>3, <2>2 DEF Refreshed, LoggedOut, OnePlace
  <1>4. QED
    BY <1>2, <1>3 DEF Moves, StoreHistory

(* The three parts together: every step keeps who owns which token.        *)
LEMMA OwnershipStep ==
    ASSUME SessionTypes, Ownership, [Next]_vars PROVE Ownership' /\ Moves
  <1>1. Kinds /\ SessionTypes'
    BY StepKinds, TypesStep
  <1>2. Moves /\ TokensInOrder'
    BY <1>1, TokenSteps, CallSteps, StoreSteps, ExcusedGrows DEF Ownership, Moves
  <1>3. QED
    BY <1>1, <1>2, CarriedStep, OnePlaceStep, SpentStep DEF Ownership
-------------------------------------------------------------------------------
(* What a device waits for.                                                *)

(* Before there is an account nothing but a registration goes on.          *)
LEMMA NothingYetStep ==
    ASSUME SessionTypes, NothingYet, CarriedIsIssued, Kinds PROVE NothingYet'
  <1> SUFFICES ASSUME account' = "none"
               PROVE  Issued' = {} /\ \A c \in Calls : call'[c].op \in {"idle", "register"}
    BY DEF NothingYet
  <1>1. ASSUME account = "none"
        PROVE  /\ Issued = {} /\ \A c \in Calls : call[c].op \in {"idle", "register"}
               /\ \A d \in Devices : store[d] = 0
    BY <1>1 DEF NothingYet, CarriedIsIssued
  <1>2. ASSUME account = "none", UNCHANGED token, NEW c \in Calls, OthersKept(c),
               call'[c].op \in {"idle", "register"}
        PROVE  Issued' = {} /\ \A x \in Calls : call'[x].op \in {"idle", "register"}
    BY <1>1, <1>2 DEF OthersKept, Issued
  <1>3. ASSUME NEW c \in Calls, RequestKind(c)
        PROVE  Issued' = {} /\ \A x \in Calls : call'[x].op \in {"idle", "register"}
    <2>1. account = "none" /\ UNCHANGED token /\ OthersKept(c)
      BY <1>3 DEF RequestKind, Sends, SignsIn, Asks, Resets, Forgets, Begins, Advances,
                  JustAnswers, server, Became
    <2>2. call'[c].op \in {"idle", "register"}
      BY <1>1, <1>3, <2>1 DEF RequestKind, Sends, SignsIn, Asks, Resets, Forgets, Begins,
           Advances, JustAnswers, Became, NewCalls, RefreshReads, LogoutReads, SnapshotReads,
           Answers, Idle, Signing, Deleting
    <2>3. QED
      BY <2>1, <2>2, <1>2
  <1>4. ASSUME NEW c \in Calls, CommitKind(c) PROVE FALSE
    <2>1. account = "none"
      BY <1>4 DEF CommitKind, SignedIn, Refreshed, LoggedOut, Changed, Deleted, Mailed
    <2>2. call[c].op \in {"idle", "register"}
      BY <1>1, <2>1
    <2>3. QED
      BY <1>4, <2>2 DEF CommitKind, SignedIn, Refreshed, LoggedOut, Changed, Deleted, Mailed, Signing
  <1>5. CASE DeviceKind
    <2>1. /\ account = "none"
          /\ \/ token' = token \/ \E t \in Tokens : Lapsed(t)
             \/ \E c \in Calls : Overwrites(c)
      BY <1>5 DEF DeviceKind, Receives, Dropped, Disconnects, Lapsed, LinkGone, server
    <2>2. \A t \in Tokens : token'[t].state = token[t].state
      BY <1>1, <2>1 DEF Lapsed, Live, Issued, Overwrites
    <2>3. Issued' = {}
      BY <1>1, <2>1, <2>2 DEF Issued
    <2>4. ASSUME NEW x \in Calls PROVE call'[x].op \in {"idle", "register"}
      BY <1>1, <1>5, <2>1 DEF DeviceKind, Receives, Dropped, Disconnects, Orphaned, Lapsed,
           LinkGone, Became, OthersKept, Idle, LogoutsSent
    <2>5. QED
      BY <2>3, <2>4
  <1>6. CASE UNCHANGED vars
    BY <1>1, <1>6 DEF vars, server, Issued
  <1>7. QED
    BY <1>3, <1>4, <1>5, <1>6 DEF Kinds

(* Whatever a device waits for it has waited for before, has just asked for*)
(* or is the logout that follows on a change.                              *)
RoleHistory ==
    \A x \in Calls, d \in Devices :
        call'[x].op # "idle" /\ call'[x].from = d =>
        \/ call[x].from = d /\ call'[x].op = call[x].op
        \/ /\ call[x].op = "idle" /\ OthersKept(x) /\ store' = store
           /\ \/ Sends(x, d) /\ call'[x].op \in {"refresh", "logout"}
              \/ SignsIn(x, d) /\ call'[x].op \in Signing
              \/ Asks(x, d) /\ call'[x].op \in {"change", "delete"}
        \/ /\ Receives(x) /\ call[x].from = d /\ call[x].op \in Deleting
           /\ call'[x].op = "logout" /\ OthersKept(x) /\ store' = store

(* A call that begins was idle, and is what its beginning says.            *)
LEMMA NewIs ==
    ASSUME NEW x, NEW op, NEW d, NEW pc, NEW arg, NEW saw,
           Begins(x, NewCalls(op, d, pc, arg, saw))
    PROVE  /\ call[x].op = "idle" /\ OthersKept(x) /\ store' = store
           /\ call'[x].op = op /\ call'[x].from = d
  <1>1. UNCHANGED <<server, store>> /\ call[x] = NoCall /\ OthersKept(x)
    BY DEF Begins, Became
  <1>2. call'[x] \in NewCalls(op, d, pc, arg, saw)
    BY DEF Begins, Became
  <1>3. call'[x].op = op /\ call'[x].from = d
    BY <1>2 DEF NewCalls
  <1>4. call[x].op = "idle"
    BY <1>1 DEF NoCall
  <1>5. QED
    BY <1>1, <1>3, <1>4

(* Each case of Kinds in turn.                                             *)
LEMMA RoleSteps ==
    ASSUME SessionTypes, Kinds PROVE RoleHistory
  <1> SUFFICES ASSUME NEW x \in Calls, NEW d \in Devices,
                      call'[x].op # "idle", call'[x].from = d
               PROVE  \/ call[x].from = d /\ call'[x].op = call[x].op
                      \/ /\ call[x].op = "idle" /\ OthersKept(x) /\ store' = store
                         /\ \/ Sends(x, d) /\ call'[x].op \in {"refresh", "logout"}
                            \/ SignsIn(x, d) /\ call'[x].op \in Signing
                            \/ Asks(x, d) /\ call'[x].op \in {"change", "delete"}
                      \/ /\ Receives(x) /\ call[x].from = d /\ call[x].op \in Deleting
                         /\ call'[x].op = "logout" /\ OthersKept(x) /\ store' = store
    BY DEF RoleHistory
  <1>0. d # Nobody
    BY SessionsAssumption DEF Nobody
  <1>1. ASSUME NEW c \in Calls, RequestKind(c), c = x
        PROVE  \/ call[x].from = d /\ call'[x].op = call[x].op
               \/ /\ call[x].op = "idle" /\ OthersKept(x) /\ store' = store
                  /\ \/ Sends(x, d) /\ call'[x].op \in {"refresh", "logout"}
                     \/ SignsIn(x, d) /\ call'[x].op \in Signing
                     \/ Asks(x, d) /\ call'[x].op \in {"change", "delete"}
    <2>1. ASSUME NEW e \in Devices, Sends(x, e) \/ SignsIn(x, e) \/ Asks(x, e)
          PROVE  /\ e = d /\ call[x].op = "idle" /\ OthersKept(x) /\ store' = store
                 /\ \/ Sends(x, d) /\ call'[x].op \in {"refresh", "logout"}
                    \/ SignsIn(x, d) /\ call'[x].op \in Signing
                    \/ Asks(x, d) /\ call'[x].op \in {"change", "delete"}
      <3>1. CASE Sends(x, e)
        <4>0. PICK op \in {"refresh", "logout"} : \E pc, arg, saw : Begins(x, NewCalls(op, e, pc, arg, saw))
          BY <3>1 DEF Sends
        <4>1. /\ e = d /\ call[x].op = "idle" /\ OthersKept(x) /\ store' = store
              /\ call'[x].op \in {"refresh", "logout"}
          BY <4>0, NewIs
        <4>2. Sends(x, d)
          BY <3>1, <4>1
        <4>3. QED
          BY <4>1, <4>2
      <3>2. CASE SignsIn(x, e)
        <4>0. PICK op \in Signing : \E pc, arg, saw : Begins(x, NewCalls(op, e, pc, arg, saw))
          BY <3>2 DEF SignsIn
        <4>1. /\ e = d /\ call[x].op = "idle" /\ OthersKept(x) /\ store' = store
              /\ call'[x].op \in Signing
          BY <4>0, NewIs
        <4>2. SignsIn(x, d)
          BY <3>2, <4>1
        <4>3. QED
          BY <4>1, <4>2
      <3>3. CASE Asks(x, e)
        <4>0. PICK op \in {"change", "delete"} : \E pc, arg, saw : Begins(x, NewCalls(op, e, pc, arg, saw))
          BY <3>3 DEF Asks
        <4>1. /\ e = d /\ call[x].op = "idle" /\ OthersKept(x) /\ store' = store
              /\ call'[x].op \in {"change", "delete"}
          BY <4>0, NewIs
        <4>2. Asks(x, d)
          BY <3>3, <4>1
        <4>3. QED
          BY <4>1, <4>2
      <3>4. QED
        BY <2>1, <3>1, <3>2, <3>3
    <2>2. CASE (\E k \in Links : Resets(x, k)) \/ Forgets(x)
      BY <1>0, <2>2 DEF Resets, Forgets, Begins, Became, NewCalls
    <2>3. CASE Advances(x)
      BY <2>3 DEF Advances, Became, RefreshReads, LogoutReads, SnapshotReads
    <2>4. CASE JustAnswers(x)
      BY <2>4 DEF JustAnswers, Became, Answers, Idle
    <2>5. QED
      BY <1>1, <2>1, <2>2, <2>3, <2>4 DEF RequestKind
  <1>2. ASSUME NEW c \in Calls, RequestKind(c) \/ CommitKind(c), c # x
        PROVE  call'[x].from = call[x].from /\ call'[x].op = call[x].op
    <2>1. OthersKept(c) \/ SessionsEnd(c)
      BY <1>2 DEF RequestKind, Sends, SignsIn, Asks, Resets, Forgets, Begins, Advances,
                  JustAnswers, Became, CommitKind, SignedIn, Refreshed, Issuance, LoggedOut,
                  Changed, Deleted, Mailed
    <2>2. QED
      BY <1>2, <2>1 DEF OthersKept, SessionsEnd, SameButLate
  <1>3. ASSUME CommitKind(x) PROVE call[x].from = d /\ call'[x].op = call[x].op
    <2>1. \E out, ok : call'[x] \in Answers(x, out, ok)
      BY <1>3 DEF CommitKind, SignedIn, Refreshed, Issuance, LoggedOut, Changed, Deleted,
                  SessionsEnd, Mailed, Became
    <2>2. QED
      BY <2>1 DEF Answers, Idle
  <1>4. CASE DeviceKind
    <2>1. ASSUME Receives(x)
          PROVE  /\ call[x].from = d /\ call[x].op \in Deleting
                 /\ call'[x].op = "logout" /\ OthersKept(x) /\ store' = store
      <3>1. Became(x, LogoutsSent(call[x].from)) /\ call[x].op \in Deleting
        BY <2>1 DEF Receives, Became, Idle
      <3>2. KeptAfter(x) = store[call[x].from]
        BY <3>1 DEF KeptAfter, Signing, Deleting
      <3>3. store' = store
        BY <2>1, <3>2 DEF Receives, SessionTypes
      <3>4. QED
        BY <3>1, <3>3 DEF Became, LogoutsSent
    <2>2. ASSUME NEW c \in Calls, Receives(c) \/ Dropped(c), c # x PROVE call'[x] = call[x]
      BY <2>2 DEF Receives, Dropped, Became, OthersKept
    <2>3. ~Dropped(x)
      BY DEF Dropped, Became, Idle
    <2>4. ASSUME NEW e \in Devices, Disconnects(e) PROVE call'[x] = call[x]
      BY <1>0, <2>4 DEF Disconnects, Orphaned
    <2>5. QED
      BY <1>4, <2>1, <2>2, <2>3, <2>4 DEF DeviceKind, Lapsed, LinkGone
  <1>5. CASE UNCHANGED vars
    BY <1>5 DEF vars
  <1>6. QED
    BY <1>1, <1>2, <1>3, <1>4, <1>5 DEF Kinds

(* An answer that changes the token of a device is one to a sign-in, a     *)
(* refresh or a logout.                                                    *)
StoreTaken ==
    \A d \in Devices \ excused' :
        \/ store'[d] = store[d]
        \/ \E y \in Calls : /\ Receives(y) /\ y \in Waits(d) /\ call'[y].op = "idle"
                            /\ call[y].op \in Signing \cup {"refresh", "logout"}
                            /\ store'[d] = KeptAfter(y)

(* A device that is not excused changes its token only with such an        *)
(* answer.                                                                 *)
LEMMA TakenSteps ==
    ASSUME SessionTypes, Kinds PROVE StoreTaken
  <1> USE DEF SessionTypes
  <1>1. ASSUME NEW c \in Calls, Receives(c) PROVE StoreTaken
    <2>1. CASE call[c].op \in Signing \cup {"refresh", "logout"}
      <3>1. call'[c].op = "idle" /\ c \in Waits(call[c].from)
        BY <1>1, <2>1 DEF Receives, Became, Idle, Signing, Deleting, Waits
      <3>2. QED
        BY <1>1, <2>1, <3>1 DEF Receives, StoreTaken
    <2>2. CASE call[c].op \notin Signing \cup {"refresh", "logout"}
      <3>1. KeptAfter(c) = store[call[c].from]
        BY <2>2 DEF KeptAfter
      <3>2. QED
        BY <1>1, <3>1 DEF Receives, StoreTaken
    <2>3. QED
      BY <2>1, <2>2
  <1>2. ASSUME NEW d \in Devices, Disconnects(d) PROVE StoreTaken
    BY <1>2 DEF Disconnects, StoreTaken
  <1>3. ASSUME store' = store PROVE StoreTaken
    BY <1>3 DEF StoreTaken
  <1>4. ASSUME NEW c \in Calls, RequestKind(c) \/ CommitKind(c) PROVE store' = store
    BY <1>4 DEF RequestKind, Sends, SignsIn, Asks, Resets, Forgets, Begins, Advances, JustAnswers,
                CommitKind, SignedIn, Refreshed, Issuance, LoggedOut, Changed, Deleted,
                SessionsEnd, Mailed
  <1>5. QED
    BY <1>1, <1>2, <1>3, <1>4 DEF Kinds, DeviceKind, Dropped, Lapsed, LinkGone, vars
(* One request that clears the session, one that opens it and one refresh  *)
(* at a time.                                                              *)
LEMMA OneAtATimeStep ==
    ASSUME SessionTypes, OneAtATime, RoleHistory, StoreTaken, Kinds PROVE OneAtATime'
  <1> DEFINE Apart(d, c, x) ==
        /\ Leaves(c) /\ Leaves(x) => c = x
        /\ call[c].op \in Signing /\ d \notin excused => x = c
        /\ /\ call[c].op \in {"refresh", "logout"} /\ call[x].op \in {"refresh", "logout"}
           /\ d \notin excused
           => c = x
  <1> DEFINE Old(x, d) == call[x].from = d /\ call'[x].op = call[x].op
             New(x, d) == /\ call[x].op = "idle" /\ OthersKept(x) /\ store' = store
                          /\ \/ Sends(x, d) /\ call'[x].op \in {"refresh", "logout"}
                             \/ SignsIn(x, d) /\ call'[x].op \in Signing
                             \/ Asks(x, d) /\ call'[x].op \in {"change", "delete"}
             Follows(x, d) == /\ Receives(x) /\ call[x].from = d /\ call[x].op \in Deleting
                              /\ call'[x].op = "logout" /\ OthersKept(x) /\ store' = store
  <1>0. excused \subseteq excused'
    BY ExcusedGrows
  <1>1. ASSUME NEW d \in Devices, NEW c \in Waits(d)'
        PROVE  /\ c \in Calls /\ call'[c].op # "idle" /\ call'[c].from = d
               /\ Old(c, d) \/ New(c, d) \/ Follows(c, d)
               /\ Old(c, d) \/ Follows(c, d) => c \in Waits(d)
    <2>1. c \in Calls /\ call'[c].op # "idle" /\ call'[c].from = d
      BY <1>1 DEF Waits
    <2>2. Old(c, d) \/ New(c, d) \/ Follows(c, d)
      BY <2>1 DEF RoleHistory
    <2>3. ASSUME Old(c, d) \/ Follows(c, d) PROVE c \in Waits(d)
      BY <2>1, <2>3 DEF Waits, Receives
    <2>4. QED
      BY <2>1, <2>2, <2>3
  <1>2. ASSUME NEW d \in Devices, NEW c \in Waits(d), NEW x \in Waits(d) PROVE Apart(d, c, x)
    BY <1>2 DEF OneAtATime
  <1>3. ASSUME NEW d \in Devices, NEW c \in Waits(d)', NEW x \in Waits(d)', x # c,
               Old(x, d) \/ Follows(x, d), New(c, d)
        PROVE  Apart(d, c, x)' /\ Apart(d, x, c)'
    <2>1. x \in Waits(d) /\ x \in Calls /\ c \in Calls
      BY <1>1, <1>3
    <2>2. call'[x] = call[x]
      BY <1>3, <2>1 DEF OthersKept
    <2>3. call[x].op \in Signing => SigningIn(d)
      BY <2>1 DEF SigningIn, Doing
    <2>4. CASE Sends(c, d) /\ call'[c].op \in {"refresh", "logout"}
      <3>1. store[d] # 0
        BY <2>4 DEF Sends
      <3>2. /\ call'[c].op = "refresh" => ~Doing(d, "refresh") /\ (Doing(d, "logout") => d \in excused')
            /\ call'[c].op = "logout" => ~Leaving(d) /\ (Doing(d, "refresh") => d \in excused')
        BY <2>4 DEF Sends, Begins, Became, NewCalls, ExcusedIf
      <3>5. SigningIn(d) => d \in excused'
        BY <2>4 DEF Sends, ExcusedIf
      <3>3. /\ call[x].op = "refresh" => Doing(d, "refresh")
            /\ call[x].op = "logout" => Doing(d, "logout")
            /\ Leaves(x) => Leaving(d)
        BY <2>1 DEF Doing, Leaving, Leaves
      <3>4. QED
        BY <2>2, <2>3, <2>4, <3>1, <3>2, <3>3, <3>5 DEF Leaves, Signing, Deleting
    <2>5. CASE SignsIn(c, d) /\ call'[c].op \in Signing
      <3>1. d \in excused'
        BY <2>1, <2>5 DEF SignsIn, ExcusedIf
      <3>2. QED
        BY <1>3, <2>2, <2>5, <3>1 DEF Leaves, Signing, Deleting
    <2>6. CASE Asks(c, d) /\ call'[c].op \in {"change", "delete"}
      <3>1. ~Leaving(d) /\ (SigningIn(d) => d \in excused')
        BY <2>6 DEF Asks, ExcusedIf
      <3>2. ~Leaves(x)
        BY <2>1, <3>1 DEF Leaving, Leaves, Doing
      <3>3. QED
        BY <2>2, <2>3, <2>6, <3>1, <3>2 DEF Leaves, Signing, Deleting
    <2>7. QED
      BY <1>3, <2>4, <2>5, <2>6
  <1>4. ASSUME NEW d \in Devices, NEW c \in Waits(d)', NEW x \in Waits(d)', x # c,
               Old(x, d), Follows(c, d)
        PROVE  Apart(d, c, x)' /\ Apart(d, x, c)'
    <2>1. x \in Waits(d) /\ x \in Calls /\ c \in Calls /\ c \in Waits(d)
      BY <1>1, <1>4
    <2>2. call'[x] = call[x]
      BY <1>4, <2>1 DEF OthersKept
    <2>3. ~Leaves(x) /\ (call[x].op \in Signing => d \in excused')
      BY <1>0, <1>2, <1>4, <2>1 DEF Leaves
    <2>4. call[x].op = "refresh" => d \in excused'
      BY <1>4, <2>1 DEF Receives, Doing
    <2>5. QED
      BY <1>4, <2>2, <2>3, <2>4 DEF Leaves, Signing
  <1>5. ASSUME NEW d \in Devices, NEW c \in Waits(d)', NEW x \in Waits(d)',
               Old(c, d), Old(x, d)
        PROVE  Apart(d, c, x)'
    <2>1. x \in Waits(d) /\ c \in Waits(d) /\ c \in Calls
      BY <1>1, <1>5
    <2>2. Apart(d, c, x)
      BY <1>2, <2>1
    <2>3. QED
      BY <1>0, <1>5, <2>2 DEF Leaves
  <1>6. ASSUME NEW d \in Devices, NEW c \in Waits(d)', New(c, d) \/ Follows(c, d)
        PROVE  Apart(d, c, c)'
    BY <1>6 DEF SignsIn, Sends, Asks, Signing, Deleting
  <1>7. ASSUME NEW d \in Devices, NEW c \in Waits(d)', NEW x \in Waits(d)', x # c
        PROVE  /\ ~(New(c, d) /\ New(x, d)) /\ ~(Follows(c, d) /\ Follows(x, d))
               /\ ~(Follows(c, d) /\ New(x, d))
    <2>1. /\ c \in Calls /\ x \in Calls /\ call'[x].op # "idle"
          /\ OthersKept(c) => call'[x] = call[x]
      BY <1>1, <1>7 DEF OthersKept
    <2>2. QED
      BY <2>1 DEF Deleting
  <1>8. ASSUME NEW d \in Devices, NEW c \in Waits(d)', NEW x \in Waits(d)'
        PROVE  Apart(d, c, x)'
    <2>1. CASE c = x
      BY <1>1, <1>5, <1>6, <2>1
    <2>2. CASE c # x
      BY <1>1, <1>3, <1>4, <1>5, <1>7, <2>2
    <2>3. QED
      BY <2>1, <2>2
  <1>9. QED
    BY <1>8 DEF OneAtATime
(* How a refresh or a logout comes to be answered.                         *)
Spending(c) ==
    /\ Spends(c)
    /\ \/ JustAnswers(c) /\ UNCHANGED <<account, token>> /\ ~Refreshable(call[c].arg)
       \/ Refreshed(c) \/ LoggedOut(c)
AnswerOrigin ==
    \A c \in Calls, d \in Devices :
        /\ call'[c].op \in {"refresh", "logout"} /\ call'[c].pc = "answered"
        /\ call'[c].from = d
        => /\ call[c].from = d /\ call[c].op = call'[c].op
           /\ Spending(c) \/ (call[c].pc = "answered" /\ ~Receives(c))

(* An answer to a refresh or a logout was there before, or its call has    *)
(* just spent its token.                                                   *)
LEMMA OriginSteps ==
    ASSUME SessionTypes, Kinds PROVE AnswerOrigin
  <1> SUFFICES ASSUME NEW c \in Calls, NEW d \in Devices,
                      call'[c].op \in {"refresh", "logout"}, call'[c].pc = "answered",
                      call'[c].from = d
               PROVE  /\ call[c].from = d /\ call[c].op = call'[c].op
                      /\ Spending(c) \/ (call[c].pc = "answered" /\ ~Receives(c))
    BY DEF AnswerOrigin
  <1>0. d # Nobody
    BY SessionsAssumption DEF Nobody
  <1>1. ~Receives(c)
    BY DEF Receives, Became, Idle, LogoutsSent
  <1>2. ASSUME call'[c] = call[c] \/ SameButLate(c) \/ Orphaned(c)
        PROVE  call[c].from = d /\ call[c].op = call'[c].op /\ call[c].pc = "answered"
    BY <1>0, <1>2 DEF SameButLate, Orphaned
  <1>3. ASSUME RequestKind(c)
        PROVE  call[c].from = d /\ call[c].op = call'[c].op /\ Spending(c)
    <2>1. JustAnswers(c)
      BY <1>3 DEF RequestKind, Sends, SignsIn, Asks, Resets, Forgets, Begins, Advances,
                  Became, NewCalls, RefreshReads, LogoutReads, SnapshotReads, Signing
    <2>2. call[c].from = d /\ call[c].op = call'[c].op
      BY <2>1 DEF JustAnswers, Became, Answers, Idle
    <2>3. UNCHANGED <<account, token>> /\ Spends(c) /\ ~Refreshable(call[c].arg)
      BY <2>1, <2>2 DEF JustAnswers, server
    <2>4. QED
      BY <2>1, <2>2, <2>3 DEF Spending
  <1>4. ASSUME CommitKind(c)
        PROVE  call[c].from = d /\ call[c].op = call'[c].op /\ Spending(c)
    <2>1. \E out, ok : call'[c] \in Answers(c, out, ok)
      BY <1>4 DEF CommitKind, SignedIn, Refreshed, Issuance, LoggedOut, Changed, Deleted,
                  SessionsEnd, Mailed, Became
    <2>2. call[c].from = d /\ call[c].op = call'[c].op
      BY <2>1 DEF Answers, Idle
    <2>3. Refreshed(c) \/ LoggedOut(c)
      BY <1>4, <2>2 DEF CommitKind, SignedIn, Changed, Deleted, Mailed, Signing
    <2>4. Spends(c)
      BY <2>3 DEF Refreshed, LoggedOut
    <2>5. QED
      BY <2>2, <2>3, <2>4 DEF Spending
  <1>5. ASSUME NEW x \in Calls, x # c, RequestKind(x) \/ CommitKind(x) \/ Receives(x) \/ Dropped(x)
        PROVE  call'[c] = call[c] \/ SameButLate(c)
    <2>1. OthersKept(x) \/ SessionsEnd(x)
      BY <1>5 DEF RequestKind, Sends, SignsIn, Asks, Resets, Forgets, Begins, Advances,
                  JustAnswers, Became, CommitKind, SignedIn, Refreshed, Issuance, LoggedOut,
                  Changed, Deleted, Mailed, Receives, Dropped
    <2>2. QED
      BY <1>5, <2>1 DEF OthersKept, SessionsEnd
  <1>6. ~Dropped(c)
    BY DEF Dropped, Became, Idle
  <1>7. ASSUME NEW e \in Devices, Disconnects(e) PROVE call'[c] = call[c] \/ Orphaned(c)
    BY <1>7 DEF Disconnects
  <1>8. QED
    BY <1>1, <1>2, <1>3, <1>4, <1>5, <1>6, <1>7
       DEF Kinds, DeviceKind, Lapsed, LinkGone, vars

(* The device keeps its token while a request of its own spends it.        *)
LEMMA OwnTokenStays ==
    ASSUME SessionTypes, OneAtATime, StoreTaken, excused \subseteq excused',
           NEW d \in Devices \ excused', NEW c \in Waits(d),
           call[c].op \in {"refresh", "logout"}, ~Receives(c)
    PROVE  store'[d] = store[d]
  <1>1. ASSUME NEW y \in Calls, Receives(y), y \in Waits(d),
               call[y].op \in Signing \cup {"refresh", "logout"}
        PROVE  FALSE
    <2>1. y # c
      BY <1>1
    <2>2. call[y].op \notin Signing
      BY <1>1, <2>1 DEF OneAtATime
    <2>3. QED
      BY <1>1, <2>1, <2>2 DEF OneAtATime
  <1>2. QED
    BY <1>1 DEF StoreTaken

Steps == Moves /\ RoleHistory /\ StoreTaken /\ AnswerOrigin /\ Kinds

(* An account becomes active only by its registration.                     *)
LEMMA WasActive ==
    ASSUME SessionTypes, Kinds, account' = "active", account # "active"
    PROVE  account = "none"
  BY DEF Kinds, RequestKind, Sends, SignsIn, Asks, Resets, Forgets, Begins, Advances, JustAnswers,
         CommitKind, SignedIn, Refreshed, LoggedOut, Changed, Deleted, Mailed,
         DeviceKind, Receives, Dropped, Disconnects, Lapsed, LinkGone, vars, server

(* Every step keeps what a device's refresh or logout spends the token     *)
(* that device stores.                                                     *)
LEMMA SpendsOwnStep ==
    ASSUME SessionTypes, SessionTypes', Ownership, NothingYet, OneAtATime, SpendsOwn, Steps
    PROVE  SpendsOwn'
  <1> SUFFICES ASSUME NEW d \in Devices \ excused', NEW c \in Waits(d)'
               PROVE  /\ Spends(c)' => call'[c].arg = store'[d]
                      /\ account' = "active" /\ call'[c].op \in {"refresh", "logout"}
                         /\ call'[c].pc = "answered" /\ store'[d] # 0
                         => token'[store'[d]].state # "live"
    BY DEF SpendsOwn, Live
  <1>0. /\ d \in Devices \ excused /\ d # Nobody /\ excused \subseteq excused'
        /\ c \in Calls /\ call'[c].from = d /\ call'[c].op # "idle"
    BY SessionsAssumption DEF Nobody, Steps, Moves, Waits
  <1>1. ASSUME Spends(c)' PROVE call'[c].arg = store'[d]
    <2>1. CASE Spends(c) /\ call'[c].arg = call[c].arg /\ call[c].from = d
      <3>1. c \in Waits(d) /\ call[c].op \in {"refresh", "logout"} /\ ~Receives(c)
        BY <1>0, <2>1 DEF Waits, Spends, Receives
      <3>2. store'[d] = store[d]
        BY <1>0, <3>1, OwnTokenStays DEF Steps
      <3>3. QED
        BY <1>0, <2>1, <3>1, <3>2 DEF SpendsOwn
    <2>2. QED
      BY <1>0, <1>1, <2>1 DEF Steps, Moves, CallHistory, SpendHistory
  <1>2. ASSUME account' = "active", call'[c].op \in {"refresh", "logout"},
               call'[c].pc = "answered", store'[d] # 0
        PROVE  token'[store'[d]].state # "live"
    <2>1. /\ call[c].from = d /\ call[c].op \in {"refresh", "logout"}
          /\ Spending(c) \/ (call[c].pc = "answered" /\ ~Receives(c))
      BY <1>0, <1>2 DEF Steps, AnswerOrigin
    <2>2. c \in Waits(d) /\ ~Receives(c)
      BY <1>0, <2>1 DEF Waits, Receives, Spending, Spends
    <2>3. store'[d] = store[d]
      BY <1>0, <2>1, <2>2, OwnTokenStays DEF Steps
    <2>4. account = "active"
      BY <1>0, <1>2, <2>1, WasActive DEF Steps, NothingYet
    <2>5. store[d] \in Issued /\ store[d] \in Tokens
      BY <1>0, <1>2, <2>3 DEF Ownership, CarriedIsIssued, Issued
    <2>6. CASE call[c].pc = "answered"
      <3>1. ~Live(store[d])
        BY <1>0, <1>2, <2>1, <2>2, <2>3, <2>4, <2>6 DEF SpendsOwn
      <3>2. QED
        BY <2>3, <2>5, <3>1 DEF Steps, Moves, TokenHistory, Live
    <2>7. CASE Spending(c)
      <3>1. call[c].arg = store[d]
        BY <1>0, <2>2, <2>7 DEF SpendsOwn, Spending
      <3>2. CASE UNCHANGED <<account, token>> /\ ~Refreshable(call[c].arg)
        BY <2>3, <2>4, <3>1, <3>2 DEF Refreshable, Live
      <3>3. CASE Refreshed(c)
        <4>1. NewToken \notin Issued
          BY <3>3, FreshToken DEF Refreshed, Issuance, Ownership
        <4>2. QED
          BY <2>3, <2>5, <3>1, <3>3, <4>1 DEF Refreshed
      <3>4. CASE LoggedOut(c)
        BY <2>3, <3>1, <3>4 DEF LoggedOut, Buried
      <3>5. QED
        BY <2>7, <3>2, <3>3, <3>4 DEF Spending
    <2>8. QED
      BY <2>1, <2>6, <2>7
  <1>3. QED
    BY <1>1, <1>2

(* A live token stays within reach of its device: stored, on its way,      *)
(* or excused.                                                             *)
LEMMA LiveStep ==
    ASSUME SessionTypes, SessionTypes', Ownership, Reach, Steps
    PROVE  LiveIsReachable'
  <1> USE DEF Reach
  <1> SUFFICES ASSUME account' = "active", NEW d \in Devices \ excused', NEW t \in Tokens,
                      Live(t)', token'[t].to = d
               PROVE  store'[d] = t \/ OnItsWay(d, t)'
    BY DEF LiveIsReachable
  <1>0. d \in Devices \ excused /\ d # Nobody /\ excused \subseteq excused' /\ t # 0
    BY SessionsAssumption DEF Nobody, Steps, Moves, Tokens
  <1>1. ASSUME NEW c \in Calls, call'[c].from = d, call'[c].out = t, call'[c].ok = TRUE,
               call'[c].pc = "answered", call'[c].op \in Signing \cup {"refresh"}
        PROVE  OnItsWay(d, t)'
    <2>1. c \in Waits(d)'
      BY <1>1 DEF Waits, Signing
    <2>2. QED
      BY <1>1, <2>1 DEF OnItsWay
  <1>2. CASE t \in Issued
    <2>1. Live(t) /\ token[t].to = d
      BY <1>0, <1>2 DEF Steps, Moves, TokenHistory, Live
    <2>2. account = "active"
      BY <1>2, WasActive DEF Steps, NothingYet
    <2>3. CASE store[d] = t
      <3>1. ASSUME NEW y \in Waits(d), Receives(y), call[y].op \in Signing \cup {"refresh", "logout"}
            PROVE  KeptAfter(y) = t
        <4>1. CASE call[y].op \in Signing
          <5>1. call[y].from = d /\ y \in Calls
            BY DEF Waits
          <5>2. call[y].ok # TRUE
            BY <1>0, <2>3, <3>1, <4>1, <5>1 DEF Receives, Overwrites
          <5>3. call[y].ok = FALSE
            BY <5>1, <5>2 DEF SessionTypes, CallTypes, CallRecords
          <5>4. QED
            BY <2>3, <4>1, <5>1, <5>3 DEF KeptAfter, Signing
        <4>2. CASE call[y].op \notin Signing
          BY <1>0, <2>1, <2>2, <2>3, <3>1, <4>2 DEF SpendsOwn, Receives
        <4>3. QED
          BY <4>1, <4>2
      <3>2. QED
        BY <2>3, <3>1 DEF Steps, StoreTaken
    <2>4. ASSUME NEW c \in Waits(d), call[c].out = t, call[c].ok = TRUE, call[c].pc = "answered",
                 call[c].op \in Signing \cup {"refresh"}
          PROVE  store'[d] = t \/ OnItsWay(d, t)'
      <3>1. c \in Calls /\ call[c].from = d
        BY <2>4 DEF Waits
      <3>2. CASE Receives(c)
        <4>1. KeptAfter(c) = t
          BY <2>4 DEF KeptAfter, Signing
        <4>2. QED
          BY <1>0, <3>1, <3>2, <4>1 DEF Receives, SessionTypes
      <3>3. CASE ~Receives(c)
        <4>1. /\ call'[c].op = call[c].op /\ call'[c].pc = call[c].pc
              /\ call'[c].from = call[c].from /\ call'[c].out = call[c].out
              /\ call'[c].ok = call[c].ok
          BY <2>4, <3>1, <3>3 DEF Steps, Moves, CallHistory, AnswerHistory
        <4>2. QED
          BY <1>1, <2>4, <3>1, <4>1
      <3>4. QED
        BY <3>2, <3>3
    <2>5. QED
      BY <1>0, <2>1, <2>2, <2>3, <2>4 DEF LiveIsReachable, OnItsWay
  <1>3. CASE t \notin Issued
    <2>1. t \in Issued'
      BY DEF Issued, Live
    <2>2. PICK c \in Calls : Issuing(c) /\ t = NewToken /\ token'[t] \in NewTokens(c)
      BY <1>3, <2>1 DEF Steps, Moves, TokenHistory
    <2>3. call[c].from = d /\ call[c].op \in Signing \cup {"refresh"}
      BY <2>2 DEF NewTokens, Issuing, SignedIn, Refreshed
    <2>4. call'[c] \in Answers(c, NewToken, TRUE)
      BY <2>2 DEF Issuing, SignedIn, Refreshed, Issuance, Became
    <2>5. /\ call'[c].from = d /\ call'[c].out = t /\ call'[c].ok = TRUE
          /\ call'[c].pc = "answered" /\ call'[c].op = call[c].op
      BY <1>0, <2>2, <2>3, <2>4 DEF Answers
    <2>6. QED
      BY <1>1, <2>3, <2>5
  <1>4. QED
    BY <1>2, <1>3
-------------------------------------------------------------------------------
(* The invariant of the sessions, and of the account beside them.          *)
LEMMA SessionInvInit ==
    ASSUME Init PROVE SessionInv
  <1>1. SessionTypes
    BY TypesInit
  <1>2. Issued = {} /\ TokensInOrder
    <2>1. Issued = {}
      BY DEF Init, Issued, NoToken
    <2>2. 0 \in 0..MaxTokens /\ 1..0 = {}
      BY SessionsAssumption
    <2>3. QED
      BY <2>1, <2>2 DEF TokensInOrder
  <1>3. /\ \A d \in Devices : store[d] = 0
        /\ \A c \in Calls : call[c].op = "idle" /\ call[c].out = 0 /\ call[c].pc = "answered"
    BY DEF Init, NoCall
  <1>4. CarriedIsIssued /\ OnePlace /\ SpentIsKnown
    BY <1>3 DEF CarriedIsIssued, OnePlace, SpentIsKnown, Spends
  <1>5. \A d \in Devices : Waits(d) = {}
    BY <1>3 DEF Waits
  <1>6. \A t \in Tokens : ~Live(t)
    BY <1>2 DEF Issued, Live
  <1>7. Reach
    BY <1>2, <1>3, <1>5, <1>6 DEF Reach, NothingYet, OneAtATime, SpendsOwn, LiveIsReachable
  <1>8. OpenedInTime /\ LinksHeld
    BY <1>3, <1>6 DEF OpenedInTime, LinksHeld, Opens, Signing
  <1>9. QED
    BY <1>1, <1>2, <1>4, <1>7, <1>8 DEF SessionInv, Ownership

(* Every step of the sessions keeps the whole invariant.                   *)
LEMMA SessionInvStep ==
    ASSUME SessionInv, [Next]_vars PROVE SessionInv'
  <1> USE DEF SessionInv
  <1>1. SessionTypes' /\ OpenedInTime' /\ LinksHeld'
    BY TypesStep, OpenedInTimeStep, LinksHeldStep
  <1>2. Ownership' /\ Moves
    BY OwnershipStep
  <1>3. Kinds
    BY StepKinds
  <1>4. Steps
    BY <1>2, <1>3, RoleSteps, TakenSteps, OriginSteps DEF Steps
  <1>5. NothingYet' /\ OneAtATime'
    BY <1>3, <1>4, NothingYetStep, OneAtATimeStep DEF Reach, Ownership, Steps
  <1>6. SpendsOwn' /\ LiveIsReachable'
    BY <1>1, <1>4, SpendsOwnStep, LiveStep DEF Reach
  <1>7. QED
    BY <1>1, <1>2, <1>5, <1>6 DEF Reach

(* The account beside the sessions adds no step to them.                   *)
LEMMA SessionsOnly ==
    ASSUME [AcctNext]_allVars PROVE [Next]_vars
  <1>1. CASE SessionStep
    BY <1>1 DEF Next
  <1>2. ASSUME NEW c \in Calls, NEW d \in Devices, DeletionRead(c, d) PROVE Next
    BY <1>2 DEF DeletionRead, Next
  <1>3. ASSUME NEW c \in Calls, DeletionCommit(c) \/ DeletionRefused(c) PROVE Next
    BY <1>3 DEF DeletionCommit, DeletionRefused, Next
  <1>4. CASE \/ EditRead \/ EditEnds \/ \E k \in Handlers : ProfileWrite(k)
             \/ VehicleWrite \/ (\E v \in Vehicles : BookingWrite(v)) \/ BookingEnds
    BY <1>4 DEF EditRead, ProfileWrite, EditEnds, VehicleWrite, BookingWrite, BookingEnds
  <1>5. CASE UNCHANGED allVars
    BY <1>5 DEF allVars
  <1>6. QED
    BY <1>1, <1>2, <1>3, <1>4, <1>5 DEF AcctNext

(* Without a commit of the deletion the account is not deleted, and it is  *)
(* deleted for ever.                                                       *)
LEMMA StaysDeleted ==
    ASSUME SessionTypes, [Next]_vars, account = "deleted" PROVE account' = "deleted"
  <1>1. Kinds
    BY StepKinds
  <1>2. QED
    BY <1>1 DEF Kinds, RequestKind, Sends, SignsIn, Asks, Resets, Forgets, Begins, Advances,
         JustAnswers, CommitKind, SignedIn, Refreshed, LoggedOut, Changed, Deleted, Mailed,
         DeviceKind, Receives, Dropped, Disconnects, Lapsed, LinkGone, vars, server

(* No step of the sessions other than the deletion deletes the account.    *)
LEMMA NotDeletedElse ==
    ASSUME SessionStep, account' = "deleted" PROVE account = "deleted"
  BY DEF SessionStep, DeviceStep, ServerStep, StartRefresh, StartLogout, SignInRead, PasswordRead,
         RefreshRead, LogoutRead, ForgotRead, ResetRead, SnapshotRead, SignInCommit,
         RefreshCommit, LogoutCommit, PasswordCommit, ForgotCommit, Receive, GiveUp, Dies,
         Restart, TokenLapses, LinkLapses, Refused, server

(* Every step keeps which vehicles the bookings of an account refer to.    *)
LEMMA DeletionStep ==
    ASSUME SessionTypes, Deletion, [AcctNext]_allVars PROVE Deletion'
  <1> USE DEF Deletion, DataTypes
  <1>1. account = "deleted" => account' = "deleted"
    BY SessionsOnly, StaysDeleted
  <1>2. ASSUME UNCHANGED vars PROVE Erasing' = Erasing /\ account' = account
    BY <1>2 DEF Erasing, At, vars, server
  <1>3. ASSUME Settled, UNCHANGED <<edit, profile, booked>>,
               account' = "deleted" => account = "deleted"
        PROVE  Deletion'
    <2>1. CASE AccountDeleted' \/ Erasing'
      BY <1>3, <2>1 DEF Settled, AccountDeleted
    <2>2. CASE ~(AccountDeleted' \/ Erasing')
      BY <1>3, <2>2 DEF Settled, AccountDeleted, Vehicles
    <2>3. QED
      BY <2>1, <2>2
  <1>4. CASE SessionStep /\ Settled /\ UNCHANGED <<edit, profile, booked>>
    BY <1>3, <1>4, NotDeletedElse
  <1>5. ASSUME NEW c \in Calls, NEW d \in Devices, DeletionRead(c, d) PROVE Deletion'
    <2>1. UNCHANGED acctVars /\ account' = account
      BY <1>5 DEF DeletionRead, PasswordRead, server
    <2>2. ASSUME NEW x \in Calls, At(x, "delete", "deleting") PROVE Erasing'
      <3>1. call[x] # NoCall
        BY <2>2 DEF At, NoCall
      <3>2. call'[x] = call[x]
        BY <1>5, <3>1 DEF DeletionRead, PasswordRead, Begin, SessionTypes, CallTypes
      <3>3. QED
        BY <2>2, <3>2 DEF Erasing, At
    <2>3. Erasing => Erasing'
      BY <2>2 DEF Erasing
    <2>4. QED
      BY <2>1, <2>3 DEF acctVars
  <1>6. ASSUME NEW c \in Calls, DeletionCommit(c) PROVE Deletion'
    <2>1. account' = "deleted" /\ "usual" \notin rides
          /\ UNCHANGED <<edit, added, rides, booked>> /\ profile' \subseteq profile
      BY <1>6 DEF DeletionCommit, DeleteCommit, VehiclesUnused, Anonymised
    <2>2. QED
      BY <2>1
  <1>7. ASSUME NEW c \in Calls, DeletionRefused(c) PROVE Deletion'
    BY <1>3, <1>7 DEF DeletionRefused, DeleteFails, Refused, server
  <1>8. CASE EditRead \/ EditEnds \/ \E k \in Handlers : ProfileWrite(k)
    <2>1. /\ UNCHANGED <<vars, added, rides, booked>>
          /\ edit' \in BOOLEAN /\ profile' \subseteq profile \cup ProfileData
      BY <1>8 DEF EditRead, ProfileWrite, EditEnds
    <2>2. QED
      BY <1>2, <2>1
  <1>9. CASE VehicleWrite
    <2>1. /\ UNCHANGED <<vars, edit, profile, rides, booked>> /\ added' = TRUE
          /\ Erasing \/ account = "deleted"
      BY <1>9 DEF VehicleWrite, AccountDeleted
    <2>2. QED
      BY <1>2, <2>1
  <1>10. ASSUME NEW v \in Vehicles, BookingWrite(v) PROVE Deletion'
    <2>1. /\ UNCHANGED <<vars, edit, profile, added>> /\ rides' = rides \cup {v}
          /\ booked' = TRUE
      BY <1>10 DEF BookingWrite
    <2>2. CASE v = "usual"
      <3>1. account # "deleted"
        BY <1>10, <2>2 DEF BookingWrite, VehicleThere, AccountDeleted
      <3>2. QED
        BY <1>2, <2>1, <2>2, <3>1
    <2>3. CASE v = "added"
      <3>1. added
        BY <1>10, <2>3 DEF BookingWrite, VehicleThere
      <3>2. QED
        BY <1>2, <2>1, <2>3, <3>1
    <2>4. QED
      BY <2>2, <2>3 DEF Vehicles
  <1>11. CASE BookingEnds
    <2>1. UNCHANGED <<vars, edit, profile, added, rides>> /\ booked' = FALSE
      BY <1>11 DEF BookingEnds
    <2>2. QED
      BY <1>2, <2>1
  <1>12. CASE UNCHANGED allVars
    BY <1>2, <1>12 DEF allVars, acctVars
  <1>13. QED
    BY <1>4, <1>5, <1>6, <1>7, <1>8, <1>9, <1>10, <1>11, <1>12 DEF AcctNext

(* The inductive invariant holds: types, the places of the tokens, what a  *)
(* device waits for, the passwords of the sessions, the links in use, and  *)
(* what the deletion of the account leaves.                                *)
THEOREM AccountInvariant == AcctSpec => []IInv
  <1>1. AcctInit => IInv
    <2> SUFFICES ASSUME AcctInit PROVE IInv
      OBVIOUS
    <2>1. SessionInv
      BY SessionInvInit DEF AcctInit
    <2>2. Deletion
      BY DEF AcctInit, Init, Deletion, DataTypes, ProfileData
    <2>3. QED
      BY <2>1, <2>2 DEF IInv
  <1>2. IInv /\ [AcctNext]_allVars => IInv'
    BY SessionsOnly, SessionInvStep, DeletionStep DEF IInv, SessionInv
  <1>3. QED
    BY <1>1, <1>2, PTL DEF AcctSpec

(* Every variable of the sessions and of the account keeps its type.       *)
THEOREM AccountTypeCorrect == AcctSpec => []AcctTypeOK
  <1>1. IInv => AcctTypeOK
    <2> SUFFICES ASSUME IInv PROVE AcctTypeOK
      OBVIOUS
    <2>1. TypeOK
      BY DEF IInv, SessionInv, SessionTypes, CallTypes, TypeOK, CallRecords, TokenRecords,
             TokenStates, Ops
    <2>2. QED
      BY <2>1 DEF IInv, Deletion, DataTypes, AcctTypeOK
  <1>2. QED
    BY <1>1, AccountInvariant, PTL

(* No session outlives the password it was opened with, or the account,    *)
(* unless its login or refresh overlapped the change, reset or deletion.   *)
THEOREM OldSessionsAreOver == AcctSpec => []OldSessionsEnd
  <1>1. IInv => OldSessionsEnd
    BY DEF IInv, SessionInv, OpenedInTime, Continues, OldSessionsEnd
  <1>2. QED
    BY <1>1, AccountInvariant, PTL

(* The token that a device keeps has not been spent, unless a connection   *)
(* was lost or a logout overlapped a refresh: whatever spends it is an     *)
(* answer that the device still waits for.                                 *)
THEOREM StoredTokenIsUsable == AcctSpec => []StoredIsUsable
  <1>1. IInv => StoredIsUsable
    <2> SUFFICES ASSUME IInv, NEW d \in Devices \ excused, store[d] # 0, Waits(d) = {}
                 PROVE  token[store[d]].state # "revoked"
      BY DEF StoredIsUsable
    <2>1. QED
      BY DEF IInv, SessionInv, Ownership, SpentIsKnown
  <1>2. QED
    BY <1>1, AccountInvariant, PTL

(* A device that is signed out leaves no usable token behind, with the same*)
(* exceptions: every live token is kept by its device or on its way to it. *)
THEOREM NothingIsLeftSignedIn == AcctSpec => []SignedOutLeavesNothing
  <1>1. IInv => SignedOutLeavesNothing
    <2> SUFFICES ASSUME IInv, NEW d \in Devices \ excused, account = "active", store[d] = 0,
                        Waits(d) = {}, NEW t \in Tokens, token[t].to = d, Live(t)
                 PROVE  FALSE
      BY DEF SignedOutLeavesNothing
    <2>1. store[d] = t \/ OnItsWay(d, t)
      BY DEF IInv, SessionInv, Reach, LiveIsReachable
    <2>2. t # 0
      BY SessionsAssumption DEF Tokens
    <2>3. QED
      BY <2>1, <2>2 DEF OnItsWay
  <1>2. QED
    BY <1>1, AccountInvariant, PTL

(* A deleted account has an active booking only for a vehicle inserted     *)
(* beside its deletion, although the check for bookings and the deletion   *)
(* are two steps and checkouts commit in between, during it and after it:  *)
(* the foreign key keeps the account, or refuses the booking.              *)
THEOREM DeletedHasNoBooking == AcctSpec => []NoBookingOfDeleted
  <1>1. IInv => NoBookingOfDeleted
    BY DEF IInv, Deletion, DataTypes, NoBookingOfDeleted, AccountDeleted, Vehicles
  <1>2. QED
    BY <1>1, AccountInvariant, PTL

(* Action property: a reset link changes the password once, also when two  *)
(* requests confirm it at the same time.                                   *)
THEOREM LinkIsUsedOnce == AcctSpec => LinkUsedOnce
  <1>1. IInv => \A c \in Calls : call[c].op = "reset" => call[c].arg \in link
    BY DEF IInv, SessionInv, LinksHeld
  <1>2. IInv => [\A c \in Calls :
                  call[c].op = "reset" /\ password' # password /\ call'[c].pc # call[c].pc
                  => call[c].arg \in link]_vars
    BY <1>1
  <1>3. QED
    BY <1>2, AccountInvariant, PTL DEF LinkUsedOnce
===============================================================================
