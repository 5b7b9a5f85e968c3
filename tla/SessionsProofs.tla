--------------------------- MODULE SessionsProofs ---------------------------
(***************************************************************************)
(* Sessions for every set of calls, browsers and tokens, and any number of *)
(* faults and changes.  The inductive invariant SessionInv adds to the     *)
(* properties what their proofs need: a token is issued before it is used  *)
(* for anything (Known), an exchanged token is dead (Spent), the head of a *)
(* family is issued (Heads), and what the two commands of a revocation     *)
(* know about the live tokens (Revoking, Revoked).                         *)
(*                                                                         *)
(* That a browser keeps its session (LogoutHasReason) rests on a second    *)
(* invariant, ClientInv: while a client has no reason to lose its session, *)
(* its token is its own, only its own single refresh presents it, and it   *)
(* is valid until that refresh has exchanged it for one on its way back.   *)
(***************************************************************************)
EXTENDS Sessions, TLAPS

\* The tokens that have been issued.
Issued == { j \in Tokens : family[j] # None }

\* Only issued tokens are live, indexed or about to be revoked.
Known == /\ live \subseteq Issued
         /\ index \subseteq Issued
         /\ \A p \in Calls : jtis[p] \subseteq Issued

\* A token that was exchanged had been issued and is not live.
Spent == \A j \in Tokens : parent[j] # None => parent[j] \in Issued \ live

\* A family is named by an issued token.
Heads == \A j \in Issued : family[j] \in Issued

\* Between SMEMBERS and DEL: a live token was read or has raced.
Revoking == \A p \in Calls : pc[p] = "del" => live \subseteq jtis[p] \cup raced

\* Between DEL and the UPDATE of the password: what was read is dead.
Revoked == \A p \in Calls : pc[p] = "save" => jtis[p] \cap live = {}

\* The invariants of the session store together.
Invariants ==
    /\ Known /\ Spent /\ Heads
    /\ ExchangedOnce /\ OneLivePerFamily
    /\ IndexComplete /\ Revoking /\ Revoked

\* The inductive invariant.
SessionInv == TypeOK /\ Invariants

(***************************************************************************)
(* Types                                                                   *)
(***************************************************************************)

\* The initial state has the types TypeOK gives: an account without sessions.
LEMMA InitTyped == Init => TypeOK
  BY ConstantsAssumption DEF Init, TypeOK, Steps, Ops

\* Starting a call, whichever the client starts, keeps the types.
LEMMA RequestTyped ==
  ASSUME TypeOK, NEW p \in Calls, NEW c \in Clients \cup {None}, NEW what \in Ops,
         NEW token \in Tokens \cup {None}, Request(p, c, what, token),
         stored' \in [Clients -> Tokens \cup {None}],
         flight' \in [Clients -> Calls \cup {None}],
         excused' \subseteq Clients, changes' \in 0..MaxChanges, faults' \in 0..MaxFaults
  PROVE  TypeOK'
<1>1. /\ pc' \in [Calls -> Steps] /\ op' \in [Calls -> Ops]
      /\ who' \in [Calls -> Clients \cup {None}] /\ guess' \in [Calls -> Nat]
      /\ old' \in [Calls -> Tokens \cup {None}]
  BY DEF TypeOK, Request, Goto, Steps
<1>2. UNCHANGED <<password, redisVars, jtis, result>>
  BY DEF Request
<1> QED BY <1>1, <1>2 DEF TypeOK, redisVars

\* Starting a call, answering it and every command of the server keep the types.
LEMMA StepTyped == TypeOK /\ [Next]_vars => TypeOK'
<1> SUFFICES ASSUME TypeOK, [Next]_vars PROVE TypeOK'
  OBVIOUS
<1> USE ConstantsAssumption
<1>1. ASSUME NEW p \in Calls, NEW c \in Clients, Login(p, c) PROVE TypeOK'
  <2>1. Request(p, c, "login", None) /\ UNCHANGED <<client, changes, faults>>
    BY <1>1 DEF Login
  <2>2. /\ stored' \in [Clients -> Tokens \cup {None}]
        /\ flight' \in [Clients -> Calls \cup {None}]
        /\ excused' \subseteq Clients
        /\ changes' \in 0..MaxChanges /\ faults' \in 0..MaxFaults
    BY <2>1 DEF TypeOK, client
  <2> QED BY <2>1, <2>2, RequestTyped DEF Ops
<1>2. ASSUME NEW p \in Calls, NEW c \in Clients, Unauthorized(p, c) PROVE TypeOK'
  <2>1. /\ Request(p, c, "refresh", stored[c]) /\ stored[c] \in Tokens
        /\ flight' = [flight EXCEPT ![c] = p] /\ UNCHANGED <<stored, excused, changes, faults>>
    BY <1>2 DEF Unauthorized, TypeOK
  <2>2. /\ stored' \in [Clients -> Tokens \cup {None}]
        /\ flight' \in [Clients -> Calls \cup {None}]
        /\ excused' \subseteq Clients
        /\ changes' \in 0..MaxChanges /\ faults' \in 0..MaxFaults
    BY <2>1 DEF TypeOK
  <2> QED BY <2>1, <2>2, RequestTyped DEF Ops
<1>3. ASSUME NEW p \in Calls, NEW j \in Tokens, SecondTab(p, j) PROVE TypeOK'
  <2>1. /\ Request(p, None, "refresh", j) /\ faults' \in 0..MaxFaults
        /\ excused' = Clients /\ UNCHANGED <<stored, flight, changes>>
    BY <1>3 DEF SecondTab, Fault, TypeOK
  <2>2. /\ stored' \in [Clients -> Tokens \cup {None}]
        /\ flight' \in [Clients -> Calls \cup {None}]
        /\ excused' \subseteq Clients
        /\ changes' \in 0..MaxChanges /\ faults' \in 0..MaxFaults
    BY <2>1 DEF TypeOK
  <2> QED BY <2>1, <2>2, RequestTyped DEF Ops
<1>4. ASSUME NEW p \in Calls, NEW c \in Clients, NEW what \in {"rename", "password"},
             Change(p, c, what)
      PROVE  TypeOK'
  <2>1. /\ Request(p, c, what, None) /\ changes' \in 0..MaxChanges
        /\ UNCHANGED <<client, faults>>
    BY <1>4 DEF Change, TypeOK
  <2>2. /\ stored' \in [Clients -> Tokens \cup {None}]
        /\ flight' \in [Clients -> Calls \cup {None}]
        /\ excused' \subseteq Clients
        /\ changes' \in 0..MaxChanges /\ faults' \in 0..MaxFaults
    BY <2>1 DEF TypeOK, client
  <2> QED BY <2>1, <2>2, RequestTyped DEF Ops
<1>5. ASSUME NEW p \in Calls, ServerStep(p) PROVE TypeOK'
  <2>1. CASE ReadUser(p)
    BY <2>1 DEF ReadUser, AfterRead, Answer, Goto, Steps, TypeOK, redisVars, args, client, Ops
  <2>2. CASE Store(p)
    BY <2>2 DEF Store, Fresh, Record, Answer, Goto, Steps, TypeOK, args, client
  <2>3. CASE Watch(p)
    BY <2>3 DEF Watch, Answer, Goto, Steps, TypeOK, redisVars, args, client
  <2>4. CASE Exec(p)
    <3>1. old[p] \in live => old[p] \in Tokens
      BY DEF TypeOK
    <3> QED BY <2>4, <3>1
            DEF Exec, Rotate, Fresh, Record, Answer, Goto, Steps, TypeOK, redisVars, args, client
  <2>5. CASE UpdateUsername(p)
    BY <2>5 DEF UpdateUsername, Answer, Goto, Steps, TypeOK, redisVars, args, client
  <2>6. CASE ReadIndex(p)
    BY <2>6 DEF ReadIndex, Goto, Steps, TypeOK, redisVars, args, client
  <2>7. CASE Del(p)
    BY <2>7 DEF Del, AfterRevoke, Goto, Steps, TypeOK, args
  <2>8. CASE SavePassword(p)
    BY <2>8 DEF SavePassword, Answer, Goto, Steps, TypeOK, redisVars, args, client
  <2> QED BY <1>5, <2>1, <2>2, <2>3, <2>4, <2>5, <2>6, <2>7, <2>8 DEF ServerStep
<1>6. ASSUME NEW p \in Calls, CommandFails(p) PROVE TypeOK'
  BY <1>6 DEF CommandFails, Fault, Answer, Goto, Steps, TypeOK, redisVars, args
<1>7. ASSUME NEW p \in Calls, Deliver(p) PROVE TypeOK'
  <2>1. Session(p) \in Tokens \cup {None}
    BY DEF Session, TypeOK
  <2>2. stored' \in [Clients -> Tokens \cup {None}]
    BY <1>7, <2>1 DEF Deliver, TypeOK
  <2>3. flight' \in [Clients -> Calls \cup {None}]
    BY <1>7 DEF Deliver, Settled, TypeOK
  <2>4. /\ pc' \in [Calls -> Steps] /\ op' \in [Calls -> Ops]
        /\ who' \in [Calls -> Clients \cup {None}] /\ guess' \in [Calls -> Nat]
        /\ old' \in [Calls -> Tokens \cup {None}]
        /\ jtis' \in [Calls -> SUBSET Tokens] /\ result' \in [Calls -> Tokens \cup {None, Saved}]
    BY <1>7 DEF Deliver, Ended, Goto, Steps, Ops, TypeOK
  <2> QED BY <1>7, <2>2, <2>3, <2>4 DEF Deliver, TypeOK, redisVars
<1>8. ASSUME NEW p \in Calls, GiveUp(p) PROVE TypeOK'
  <2>1. who[p] \in Clients
    BY <1>8 DEF GiveUp, TypeOK
  <2> QED BY <1>8, <2>1 DEF GiveUp, Fault, Settled, TypeOK, redisVars
<1>9. ASSUME NEW c \in Clients, Logout(c) PROVE TypeOK'
  BY <1>9 DEF Logout, TypeOK, redisVars, args
<1>10. ASSUME NEW j \in Tokens, Expire(j) PROVE TypeOK'
  BY <1>10 DEF Expire, Fault, TypeOK, args
<1>11. CASE UNCHANGED vars
  BY <1>11 DEF vars, TypeOK
<1> QED
  BY <1>1, <1>2, <1>3, <1>4, <1>5, <1>6, <1>7, <1>8, <1>9, <1>10, <1>11 DEF Next

(***************************************************************************)
(* Steps that leave the keys in Redis alone                                *)
(***************************************************************************)

\* No key changes, and no call enters the two windows of a revocation.
Quiet ==
    /\ UNCHANGED <<live, index, family, parent, raced>>
    /\ \A q \in Calls : jtis'[q] = jtis[q] \/ jtis'[q] = {}
    /\ \A q \in Calls : pc'[q] \in {"del", "save"} => pc'[q] = pc[q] /\ jtis'[q] = jtis[q]

\* A step outside Redis cannot disturb what is known about the tokens.
LEMMA QuietKeeps == Invariants /\ Quiet => Invariants'
<1> SUFFICES ASSUME Invariants, Quiet PROVE Invariants'
  OBVIOUS
<1>1. Issued' = Issued
  BY DEF Quiet, Issued
<1>2. Known' /\ Spent' /\ Heads'
  BY <1>1 DEF Invariants, Quiet, Known, Spent, Heads
<1>3. ExchangedOnce' /\ OneLivePerFamily' /\ IndexComplete'
  BY DEF Invariants, Quiet, ExchangedOnce, OneLivePerFamily, IndexComplete
<1>4. Revoking' /\ Revoked'
  BY DEF Invariants, Quiet, Revoking, Revoked
<1> QED BY <1>2, <1>3, <1>4 DEF Invariants

\* What the browser does, and what the server does in MySQL, is quiet.
LEMMA OutsideRedis ==
  ASSUME TypeOK, NEW p \in Calls,
         \/ \E c \in Clients : Login(p, c) \/ Unauthorized(p, c)
         \/ \E c \in Clients, what \in {"rename", "password"} : Change(p, c, what)
         \/ \E j \in Tokens : SecondTab(p, j)
         \/ ReadUser(p) \/ Watch(p) \/ UpdateUsername(p) \/ SavePassword(p)
         \/ CommandFails(p) \/ Deliver(p) \/ GiveUp(p)
  PROVE  Quiet
<1>1. ASSUME NEW c, NEW what, NEW token, Request(p, c, what, token) PROVE Quiet
  BY <1>1 DEF Request, Goto, Quiet, TypeOK, redisVars
<1>2. CASE \E c \in Clients : Login(p, c) \/ Unauthorized(p, c)
  BY <1>1, <1>2 DEF Login, Unauthorized
<1>3. CASE \E c \in Clients, what \in {"rename", "password"} : Change(p, c, what)
  BY <1>1, <1>3 DEF Change
<1>4. CASE \E j \in Tokens : SecondTab(p, j)
  BY <1>1, <1>4 DEF SecondTab
<1>5. CASE ReadUser(p)
  <2>1. AfterRead[op[p]] \in {"store", "watch", "update", "index"}
    BY DEF AfterRead, TypeOK, Ops
  <2> QED BY <1>5, <2>1 DEF ReadUser, Answer, Goto, Quiet, TypeOK, redisVars
<1>6. CASE Watch(p) \/ UpdateUsername(p) \/ SavePassword(p) \/ CommandFails(p)
  BY <1>6 DEF Watch, UpdateUsername, SavePassword, CommandFails, Answer, Goto, Quiet, TypeOK,
              redisVars
<1>7. CASE Deliver(p)
  BY <1>7 DEF Deliver, Ended, Goto, Quiet, TypeOK, redisVars
<1>8. CASE GiveUp(p)
  BY <1>8 DEF GiveUp, Quiet, redisVars
<1> QED BY <1>2, <1>3, <1>4, <1>5, <1>6, <1>7, <1>8

(***************************************************************************)
(* Steps that change the keys                                              *)
(***************************************************************************)

\* A new token becomes live and indexed, in the family f; the token gone, if
\* there is one, was exchanged for it.
Issue(p, j, gone, f) ==
    /\ j \in Tokens /\ family[j] = None
    /\ live' = (live \ gone) \cup {j}
    /\ index' = (index \ gone) \cup {j}
    /\ family' = [family EXCEPT ![j] = f]
    /\ Record(j)
    /\ pc' = [pc EXCEPT ![p] = "answer"]
    /\ jtis' = jtis

\* Storing or rotating keeps the invariants: the new token is fresh, so no
\* revocation has read it, and the old one was live, so nobody exchanged it.
LEMMA IssueKeeps ==
  ASSUME TypeOK, Invariants, NEW p \in Calls, NEW j, NEW f, NEW gone, Issue(p, j, gone, f),
         \/ gone = {} /\ f = j /\ parent' = parent
         \/ \E o \in live : gone = {o} /\ f = family[o] /\ parent' = [parent EXCEPT ![j] = o]
  PROVE  Invariants'
<1> USE ConstantsAssumption
<1>1. /\ Issued' = Issued \cup {j} /\ j \notin Issued /\ j \in Tokens
      /\ j \notin live /\ j # None
  <2>1. j \in Tokens /\ j # None /\ j \notin Issued
    BY DEF Issue, Issued
  <2>2. f # None
    BY <2>1 DEF Invariants, Known, Issued
  <2>3. family' = [family EXCEPT ![j] = f]
    BY DEF Issue
  <2>4. Issued' = Issued \cup {j}
    BY <2>1, <2>2, <2>3 DEF Issued, TypeOK
  <2> QED BY <2>1, <2>4 DEF Invariants, Known
<1>2. Known'
  BY <1>1 DEF Invariants, Known, Issue
<1>3. Heads'
  <2>1. f \in Issued \cup {j}
    BY DEF Invariants, Heads, Known
  <2>2. \A k \in Issued : k # j /\ family'[k] = family[k]
    BY <1>1 DEF Issue, Issued, TypeOK
  <2>3. family'[j] = f
    BY <1>1 DEF Issue, TypeOK
  <2> QED BY <1>1, <2>1, <2>2, <2>3 DEF Invariants, Heads
<1>4. Spent' /\ ExchangedOnce'
  <2>1. CASE gone = {} /\ f = j /\ parent' = parent
    BY <1>1, <2>1 DEF Invariants, Spent, ExchangedOnce, Issue
  <2>2. ASSUME NEW o \in live, gone = {o}, parent' = [parent EXCEPT ![j] = o]
        PROVE  Spent' /\ ExchangedOnce'
    <3>1. o \in Issued /\ o # j
      BY <1>1 DEF Invariants, Known
    <3>2. \A k \in Tokens : parent[k] # None => parent[k] # o /\ parent[k] # j
      BY <1>1 DEF Invariants, Spent
    <3>3. \A k \in Tokens : parent'[k] = IF k = j THEN o ELSE parent[k]
      BY <2>2 DEF TypeOK
    <3>4. live' = (live \ {o}) \cup {j}
      BY <2>2 DEF Issue
    <3>5. Spent'
      BY <1>1, <3>1, <3>2, <3>3, <3>4 DEF Invariants, Spent
    <3>6. ExchangedOnce'
      BY <3>2, <3>3 DEF Invariants, ExchangedOnce
    <3> QED BY <3>5, <3>6
  <2> QED BY <2>1, <2>2
<1>5. OneLivePerFamily'
  <2>1. \A k \in live : k # j /\ family'[k] = family[k]
    BY <1>1 DEF Issue, TypeOK
  <2>2. family'[j] = f
    BY <1>1 DEF Issue, TypeOK
  <2>3. \A k \in live \ gone : family[k] # f
    <3>1. CASE gone = {} /\ f = j
      BY <1>1, <3>1 DEF Invariants, Heads, Known
    <3>2. CASE \E o \in live : gone = {o} /\ f = family[o]
      BY <3>2 DEF Invariants, OneLivePerFamily
    <3> QED BY <3>1, <3>2
  <2> QED BY <2>1, <2>2, <2>3 DEF Invariants, OneLivePerFamily, Issue
<1>6. IndexComplete'
  BY DEF Invariants, IndexComplete, Issue, Record
<1>7. Revoking' /\ Revoked'
  <2>1. ASSUME NEW q \in Calls, pc'[q] = "del" PROVE live' \subseteq jtis'[q] \cup raced'
    <3>1. pc[q] = "del"
      BY <2>1 DEF Issue, TypeOK
    <3>2. raced' = raced \cup {j}
      BY <3>1 DEF Issue, Record
    <3> QED BY <3>1, <3>2 DEF Invariants, Revoking, Issue
  <2>2. ASSUME NEW q \in Calls, pc'[q] = "save" PROVE jtis'[q] \cap live' = {}
    <3>1. pc[q] = "save" /\ jtis[q] \subseteq Issued
      BY <2>2 DEF Issue, TypeOK, Invariants, Known
    <3> QED BY <1>1, <3>1 DEF Invariants, Revoked, Issue
  <2> QED BY <2>1, <2>2 DEF Revoking, Revoked
<1> QED BY <1>2, <1>3, <1>4, <1>5, <1>6, <1>7 DEF Invariants

\* SMEMBERS reads every live token that did not race.
LEMMA ReadIndexKeeps ==
  ASSUME TypeOK, Invariants, NEW p \in Calls, ReadIndex(p) PROVE Invariants'
<1>1. /\ UNCHANGED <<live, index, family, parent, raced>>
      /\ jtis' = [jtis EXCEPT ![p] = index] /\ pc' = [pc EXCEPT ![p] = "del"]
  BY DEF ReadIndex, Goto, redisVars
<1>2. Issued' = Issued
  BY <1>1 DEF Issued
<1>3. Known' /\ Spent' /\ Heads'
  BY <1>1, <1>2 DEF Invariants, Known, Spent, Heads, TypeOK
<1>4. ExchangedOnce' /\ OneLivePerFamily' /\ IndexComplete'
  BY <1>1 DEF Invariants, ExchangedOnce, OneLivePerFamily, IndexComplete
<1>5. Revoking' /\ Revoked'
  BY <1>1 DEF Invariants, Revoking, Revoked, IndexComplete, TypeOK
<1> QED BY <1>3, <1>4, <1>5 DEF Invariants

\* Tokens that die, by a revocation or their TTL, endanger nothing; the index
\* may go as far as every live token has raced.
LEMMA DeathKeeps ==
  ASSUME Invariants, live' \subseteq live, index' \subseteq index,
         live' \subseteq index' \cup raced,
         UNCHANGED <<family, parent, raced, jtis>>,
         \A q \in Calls : pc'[q] = "del" => pc[q] = "del",
         \A q \in Calls : pc'[q] = "save" => pc[q] = "save" \/ jtis[q] \cap live' = {}
  PROVE  Invariants'
<1>1. Issued' = Issued
  BY DEF Issued
<1>2. Known' /\ Spent' /\ Heads'
  BY <1>1 DEF Invariants, Known, Spent, Heads
<1>3. ExchangedOnce' /\ OneLivePerFamily' /\ IndexComplete'
  BY DEF Invariants, ExchangedOnce, OneLivePerFamily, IndexComplete
<1>4. Revoking'
  BY DEF Invariants, Revoking
<1>5. Revoked'
  BY DEF Invariants, Revoked
<1> QED BY <1>2, <1>3, <1>4, <1>5 DEF Invariants

\* Every step keeps the invariant.
LEMMA StepKeeps == SessionInv /\ [Next]_vars => SessionInv'
<1> SUFFICES ASSUME TypeOK, Invariants, [Next]_vars PROVE SessionInv'
  BY DEF SessionInv
<1>1. TypeOK'
  BY StepTyped
<1>2. ASSUME NEW p \in Calls,
             \/ \E c \in Clients : Login(p, c) \/ Unauthorized(p, c)
             \/ \E c \in Clients, what \in {"rename", "password"} : Change(p, c, what)
             \/ \E j \in Tokens : SecondTab(p, j)
             \/ ReadUser(p) \/ Watch(p) \/ UpdateUsername(p) \/ SavePassword(p)
             \/ CommandFails(p) \/ Deliver(p) \/ GiveUp(p)
      PROVE  Invariants'
  BY <1>2, OutsideRedis, QuietKeeps
<1>3. ASSUME NEW p \in Calls, Store(p) PROVE Invariants'
  <2>1. PICK j \in Fresh : Issue(p, j, {}, j) /\ parent' = parent
    BY <1>3 DEF Store, Fresh, Answer, Goto, Issue
  <2> QED BY <2>1, IssueKeeps
<1>4. ASSUME NEW p \in Calls, Exec(p) PROVE Invariants'
  <2>1. CASE old[p] \in live
    <3>1. PICK j \in Fresh : /\ Issue(p, j, {old[p]}, family[old[p]])
                             /\ parent' = [parent EXCEPT ![j] = old[p]]
      BY <1>4, <2>1 DEF Exec, Rotate, Fresh, Answer, Goto, Issue
    <3> QED BY <2>1, <3>1, IssueKeeps
  <2>2. CASE old[p] \notin live
    <3>1. Quiet
      BY <1>4, <2>2 DEF Exec, Answer, Goto, Quiet, TypeOK, redisVars
    <3> QED BY <3>1, QuietKeeps
  <2> QED BY <2>1, <2>2
<1>5. ASSUME NEW p \in Calls, ReadIndex(p) PROVE Invariants'
  BY <1>5, ReadIndexKeeps
<1>6. ASSUME NEW p \in Calls, Del(p) PROVE Invariants'
  <2>1. live' = live \ jtis[p] /\ index' = {} /\ UNCHANGED <<family, parent, raced, jtis>>
    BY <1>6 DEF Del
  <2>2. live \subseteq jtis[p] \cup raced
    BY <1>6 DEF Del, Invariants, Revoking
  <2>3. \A q \in Calls : /\ pc'[q] = "del" => pc[q] = "del"
                         /\ pc'[q] = "save" => pc[q] = "save" \/ q = p
    BY <1>6 DEF Del, AfterRevoke, Goto, TypeOK
  <2> QED BY <2>1, <2>2, <2>3, DeathKeeps
<1>7. ASSUME NEW j \in Tokens, Expire(j) PROVE Invariants'
  <2>1. live' = live \ {j} /\ UNCHANGED <<index, family, parent, raced, jtis, pc>>
    BY <1>7 DEF Expire
  <2>2. live' \subseteq index' \cup raced
    BY <2>1 DEF Invariants, IndexComplete
  <2> QED BY <2>1, <2>2, DeathKeeps
<1>8. ASSUME \/ \E c \in Clients : Logout(c)
             \/ UNCHANGED vars
      PROVE  Invariants'
  <2>1. Quiet
    BY <1>8 DEF Logout, vars, redisVars, Quiet
  <2> QED BY <2>1, QuietKeeps
<1>9. Invariants'
  BY <1>2, <1>3, <1>4, <1>5, <1>6, <1>7, <1>8 DEF Next, ServerStep
<1> QED BY <1>1, <1>9 DEF SessionInv

\* The inductive invariant holds in every behaviour.
THEOREM SessionsSafe == Spec => []SessionInv
<1>1. Init => SessionInv
  <2> SUFFICES ASSUME Init PROVE SessionInv
    OBVIOUS
  <2>1. TypeOK
    BY InitTyped
  <2>2. Known /\ Spent /\ Heads /\ Revoking /\ Revoked
    BY DEF Init, Known, Spent, Heads, Issued, Revoking, Revoked
  <2>3. ExchangedOnce /\ OneLivePerFamily /\ IndexComplete
    BY DEF Init, ExchangedOnce, OneLivePerFamily, IndexComplete
  <2> QED BY <2>1, <2>2, <2>3 DEF SessionInv, Invariants
<1>2. SessionInv /\ [Next]_vars => SessionInv'
  BY StepKeeps
<1> QED BY <1>1, <1>2, PTL DEF Spec

\* The types of TypeOK hold for every number of calls, tokens and faults.
THEOREM TypesHold == Spec => []TypeOK
<1>1. SessionInv => TypeOK
  BY DEF SessionInv
<1> QED BY <1>1, SessionsSafe, PTL

\* RotateRefreshSession hands out one successor per refresh token, however
\* many requests present the token at once and whatever revocations meet them.
THEOREM TokensExchangedOnce == Spec => []ExchangedOnce
<1>1. SessionInv => ExchangedOnce
  BY DEF SessionInv, Invariants
<1> QED BY <1>1, SessionsSafe, PTL

\* No interleaving of logins, rotations and revocations leaves a family of
\* refresh tokens with two live members.
THEOREM FamiliesDoNotFork == Spec => []OneLivePerFamily
<1>1. SessionInv => OneLivePerFamily
  BY DEF SessionInv, Invariants
<1> QED BY <1>1, SessionsSafe, PTL

\* RevokeUserRefreshSessions finds every live token in the index, but for the
\* ones stored between its own SMEMBERS and DEL or another revocation's.
THEOREM IndexFindsTokens == Spec => []IndexComplete
<1>1. SessionInv => IndexComplete
  BY DEF SessionInv, Invariants
<1> QED BY <1>1, SessionsSafe, PTL

\* UpdatePassword makes the new password valid only when all the tokens its
\* revocation has read are dead.
THEOREM SavedAfterRevoked == Spec => RevokedBeforeSaved
<1>1. SessionInv /\ [Next]_vars =>
        [password' # password =>
           \E p \in Calls : pc[p] = "save" /\ jtis[p] \cap live = {}]_vars
  <2> SUFFICES ASSUME SessionInv, [Next]_vars, password' # password
               PROVE  \E p \in Calls : pc[p] = "save" /\ jtis[p] \cap live = {}
    OBVIOUS
  <2>1. PICK p \in Calls : SavePassword(p)
    BY DEF Next, vars, ServerStep, Login, Unauthorized, SecondTab, Change, Request, ReadUser,
           Store, Watch, Exec, UpdateUsername, ReadIndex, Del, CommandFails, Deliver, GiveUp,
           Logout, Expire
  <2>2. pc[p] = "save"
    BY <2>1 DEF SavePassword
  <2> QED BY <2>2 DEF SessionInv, Invariants, Revoked
<1> QED BY <1>1, SessionsSafe, PTL DEF Spec, RevokedBeforeSaved

(***************************************************************************)
(* The browser                                                             *)
(***************************************************************************)

\* A step of one call that keeps it running, for the same client, keeps every
\* promise.
LEMMA PromiseKept ==
  ASSUME TypeOK, PromiseCurrent, NEW p \in Calls, UNCHANGED <<op, who, flight>>,
         \A q \in Calls : pc'[q] = "idle" => pc[q] = "idle"
  PROVE  PromiseCurrent'
BY DEF PromiseCurrent, TypeOK

\* A call that starts is nobody's promise yet.
LEMMA PromiseStarts ==
  ASSUME TypeOK, PromiseCurrent, NEW p \in Calls, NEW b \in Clients \cup {None}, NEW what \in Ops,
         NEW token, Request(p, b, what, token),
         flight' = flight \/ (what = "refresh" /\ b # None /\ flight' = [flight EXCEPT ![b] = p])
  PROVE  PromiseCurrent'
<1> SUFFICES ASSUME NEW c \in Clients, flight'[c] # None
             PROVE  /\ who'[flight'[c]] = c /\ op'[flight'[c]] = "refresh"
                    /\ pc'[flight'[c]] # "idle"
  BY DEF PromiseCurrent
<1>1. /\ pc[p] = "idle" /\ pc' = [pc EXCEPT ![p] = "read"]
      /\ op' = [op EXCEPT ![p] = what] /\ who' = [who EXCEPT ![p] = b]
  BY DEF Request, Goto
<1>2. CASE flight'[c] = flight[c]
  <2>1. /\ flight[c] \in Calls /\ who[flight[c]] = c /\ op[flight[c]] = "refresh"
        /\ pc[flight[c]] # "idle"
    BY <1>2 DEF PromiseCurrent, TypeOK
  <2>2. flight[c] # p
    BY <1>1, <2>1
  <2> QED BY <1>1, <1>2, <2>1, <2>2 DEF TypeOK
<1>3. CASE flight'[c] # flight[c]
  <2>1. what = "refresh" /\ c = b /\ flight'[c] = p
    BY <1>3 DEF TypeOK
  <2> QED BY <1>1, <2>1 DEF TypeOK
<1> QED BY <1>2, <1>3

\* A call that ends, or that its client gives up, is nobody's promise any more.
LEMMA PromiseSettled ==
  ASSUME TypeOK, PromiseCurrent, NEW p \in Calls, Settled(p),
         \A q \in Calls \ {p} : pc'[q] = pc[q] /\ op'[q] = op[q] /\ who'[q] = who[q]
  PROVE  PromiseCurrent'
<1>1. \A c \in Clients : flight'[c] # None => flight'[c] = flight[c] /\ flight[c] # p
  BY DEF Settled, TypeOK
<1> QED BY <1>1 DEF PromiseCurrent, TypeOK

\* refreshPromise always stands for a refresh of this client that still runs.
THEOREM PromisesCurrent == Spec => []PromiseCurrent
<1>1. Init => PromiseCurrent
  BY DEF Init, PromiseCurrent
<1>2. TypeOK /\ PromiseCurrent /\ [Next]_vars => PromiseCurrent'
  <2> SUFFICES ASSUME TypeOK, PromiseCurrent, [Next]_vars PROVE PromiseCurrent'
    OBVIOUS
  <2>1. ASSUME NEW p \in Calls, NEW c \in Clients, Login(p, c) PROVE PromiseCurrent'
    BY <2>1, PromiseStarts DEF Login, client, Ops
  <2>2. ASSUME NEW p \in Calls, NEW c \in Clients, Unauthorized(p, c) PROVE PromiseCurrent'
    <3>1. c # None
      BY ConstantsAssumption
    <3> QED BY <2>2, <3>1, PromiseStarts DEF Unauthorized, Ops
  <2>3. ASSUME NEW p \in Calls, NEW c \in Clients, NEW what \in {"rename", "password"},
               Change(p, c, what)
        PROVE  PromiseCurrent'
    BY <2>3, PromiseStarts DEF Change, client, Ops
  <2>4. ASSUME NEW p \in Calls, NEW j \in Tokens, SecondTab(p, j) PROVE PromiseCurrent'
    BY <2>4, PromiseStarts DEF SecondTab, Ops
  <2>5. ASSUME NEW p \in Calls, ServerStep(p) \/ CommandFails(p) PROVE PromiseCurrent'
    <3>1. UNCHANGED <<op, who, flight>>
      BY <2>5 DEF ServerStep, ReadUser, Store, Watch, Exec, UpdateUsername, ReadIndex, Del,
                  SavePassword, CommandFails, args, client
    <3>2. \E step \in Steps \ {"idle"} : pc' = [pc EXCEPT ![p] = step]
      <4>1. AfterRead[op[p]] \in Steps \ {"idle"}
        BY DEF AfterRead, TypeOK, Ops, Steps
      <4> QED BY <2>5, <4>1
              DEF ServerStep, ReadUser, Store, Watch, Exec, Rotate, UpdateUsername, ReadIndex, Del,
                  AfterRevoke, SavePassword, CommandFails, Answer, Goto, Steps
    <3>3. \A q \in Calls : pc'[q] = "idle" => pc[q] = "idle"
      BY <3>2 DEF TypeOK
    <3> QED BY <3>1, <3>3, PromiseKept
  <2>6. ASSUME NEW p \in Calls, Deliver(p) \/ GiveUp(p) PROVE PromiseCurrent'
    <3>1. /\ Settled(p)
          /\ \A q \in Calls \ {p} : pc'[q] = pc[q] /\ op'[q] = op[q] /\ who'[q] = who[q]
      BY <2>6 DEF Deliver, GiveUp, Ended, Goto, TypeOK
    <3> QED BY <3>1, PromiseSettled
  <2>7. ASSUME (\E c \in Clients : Logout(c)) \/ (\E j \in Tokens : Expire(j)) \/ UNCHANGED vars
        PROVE  PromiseCurrent'
    BY <2>7 DEF Logout, Expire, vars, args, PromiseCurrent
  <2> QED BY <2>1, <2>2, <2>3, <2>4, <2>5, <2>6, <2>7 DEF Next
<1> QED BY <1>1, <1>2, TypesHold, PTL DEF Spec

(***************************************************************************)
(* The session of a client                                                 *)
(***************************************************************************)

\* A call answers once, presents a token exactly if it refreshes, and has nothing
\* left when it is over.
CallForm(p) ==
    /\ pc[p] # "answer" => result[p] = None
    /\ pc[p] = "idle" => who[p] = None /\ old[p] = None
    /\ op[p] = "refresh" <=> old[p] # None
    /\ op[p] = "refresh" => pc[p] \in {"read", "watch", "exec", "answer"}
    /\ pc[p] \in {"watch", "exec"} => op[p] = "refresh"
    /\ old[p] \in Issued \cup {None} /\ result[p] \in Issued \cup {None, Saved}

\* The refresh of a client is the one behind its promise.
OneFlight(p) == \A c \in Clients : who[p] = c /\ op[p] = "refresh" => flight[c] = p

\* Every client has a reason to lose its session.
AllExcused == Clients \subseteq excused

\* A rename or a change of the password has revoked the sessions when it goes on.
Revokes(p) ==
    \/ pc[p] = "save" \/ result[p] = Saved
    \/ op[p] = "rename" /\ (pc[p] = "store" \/ result[p] # None)

\* What is known of every call.
FormInv(p) == CallForm(p) /\ OneFlight(p) /\ (Revokes(p) => AllExcused)

\* A token that is still on its way to a client is nobody else's.
Unsent(p) ==
    result[p] \in Tokens =>
        /\ \A c \in Clients : stored[c] # result[p]
        /\ \A q \in Calls : old[q] # result[p] /\ (q # p => result[q] # result[p])

\* What call p of client c holds: the new token is valid; the one presented is
\* presented by p alone and valid until p has exchanged it.
Presents(p, c) ==
    /\ result[p] # None => result[p] \in live
    /\ old[p] # None => /\ \A q \in Calls : old[q] = old[p] => q = p
                        /\ \A d \in Clients \ {c} : stored[d] # old[p]
                        /\ pc[p] = "answer" => result[p] # None
                        /\ pc[p] # "answer" => old[p] \in live

\* What client c holds: a token of its own, which only its own refresh presents,
\* and which is valid until that refresh has exchanged it.
Owns(c) ==
    stored[c] # None =>
        /\ \A d \in Clients \ {c} : stored[d] # stored[c]
        /\ \A q \in Calls : old[q] = stored[c] => who[q] = c
        /\ \/ stored[c] \in live
           \/ \E q \in Calls : old[q] = stored[c] /\ pc[q] = "answer"

\* The session of a client without an excuse.
SessionOf(c) == c \notin excused => Owns(c) /\ \A p \in Calls : who[p] = c => Presents(p, c)

\* The inductive invariant of the clients' sessions.
ClientInv ==
    /\ \A c \in Clients : stored[c] \in Issued \cup {None}
    /\ \A p \in Calls : FormInv(p)
    /\ AllExcused \/ \A p \in Calls : Unsent(p)
    /\ \A c \in Clients : SessionOf(c)

\* Tokens stay issued.
LEMMA IssuedStays ==
  ASSUME SessionInv, Next
  PROVE  Issued \subseteq Issued'
<1>0. family \in [Tokens -> Tokens \cup {None}] /\ live \subseteq Issued
  BY DEF SessionInv, Invariants, TypeOK, Known
<1>1. ASSUME NEW p \in Calls, Store(p) \/ Exec(p) PROVE Issued \subseteq Issued'
  BY <1>0, <1>1, ConstantsAssumption DEF Store, Exec, Rotate, Fresh, Issued, redisVars
<1>2. ASSUME ~ \E p \in Calls : Store(p) \/ Exec(p) PROVE family' = family
  BY <1>2 DEF Next, Login, Unauthorized, Change, SecondTab, Request, ServerStep, ReadUser, Watch,
     UpdateUsername, ReadIndex, Del, SavePassword, CommandFails, Deliver, GiveUp, Logout, Expire,
     redisVars
<1> QED BY <1>1, <1>2 DEF Issued

\* The server works on call p, whose client does nothing.
Runs(p) ==
    /\ pc[p] \notin {"idle", "answer"}
    /\ \A q \in Calls \ {p} : pc'[q] = pc[q] /\ result'[q] = result[q]
    /\ pc'[p] \in Steps \ {"idle"}
    /\ pc'[p] # "answer" => result'[p] = result[p]
    /\ UNCHANGED <<op, who, old, stored, flight>>
    /\ excused' = excused \/ excused' = Clients

\* ... and leaves the sessions alone, answers an error, or issues a token, against
\* the one presented if there is one.
Continues(p) == pc'[p] # "answer" /\ live' = live

Declines(p) ==
    /\ pc'[p] = "answer" /\ result'[p] = None /\ live' = live
    /\ old[p] = None \/ old[p] \notin live

Issues(p, j) ==
    /\ pc'[p] = "answer" /\ result'[p] = j
    /\ live' = (live \ {old[p]}) \cup {j}

\* What a step of the server does to its call.
LEMMA ServerForm ==
  ASSUME SessionInv, ClientInv, NEW p \in Calls, ServerStep(p) \/ CommandFails(p)
  PROVE  /\ Runs(p)
         /\ op[p] = "refresh" => pc'[p] \in {"watch", "exec", "answer"}
         /\ pc'[p] \in {"watch", "exec"} => op[p] = "refresh"
         /\ result'[p] \in Issued' \cup {None, Saved}
         /\ Revokes(p)' => AllExcused'
         /\ AllExcused' \/ Continues(p) \/ Declines(p) \/ \E j \in Fresh : Issues(p, j)
<1>0. /\ TypeOK /\ CallForm(p) /\ (Revokes(p) => AllExcused)
      /\ live \subseteq Issued
  BY DEF SessionInv, Invariants, Known, ClientInv, FormInv
<1>1. /\ pc \in [Calls -> Steps] /\ result \in [Calls -> Tokens \cup {None, Saved}]
      /\ op[p] \in Ops /\ excused \subseteq Clients
  BY <1>0 DEF TypeOK
<1>2. Saved # None
  BY ConstantsAssumption DEF Saved
<1>3. CASE ReadUser(p)
  <2>1. AfterRead[op[p]] \in Steps \ {"idle", "answer", "save", "exec"}
        /\ (op[p] = "refresh" <=> AfterRead[op[p]] = "watch")
        /\ (op[p] = "rename" => AfterRead[op[p]] # "store")
    BY <1>1 DEF AfterRead, Ops, Steps
  <2>2. \/ pc' = [pc EXCEPT ![p] = AfterRead[op[p]]] /\ result' = result
        \/ /\ pc' = [pc EXCEPT ![p] = "answer"] /\ result' = [result EXCEPT ![p] = None]
           /\ op[p] # "refresh"
    BY <1>3 DEF ReadUser, Answer, Goto
  <2>3. pc[p] = "read" /\ UNCHANGED <<live, family, op, who, old, stored, flight, excused>>
    BY <1>3 DEF ReadUser, redisVars, args, client
  <2>4. result[p] = None /\ (op[p] # "refresh" => old[p] = None)
    BY <1>0, <2>3 DEF CallForm
  <2> QED BY <1>1, <1>2, <2>1, <2>2, <2>3, <2>4 DEF Runs, Continues, Declines, Revokes, Steps
<1>4. CASE Store(p)
  <2>1. PICK j \in Fresh : /\ live' = live \cup {j} /\ family' = [family EXCEPT ![j] = j]
                           /\ pc' = [pc EXCEPT ![p] = "answer"]
                           /\ result' = [result EXCEPT ![p] = j]
    BY <1>4 DEF Store, Answer, Goto
  <2>2. pc[p] = "store" /\ UNCHANGED <<op, who, old, stored, flight, excused>>
    BY <1>4 DEF Store, args, client
  <2>3. old[p] = None /\ op[p] # "refresh" /\ None \notin live /\ j \in Tokens
    BY <1>0, <2>1, <2>2, ConstantsAssumption DEF CallForm, Issued, Fresh
  <2>4. j \in Issued' /\ j # Saved
    BY <1>0, <2>1, <2>3, ConstantsAssumption DEF Issued, Saved, TypeOK
  <2>5. pc'[p] = "answer" /\ result'[p] = j
    BY <1>1, <2>1
  <2>6. Runs(p)
    BY <1>1, <1>2, <2>1, <2>2, <2>5 DEF Runs, Steps
  <2>7. Issues(p, j)
    BY <2>1, <2>3, <2>5 DEF Issues
  <2>8. Revokes(p)' => AllExcused'
    BY <1>0, <2>2, <2>4, <2>5 DEF Revokes, AllExcused
  <2> QED BY <2>1, <2>3, <2>4, <2>5, <2>6, <2>7, <2>8
<1>5. CASE Watch(p)
  <2>1. \/ pc' = [pc EXCEPT ![p] = "exec"] /\ result' = result
        \/ /\ pc' = [pc EXCEPT ![p] = "answer"] /\ result' = [result EXCEPT ![p] = None]
           /\ old[p] \notin live
    BY <1>5 DEF Watch, Answer, Goto
  <2>2. pc[p] = "watch" /\ UNCHANGED <<live, family, op, who, old, stored, flight, excused>>
    BY <1>5 DEF Watch, redisVars, args, client
  <2>3. result[p] = None /\ op[p] = "refresh"
    BY <1>0, <2>2 DEF CallForm
  <2> QED BY <1>1, <1>2, <2>1, <2>2, <2>3 DEF Runs, Continues, Declines, Revokes, Steps
<1>6. CASE Exec(p)
  <2>1. pc[p] = "exec" /\ UNCHANGED <<op, who, old, stored, flight, excused>>
    BY <1>6 DEF Exec, args, client
  <2>2. result[p] = None /\ op[p] = "refresh"
    BY <1>0, <2>1 DEF CallForm
  <2>3. CASE old[p] \notin live
    <3>1. /\ live' = live /\ pc' = [pc EXCEPT ![p] = "answer"]
          /\ result' = [result EXCEPT ![p] = None]
      BY <1>6, <2>3 DEF Exec, Answer, Goto, redisVars
    <3> QED BY <1>1, <1>2, <2>1, <2>2, <2>3, <3>1 DEF Runs, Declines, Revokes, Steps
  <2>4. CASE old[p] \in live
    <3>1. PICK j \in Fresh : /\ live' = (live \ {old[p]}) \cup {j}
                             /\ family' = [family EXCEPT ![j] = family[old[p]]]
                             /\ pc' = [pc EXCEPT ![p] = "answer"]
                             /\ result' = [result EXCEPT ![p] = j]
      BY <1>6, <2>4 DEF Exec, Rotate, Answer, Goto
    <3>2. j \in Issued' /\ j # Saved
      BY <1>0, <2>4, <3>1, ConstantsAssumption DEF Issued, Saved, TypeOK, Fresh
    <3>3. pc'[p] = "answer" /\ result'[p] = j
      BY <1>1, <3>1
    <3>4. Runs(p)
      BY <1>1, <2>1, <3>1, <3>3 DEF Runs, Steps
    <3>5. ~ Revokes(p)'
      BY <2>1, <2>2, <3>2, <3>3 DEF Revokes
    <3> QED BY <2>2, <3>1, <3>2, <3>3, <3>4, <3>5 DEF Issues
  <2> QED BY <2>3, <2>4
<1>7. CASE UpdateUsername(p)
  <2>1. \/ pc' = [pc EXCEPT ![p] = "index"] /\ result' = result
        \/ pc' = [pc EXCEPT ![p] = "answer"] /\ result' = [result EXCEPT ![p] = None]
    BY <1>7 DEF UpdateUsername, Answer, Goto
  <2>2. pc[p] = "update" /\ UNCHANGED <<live, family, op, who, old, stored, flight, excused>>
    BY <1>7 DEF UpdateUsername, redisVars, args, client
  <2>3. result[p] = None /\ op[p] # "refresh" /\ old[p] = None
    BY <1>0, <2>2 DEF CallForm
  <2> QED BY <1>1, <1>2, <2>1, <2>2, <2>3 DEF Runs, Continues, Declines, Revokes, Steps
<1>8. CASE ReadIndex(p)
  <2>1. /\ pc[p] = "index" /\ pc' = [pc EXCEPT ![p] = "del"] /\ result' = result
        /\ UNCHANGED <<live, family, op, who, old, stored, flight, excused>>
    BY <1>8 DEF ReadIndex, Goto, redisVars, args, client
  <2>2. result[p] = None /\ op[p] # "refresh"
    BY <1>0, <2>1 DEF CallForm
  <2> QED BY <1>1, <1>2, <2>1, <2>2 DEF Runs, Continues, Revokes, Steps
<1>9. CASE Del(p)
  <2>1. /\ pc[p] = "del" /\ pc' = [pc EXCEPT ![p] = AfterRevoke(p)] /\ result' = result
        /\ UNCHANGED <<family, op, who, old, stored, flight>> /\ excused' = Clients
    BY <1>9 DEF Del, Goto, args
  <2>2. result[p] = None /\ op[p] # "refresh" /\ AfterRevoke(p) \in {"store", "save"}
    BY <1>0, <2>1 DEF CallForm, AfterRevoke
  <2> QED BY <1>1, <1>2, <2>1, <2>2 DEF Runs, AllExcused, Steps
<1>10. CASE SavePassword(p)
  <2>1. /\ pc[p] = "save" /\ pc' = [pc EXCEPT ![p] = "answer"]
        /\ result' = [result EXCEPT ![p] = Saved]
        /\ UNCHANGED <<family, op, who, old, stored, flight, excused>>
    BY <1>10 DEF SavePassword, Answer, Goto, redisVars, args, client
  <2>2. AllExcused'
    BY <1>0, <2>1 DEF Revokes, AllExcused
  <2>3. op[p] # "refresh"
    BY <1>0, <2>1 DEF CallForm
  <2> QED BY <1>1, <1>2, <2>1, <2>2, <2>3 DEF Runs, Steps
<1>11. CASE CommandFails(p)
  <2>1. /\ pc[p] \notin {"idle", "answer"} /\ pc' = [pc EXCEPT ![p] = "answer"]
        /\ result' = [result EXCEPT ![p] = None]
        /\ UNCHANGED <<family, op, who, old, stored, flight>> /\ excused' = Clients
    BY <1>11 DEF CommandFails, Answer, Goto, redisVars, args
  <2> QED BY <1>1, <2>1 DEF Runs, AllExcused, Steps
<1> QED BY <1>3, <1>4, <1>5, <1>6, <1>7, <1>8, <1>9, <1>10, <1>11 DEF ServerStep

\* The form of a call that a step leaves alone.
LEMMA FormStays ==
  ASSUME NEW q \in Calls, FormInv(q), Issued \subseteq Issued', excused \subseteq excused',
         pc'[q] = pc[q], op'[q] = op[q], who'[q] = who[q], old'[q] = old[q],
         result'[q] = result[q],
         \A c \in Clients : flight[c] = q => flight'[c] = q
  PROVE  FormInv(q)'
<1>1. CallForm(q)'
  BY DEF FormInv, CallForm
<1>2. OneFlight(q)'
  BY DEF FormInv, OneFlight
<1>3. Revokes(q)' => AllExcused'
  BY DEF FormInv, Revokes, AllExcused
<1> QED BY <1>1, <1>2, <1>3 DEF FormInv

\* A call that starts.
LEMMA FormStarts ==
  ASSUME SessionInv, ClientInv, Issued \subseteq Issued', excused \subseteq excused',
         NEW p \in Calls, NEW b \in Clients \cup {None}, NEW what \in Ops,
         NEW token \in Issued \cup {None}, what = "refresh" <=> token # None,
         Request(p, b, what, token),
         \/ flight' = flight /\ (what # "refresh" \/ b = None)
         \/ b \in Clients /\ flight[b] = None /\ flight' = [flight EXCEPT ![b] = p]
  PROVE  \A q \in Calls : FormInv(q)'
<1>0. TypeOK /\ \A q \in Calls : FormInv(q)
  BY DEF SessionInv, ClientInv
<1>1. /\ pc[p] = "idle" /\ pc' = [pc EXCEPT ![p] = "read"] /\ op' = [op EXCEPT ![p] = what]
      /\ who' = [who EXCEPT ![p] = b] /\ old' = [old EXCEPT ![p] = token] /\ result' = result
  BY DEF Request, Goto
<1>2. ASSUME NEW q \in Calls, q # p PROVE FormInv(q)'
  <2>1. \A c \in Clients : flight[c] = q => flight'[c] = q
    BY <1>0, ConstantsAssumption DEF TypeOK
  <2>2. /\ pc'[q] = pc[q] /\ op'[q] = op[q] /\ who'[q] = who[q] /\ old'[q] = old[q]
        /\ result'[q] = result[q]
    BY <1>0, <1>1, <1>2 DEF TypeOK
  <2> QED BY <1>0, <2>1, <2>2, FormStays
<1>3. FormInv(p)'
  <2>1. /\ pc'[p] = "read" /\ op'[p] = what /\ who'[p] = b /\ old'[p] = token
        /\ result'[p] = result[p]
    BY <1>0, <1>1 DEF TypeOK
  <2>2. result[p] = None
    BY <1>0, <1>1 DEF FormInv, CallForm
  <2>3. CallForm(p)'
    BY <2>1, <2>2 DEF CallForm
  <2>4. OneFlight(p)'
    BY <1>0, <2>1, ConstantsAssumption DEF OneFlight, TypeOK
  <2>5. ~ Revokes(p)'
    BY <2>1, <2>2, ConstantsAssumption DEF Revokes, Saved
  <2> QED BY <2>3, <2>4, <2>5 DEF FormInv
<1> QED BY <1>2, <1>3

\* Reasons to lose a session are never taken back.
LEMMA ExcusedStays ==
  ASSUME TypeOK, Next
  PROVE  excused \subseteq excused'
<1> QED BY DEF Next, TypeOK, Login, Unauthorized, Change, SecondTab, ServerStep, ReadUser, Store,
     Watch, Exec, UpdateUsername, ReadIndex, Del, SavePassword, CommandFails, Deliver, GiveUp,
     Logout, Expire, client

\* Every step keeps the form of the calls and of what the clients store.
LEMMA FormStep ==
  ASSUME SessionInv, ClientInv, Next
  PROVE  (\A p \in Calls : FormInv(p)') /\ \A c \in Clients : stored'[c] \in Issued' \cup {None}
<1>0. /\ TypeOK /\ (\A p \in Calls : FormInv(p))
      /\ \A c \in Clients : stored[c] \in Issued \cup {None}
  BY DEF SessionInv, ClientInv
<1>1. Issued \subseteq Issued' /\ excused \subseteq excused'
  BY <1>0, IssuedStays, ExcusedStays
<1> DEFINE Goal == /\ \A p \in Calls : FormInv(p)'
                   /\ \A c \in Clients : stored'[c] \in Issued' \cup {None}
<1>2. ASSUME NEW p \in Calls, NEW c \in Clients,
             Login(p, c) \/ \E what \in {"rename", "password"} : Change(p, c, what)
      PROVE  Goal
  <2>1. PICK what \in Ops : what # "refresh" /\ Request(p, c, what, None)
    BY <1>2 DEF Login, Change, Ops
  <2>2. UNCHANGED client
    BY <1>2 DEF Login, Change
  <2>3. \A q \in Calls : FormInv(q)'
    BY <1>1, <2>1, <2>2, FormStarts DEF client
  <2> QED BY <1>0, <1>1, <2>2, <2>3 DEF client
<1>3. ASSUME NEW p \in Calls, NEW c \in Clients, Unauthorized(p, c) PROVE Goal
  <2>1. stored[c] # None /\ stored[c] \in Issued /\ flight[c] = None
    BY <1>0, <1>3 DEF Unauthorized
  <2>2. /\ Request(p, c, "refresh", stored[c])
        /\ flight' = [flight EXCEPT ![c] = p] /\ stored' = stored
    BY <1>3 DEF Unauthorized
  <2>3. \A q \in Calls : FormInv(q)'
    BY <1>1, <2>1, <2>2, FormStarts DEF Ops
  <2> QED BY <1>0, <1>1, <2>2, <2>3
<1>4. ASSUME NEW p \in Calls, NEW j \in Tokens, SecondTab(p, j) PROVE Goal
  <2>1. j \in Issued /\ j # None
    BY <1>4, ConstantsAssumption DEF SecondTab, Issued
  <2>2. Request(p, None, "refresh", j) /\ flight' = flight /\ stored' = stored
    BY <1>4 DEF SecondTab
  <2>3. \A q \in Calls : FormInv(q)'
    BY <1>1, <2>1, <2>2, FormStarts DEF Ops
  <2> QED BY <1>0, <1>1, <2>2, <2>3
<1>5. ASSUME NEW p \in Calls, ServerStep(p) \/ CommandFails(p) PROVE Goal
  <2>1. /\ Runs(p)
        /\ op[p] = "refresh" => pc'[p] \in {"watch", "exec", "answer"}
        /\ pc'[p] \in {"watch", "exec"} => op[p] = "refresh"
        /\ result'[p] \in Issued' \cup {None, Saved}
        /\ Revokes(p)' => AllExcused'
    BY <1>5, ServerForm
  <2>2. UNCHANGED <<op, who, old, stored, flight>>
    BY <2>1 DEF Runs
  <2>3. ASSUME NEW q \in Calls, q # p PROVE FormInv(q)'
    <3>1. pc'[q] = pc[q] /\ result'[q] = result[q]
      BY <2>1, <2>3 DEF Runs
    <3> QED BY <1>0, <1>1, <2>2, <3>1, FormStays
  <2>4. FormInv(p)'
    <3>1. CallForm(p) /\ OneFlight(p)
      BY <1>0 DEF FormInv
    <3>2. CallForm(p)'
      BY <1>1, <2>1, <2>2, <3>1 DEF CallForm, Runs
    <3>3. OneFlight(p)'
      BY <2>2, <3>1 DEF OneFlight
    <3> QED BY <2>1, <3>2, <3>3 DEF FormInv
  <2> QED BY <1>0, <1>1, <2>2, <2>3, <2>4
<1>6. ASSUME NEW p \in Calls, Deliver(p) PROVE Goal
  <2>1. /\ pc' = [pc EXCEPT ![p] = "idle"] /\ result' = [result EXCEPT ![p] = None]
        /\ op' = [op EXCEPT ![p] = "login"] /\ who' = [who EXCEPT ![p] = None]
        /\ old' = [old EXCEPT ![p] = None] /\ Settled(p)
    BY <1>6 DEF Deliver, Ended, Goto
  <2>2. ASSUME NEW q \in Calls, q # p PROVE FormInv(q)'
    <3>1. \A c \in Clients : flight[c] = q => flight'[c] = q
      BY <2>1, <2>2 DEF Settled
    <3>2. /\ pc'[q] = pc[q] /\ op'[q] = op[q] /\ who'[q] = who[q] /\ old'[q] = old[q]
          /\ result'[q] = result[q]
      BY <1>0, <2>1, <2>2 DEF TypeOK
    <3> QED BY <1>0, <1>1, <3>1, <3>2, FormStays
  <2>3. /\ pc'[p] = "idle" /\ result'[p] = None /\ op'[p] = "login" /\ who'[p] = None
        /\ old'[p] = None
    BY <1>0, <2>1 DEF TypeOK
  <2>4. FormInv(p)'
    BY <2>3, ConstantsAssumption DEF FormInv, CallForm, OneFlight, Revokes, Saved
  <2>5. ASSUME NEW c \in Clients PROVE stored'[c] \in Issued' \cup {None}
    <3>1. Session(p) \in Issued \cup {None}
      BY <1>0 DEF Session, FormInv, CallForm
    <3>2. stored'[c] = stored[c] \/ stored'[c] = Session(p)
      BY <1>0, <1>6 DEF Deliver, TypeOK
    <3> QED BY <1>0, <1>1, <3>1, <3>2
  <2> QED BY <2>2, <2>4, <2>5
<1>7. ASSUME NEW p \in Calls, GiveUp(p) PROVE Goal
  <2>1. /\ pc' = pc /\ result' = result /\ op' = op /\ old' = old
        /\ who' = [who EXCEPT ![p] = None] /\ Settled(p) /\ pc[p] # "idle"
    BY <1>7 DEF GiveUp
  <2>2. ASSUME NEW q \in Calls, q # p PROVE FormInv(q)'
    <3>1. \A c \in Clients : flight[c] = q => flight'[c] = q
      BY <2>1, <2>2 DEF Settled
    <3>2. who'[q] = who[q]
      BY <1>0, <2>1, <2>2 DEF TypeOK
    <3> QED BY <1>0, <1>1, <2>1, <3>1, <3>2, FormStays
  <2>3. FormInv(p)'
    <3>1. who'[p] = None
      BY <1>0, <2>1 DEF TypeOK
    <3>2. CallForm(p)'
      BY <1>0, <1>1, <2>1, <3>1 DEF FormInv, CallForm
    <3>3. OneFlight(p)'
      BY <3>1, ConstantsAssumption DEF OneFlight
    <3>4. Revokes(p)' => AllExcused'
      BY <1>0, <1>1, <2>1 DEF FormInv, Revokes, AllExcused
    <3> QED BY <3>2, <3>3, <3>4 DEF FormInv
  <2>4. \A c \in Clients : stored'[c] = stored[c] \/ stored'[c] = None
    BY <1>0, <1>7 DEF GiveUp, TypeOK
  <2> QED BY <1>0, <1>1, <2>2, <2>3, <2>4
<1>8. ASSUME (\E c \in Clients : Logout(c)) \/ \E j \in Tokens : Expire(j) PROVE Goal
  <2>1. UNCHANGED <<pc, op, who, old, result, flight>>
    BY <1>8 DEF Logout, Expire, args
  <2>2. \A c \in Clients : stored'[c] = stored[c] \/ stored'[c] = None
    BY <1>0, <1>8 DEF Logout, Expire, TypeOK
  <2>3. \A q \in Calls : FormInv(q)'
    BY <1>0, <1>1, <2>1, FormStays
  <2> QED BY <1>0, <1>1, <2>2, <2>3
<1> QED BY <1>2, <1>3, <1>4, <1>5, <1>6, <1>7, <1>8 DEF Next

\* A token on its way to a client is nobody else's.
LEMMA UnsentStep ==
  ASSUME SessionInv, ClientInv, Next, ~ AllExcused'
  PROVE  \A p \in Calls : Unsent(p)'
<1>0. /\ TypeOK /\ (\A p \in Calls : FormInv(p))
      /\ \A c \in Clients : stored[c] \in Issued \cup {None}
  BY DEF SessionInv, ClientInv
<1>1. excused \subseteq excused'
  BY <1>0, ExcusedStays
<1>2. \A p \in Calls : Unsent(p)
  BY <1>1 DEF ClientInv, AllExcused
<1>3. None \notin Tokens
  BY ConstantsAssumption
<1>4. ASSUME \A q \in Calls : result'[q] = result[q] \/ result'[q] \notin Tokens,
             \A q \in Calls : \/ old'[q] = old[q] \/ old'[q] = None
                              \/ \E c \in Clients : old'[q] = stored[c],
             \A c \in Clients : \/ stored'[c] = stored[c] \/ stored'[c] = None
                                \/ \E p \in Calls : /\ stored'[c] = result[p]
                                                    /\ result'[p] = None
      PROVE  \A p \in Calls : Unsent(p)'
  <2> SUFFICES ASSUME NEW p \in Calls, result'[p] \in Tokens PROVE Unsent(p)'
    BY DEF Unsent
  <2>1. result'[p] = result[p] /\ Unsent(p)
    BY <1>2, <1>4
  <2>2. \A c \in Clients : stored'[c] # result'[p]
    BY <1>3, <1>4, <2>1 DEF Unsent
  <2>3. \A q \in Calls : old'[q] # result'[p]
    BY <1>3, <1>4, <2>1 DEF Unsent
  <2>4. \A q \in Calls : q # p => result'[q] # result'[p]
    BY <1>4, <2>1 DEF Unsent
  <2> QED BY <2>2, <2>3, <2>4 DEF Unsent
<1>5. ASSUME NEW p \in Calls, NEW b \in Clients, NEW what \in Ops, NEW token,
             Request(p, b, what, token), token = None \/ token = stored[b], stored' = stored
      PROVE  \A q \in Calls : Unsent(q)'
  <2>1. result' = result /\ old' = [old EXCEPT ![p] = token]
    BY <1>5 DEF Request
  <2>2. \A q \in Calls : \/ old'[q] = old[q] \/ old'[q] = None
                         \/ \E c \in Clients : old'[q] = stored[c]
    BY <1>0, <1>5, <2>1 DEF TypeOK
  <2> QED BY <1>4, <1>5, <2>1, <2>2
<1>6. ASSUME NEW p \in Calls, NEW c \in Clients,
             \/ Login(p, c) \/ Unauthorized(p, c)
             \/ \E what \in {"rename", "password"} : Change(p, c, what)
      PROVE  \A q \in Calls : Unsent(q)'
  BY <1>5, <1>6 DEF Login, Unauthorized, Change, Ops, client
<1>7. ASSUME NEW p \in Calls, ServerStep(p) \/ CommandFails(p)
      PROVE  \A q \in Calls : Unsent(q)'
  <2>1. /\ Runs(p) /\ (Continues(p) \/ Declines(p) \/ \E j \in Fresh : Issues(p, j))
    BY <1>7, ServerForm
  <2>2. /\ stored' = stored /\ old' = old
        /\ \A q \in Calls \ {p} : result'[q] = result[q]
        /\ pc'[p] # "answer" => result'[p] = result[p]
    BY <2>1 DEF Runs
  <2>3. CASE Continues(p) \/ Declines(p)
    <3>1. \A q \in Calls : result'[q] = result[q] \/ result'[q] \notin Tokens
      BY <1>3, <2>2, <2>3 DEF Continues, Declines
    <3> QED BY <1>4, <2>2, <3>1
  <2>4. ASSUME NEW j \in Fresh, Issues(p, j) PROVE \A q \in Calls : Unsent(q)'
    <3>1. result'[p] = j /\ j \notin Issued /\ j \in Tokens
      BY <2>4 DEF Issues, Fresh, Issued
    <3>2. /\ \A q \in Calls : /\ result[q] \in Issued \cup {None, Saved}
                              /\ old[q] \in Issued \cup {None}
          /\ j # None /\ j # Saved
      BY <1>0, <3>1, ConstantsAssumption DEF FormInv, CallForm, Saved
    <3>3. Unsent(p)'
      BY <1>0, <2>2, <3>1, <3>2 DEF Unsent
    <3>4. ASSUME NEW q \in Calls, q # p PROVE Unsent(q)'
      <4>1. result'[q] = result[q] /\ result[q] # j
        BY <2>2, <3>1, <3>2, <3>4
      <4>2. Unsent(q)
        BY <1>2
      <4>3. \A s \in Calls : s # q /\ result'[q] \in Tokens => result'[s] # result'[q]
        BY <2>2, <3>1, <4>1, <4>2 DEF Unsent
      <4> QED BY <2>2, <4>1, <4>2, <4>3 DEF Unsent
    <3> QED BY <3>3, <3>4
  <2> QED BY <2>1, <2>3, <2>4
<1>8. ASSUME NEW p \in Calls, Deliver(p) PROVE \A q \in Calls : Unsent(q)'
  <2>1. /\ result' = [result EXCEPT ![p] = None] /\ old' = [old EXCEPT ![p] = None]
        /\ \A c \in Clients : stored'[c] = stored[c] \/ stored'[c] = Session(p)
    BY <1>0, <1>8 DEF Deliver, Ended, TypeOK
  <2>2. /\ result'[p] = None /\ \A q \in Calls : q # p => result'[q] = result[q]
        /\ \A q \in Calls : old'[q] = old[q] \/ old'[q] = None
    BY <1>0, <2>1 DEF TypeOK
  <2>3. Session(p) = None \/ Session(p) = result[p]
    BY DEF Session
  <2>4. \A c \in Clients : \/ stored'[c] = stored[c] \/ stored'[c] = None
                           \/ \E q \in Calls : stored'[c] = result[q] /\ result'[q] = None
    BY <2>1, <2>2, <2>3
  <2>5. \A q \in Calls : result'[q] = result[q] \/ result'[q] \notin Tokens
    BY <1>3, <2>2
  <2> QED BY <1>4, <2>2, <2>4, <2>5
<1>9. ASSUME (\E p \in Calls : GiveUp(p)) \/ \E c \in Clients : Logout(c)
      PROVE  \A q \in Calls : Unsent(q)'
  <2>1. result' = result /\ old' = old
    BY <1>9 DEF GiveUp, Logout, args
  <2>2. \A c \in Clients : stored'[c] = stored[c] \/ stored'[c] = None
    BY <1>0, <1>9 DEF GiveUp, Logout, TypeOK
  <2> QED BY <1>4, <2>1, <2>2
<1>10. ASSUME (\E p \in Calls, j \in Tokens : SecondTab(p, j)) \/ \E j \in Tokens : Expire(j)
       PROVE  FALSE
  BY <1>10 DEF SecondTab, Expire, AllExcused
<1> QED BY <1>6, <1>7, <1>8, <1>9, <1>10 DEF Next

\* The hypotheses about client c, which has no reason to lose its session.
Undisturbed(c) ==
    /\ TypeOK /\ (\A p \in Calls : FormInv(p) /\ Unsent(p))
    /\ Owns(c) /\ \A p \in Calls : who[p] = c => Presents(p, c)

\* What client c relies on in the next state.
Keeps(c) == Owns(c)' /\ \A p \in Calls : who'[p] = c => Presents(p, c)'

\* Another call starts that presents no token.
LEMMA OwnsOtherStart ==
  ASSUME NEW c \in Clients, Undisturbed(c), NEW p \in Calls, NEW b \in Clients, NEW what \in Ops,
         Request(p, b, what, None), stored' = stored
  PROVE  Keeps(c)
<1>0. TypeOK /\ Owns(c)
  BY DEF Undisturbed
<1>1. /\ pc[p] = "idle" /\ pc' = [pc EXCEPT ![p] = "read"] /\ who' = [who EXCEPT ![p] = b]
      /\ old' = [old EXCEPT ![p] = None] /\ result' = result /\ live' = live
  BY DEF Request, Goto, redisVars
<1>2. old[p] = None /\ result[p] = None
  BY <1>1 DEF Undisturbed, FormInv, CallForm
<1>3. old' = old /\ (\A q \in Calls : q # p => pc'[q] = pc[q] /\ who'[q] = who[q])
  BY <1>0, <1>1, <1>2 DEF TypeOK
<1>4. Owns(c)'
  BY <1>0, <1>1, <1>2, <1>3 DEF Owns
<1>5. ASSUME NEW q \in Calls, who'[q] = c PROVE Presents(q, c)'
  <2>1. CASE q = p
    BY <1>1, <1>2, <1>3, <2>1 DEF Presents
  <2>2. CASE q # p
    <3>1. Presents(q, c) /\ pc'[q] = pc[q]
      BY <1>3, <1>5, <2>2 DEF Undisturbed
    <3> QED BY <1>1, <1>3, <3>1 DEF Presents
  <2> QED BY <2>1, <2>2
<1> QED BY <1>4, <1>5 DEF Keeps

\* A client refreshes with the token it has stored: it is alone in presenting it.
LEMMA OwnsRefresh ==
  ASSUME NEW c \in Clients, Undisturbed(c), NEW p \in Calls, NEW b \in Clients, Unauthorized(p, b)
  PROVE  Keeps(c)
<1>0. TypeOK /\ Owns(c) /\ \A q \in Calls : FormInv(q)
  BY DEF Undisturbed
<1>1. /\ pc[p] = "idle" /\ pc' = [pc EXCEPT ![p] = "read"] /\ who' = [who EXCEPT ![p] = b]
      /\ old' = [old EXCEPT ![p] = stored[b]] /\ result' = result /\ live' = live
      /\ stored' = stored /\ stored[b] # None /\ flight[b] = None
  BY DEF Unauthorized, Request, Goto, redisVars
<1>2. old[p] = None /\ result[p] = None
  BY <1>0, <1>1 DEF FormInv, CallForm
<1>3. /\ old'[p] = stored[b] /\ pc'[p] = "read" /\ who'[p] = b
      /\ \A q \in Calls : q # p => pc'[q] = pc[q] /\ who'[q] = who[q] /\ old'[q] = old[q]
  BY <1>0, <1>1 DEF TypeOK
<1>4. \A q \in Calls : old[q] # None => who[q] # b
  BY <1>0, <1>1, ConstantsAssumption DEF FormInv, CallForm, OneFlight
<1>5. b # c /\ stored[c] # None => stored[c] # stored[b]
  BY <1>0 DEF Owns
<1>6. Owns(c)'
  <2>1. SUFFICES ASSUME stored[c] # None
        PROVE  /\ \A q \in Calls : old'[q] = stored[c] => who'[q] = c
               /\ stored[c] \in live \/ \E q \in Calls : old'[q] = stored[c] /\ pc'[q] = "answer"
    BY <1>0, <1>1 DEF Owns
  <2>2. \A q \in Calls : old'[q] = stored[c] => who'[q] = c
    BY <1>0, <1>3, <1>5, <2>1 DEF Owns
  <2>3. stored[c] \in live \/ \E q \in Calls : old'[q] = stored[c] /\ pc'[q] = "answer"
    BY <1>0, <1>1, <1>2, <1>3, <2>1 DEF Owns
  <2> QED BY <2>2, <2>3
<1>7. ASSUME NEW q \in Calls, who'[q] = c PROVE Presents(q, c)'
  <2>1. CASE q = p
    <3>1. b = c
      BY <1>3, <1>7, <2>1
    <3>2. \A s \in Calls : old[s] # stored[c]
      BY <1>0, <1>1, <1>4, <3>1 DEF Owns
    <3>3. stored[c] \in live
      BY <1>0, <1>1, <3>1, <3>2 DEF Owns
    <3>4. \A d \in Clients \ {c} : stored[d] # stored[c]
      BY <1>0, <1>1, <3>1 DEF Owns
    <3>5. \A s \in Calls : old'[s] = old'[q] => s = q
      BY <1>3, <2>1, <3>1, <3>2
    <3> QED BY <1>1, <1>2, <1>3, <2>1, <3>1, <3>3, <3>4, <3>5 DEF Presents
  <2>2. CASE q # p
    <3>1. Presents(q, c) /\ pc'[q] = pc[q] /\ old'[q] = old[q] /\ who[q] = c
      BY <1>3, <1>7, <2>2 DEF Undisturbed
    <3>2. old[q] # None => old[q] # stored[b]
      BY <1>4, <3>1 DEF Presents
    <3>3. old[q] # None => \A s \in Calls : old'[s] = old[q] => s = q
      BY <1>3, <3>1, <3>2 DEF Presents
    <3> QED BY <1>1, <3>1, <3>3 DEF Presents
  <2> QED BY <2>1, <2>2
<1> QED BY <1>6, <1>7 DEF Keeps

\* The server works on a call: what it takes away is the token presented to it.
LEMMA OwnsServer ==
  ASSUME NEW c \in Clients, Undisturbed(c), NEW p \in Calls, Runs(p), live \subseteq Issued,
         Continues(p) \/ Declines(p) \/ \E j \in Fresh : Issues(p, j)
  PROVE  Keeps(c)
<1>0. TypeOK /\ Owns(c) /\ \A q \in Calls : FormInv(q) /\ Unsent(q)
  BY DEF Undisturbed
<1>1. /\ old' = old /\ who' = who /\ stored' = stored
      /\ \A q \in Calls \ {p} : pc'[q] = pc[q] /\ result'[q] = result[q]
      /\ pc[p] # "answer" /\ (pc'[p] # "answer" => result'[p] = result[p])
  BY DEF Runs
<1>2. \/ live' = live
      \/ live \ {old[p]} \subseteq live' /\ pc'[p] = "answer"
  BY DEF Continues, Declines, Issues
<1>3. Owns(c)'
  BY <1>0, <1>1, <1>2 DEF Owns
<1>4. ASSUME NEW q \in Calls, who'[q] = c PROVE Presents(q, c)'
  <2>1. Presents(q, c) /\ FormInv(q) /\ Unsent(q)
    BY <1>0, <1>1, <1>4 DEF Undisturbed
  <2>2. CASE q = p
    <3>1. CASE Continues(p)
      BY <1>1, <2>1, <2>2, <3>1 DEF Presents, Continues
    <3>2. CASE Declines(p)
      BY <1>1, <2>1, <2>2, <3>2 DEF Presents, Declines
    <3>3. ASSUME NEW j \in Fresh, Issues(p, j) PROVE Presents(q, c)'
      <4>1. j # None
        BY ConstantsAssumption DEF Fresh
      <4> QED BY <1>1, <2>1, <2>2, <3>3, <4>1 DEF Presents, Issues
    <3> QED BY <3>1, <3>2, <3>3
  <2>3. CASE q # p
    <3>1. pc'[q] = pc[q] /\ result'[q] = result[q]
      BY <1>1, <2>3
    <3>2. result[q] # None => result[q] \in live'
      <4>1. SUFFICES ASSUME result[q] # None PROVE result[q] \in live'
        OBVIOUS
      <4>2. result[q] \in live
        BY <2>1, <4>1 DEF Presents
      <4>3. old[p] # result[q]
        BY <2>1, <4>2 DEF Unsent, Issued
      <4> QED BY <1>2, <4>2, <4>3
    <3>3. old[q] # None /\ pc[q] # "answer" => old[q] \in live'
      BY <1>2, <2>1, <2>3 DEF Presents
    <3> QED BY <1>1, <2>1, <3>1, <3>2, <3>3 DEF Presents
  <2> QED BY <2>2, <2>3
<1> QED BY <1>3, <1>4 DEF Keeps

\* An answer arrives: the client stores the token, which was on its way to it.
LEMMA OwnsDeliver ==
  ASSUME NEW c \in Clients, Undisturbed(c), NEW p \in Calls, Deliver(p),
         \A q \in Calls : ~ Revokes(q)
  PROVE  /\ Keeps(c)
         /\ stored[c] # None => stored'[c] # None
<1>0. TypeOK /\ Owns(c) /\ \A q \in Calls : FormInv(q) /\ Unsent(q)
  BY DEF Undisturbed
<1>1. /\ pc[p] = "answer" /\ live' = live
      /\ pc' = [pc EXCEPT ![p] = "idle"] /\ result' = [result EXCEPT ![p] = None]
      /\ who' = [who EXCEPT ![p] = None] /\ old' = [old EXCEPT ![p] = None]
  BY DEF Deliver, Ended, Goto, redisVars
<1>2. /\ result'[p] = None /\ who'[p] = None /\ old'[p] = None
      /\ \A q \in Calls : q # p => /\ pc'[q] = pc[q] /\ result'[q] = result[q]
                                   /\ who'[q] = who[q] /\ old'[q] = old[q]
  BY <1>0, <1>1 DEF TypeOK
<1>3. result[p] # Saved /\ Session(p) = result[p]
  BY DEF Revokes, Session
<1>4. \A d \in Clients : \/ stored'[d] = stored[d] /\ (who[p] = d => op[p] # "refresh")
                         \/ who[p] = d /\ stored'[d] = result[p]
  BY <1>0, <1>3, ConstantsAssumption DEF Deliver, TypeOK
<1>5. result[p] # None => result[p] \in Tokens
  BY <1>0, <1>3 DEF TypeOK
<1>6. \A d \in Clients : who[p] # d => stored'[d] = stored[d]
  BY <1>4
<1>7. old[p] # None <=> op[p] = "refresh"
  BY <1>0 DEF FormInv, CallForm
<1>8. who[p] = c /\ op[p] = "refresh" => result[p] # None
  BY <1>1, <1>7 DEF Undisturbed, Presents
<1>9. stored[c] # None => stored'[c] # None
  <2>1. CASE result[p] # None
    BY <1>4, <2>1
  <2>2. CASE result[p] = None /\ who[p] = c
    <3>1. stored'[c] = stored[c]
      BY <1>8, <2>2, ConstantsAssumption DEF Deliver
    <3> QED BY <3>1
  <2>3. CASE who[p] # c
    BY <1>6, <2>3
  <2> QED BY <2>1, <2>2, <2>3
<1>10. Owns(c)'
  <2>1. CASE stored'[c] = stored[c] /\ (who[p] = c => op[p] # "refresh")
    <3>1. SUFFICES ASSUME stored[c] # None
          PROVE  /\ \A d \in Clients \ {c} : stored'[d] # stored[c]
                 /\ \A q \in Calls : old'[q] = stored[c] => who'[q] = c
                 /\ stored[c] \in live \/ \E q \in Calls : old'[q] = stored[c] /\ pc'[q] = "answer"
      BY <1>1, <2>1 DEF Owns
    <3>2. \A d \in Clients \ {c} : stored'[d] # stored[c]
      BY <1>0, <1>4, <1>5, <3>1 DEF Owns, Unsent
    <3>3. \A q \in Calls : old'[q] = stored[c] => who'[q] = c
      BY <1>0, <1>2, <3>1 DEF Owns
    <3>4. old[p] # stored[c]
      BY <1>0, <1>7, <2>1, <3>1 DEF Owns
    <3>5. stored[c] \in live \/ \E q \in Calls : old'[q] = stored[c] /\ pc'[q] = "answer"
      BY <1>0, <1>2, <3>1, <3>4 DEF Owns
    <3> QED BY <3>2, <3>3, <3>5
  <2>2. CASE who[p] = c /\ stored'[c] = result[p]
    <3>1. SUFFICES ASSUME result[p] # None
          PROVE  /\ \A d \in Clients \ {c} : stored'[d] # result[p]
                 /\ \A q \in Calls : old'[q] # result[p]
                 /\ result[p] \in live
      BY <1>1, <2>2 DEF Owns
    <3>2. result[p] \in live
      BY <2>2, <3>1 DEF Undisturbed, Presents
    <3>3. Unsent(p) /\ result[p] \in Tokens
      BY <1>0, <1>5, <3>1
    <3> QED BY <1>2, <1>6, <2>2, <3>1, <3>2, <3>3 DEF Unsent
  <2> QED BY <1>4, <2>1, <2>2
<1>11. ASSUME NEW q \in Calls, who'[q] = c PROVE Presents(q, c)'
  <2>1. q # p
    BY <1>2, <1>11, ConstantsAssumption
  <2>2. /\ Presents(q, c) /\ pc'[q] = pc[q] /\ result'[q] = result[q] /\ old'[q] = old[q]
        /\ Unsent(p)
    BY <1>0, <1>2, <1>11, <2>1 DEF Undisturbed
  <2>3. old[q] # None => \A d \in Clients \ {c} : stored'[d] # old[q]
    BY <1>4, <1>5, <2>2 DEF Presents, Unsent
  <2>4. old[q] # None => \A s \in Calls : old'[s] = old[q] => s = q
    BY <1>2, <2>2 DEF Presents
  <2> QED BY <1>1, <2>2, <2>3, <2>4 DEF Presents
<1> QED BY <1>9, <1>10, <1>11 DEF Keeps

\* Another client gives up its call or its session.
LEMMA OwnsOtherGivesUp ==
  ASSUME NEW c \in Clients, Undisturbed(c), UNCHANGED <<pc, old, result, live>>,
         stored'[c] = stored[c], \A d \in Clients : stored'[d] = stored[d] \/ stored'[d] = None,
         \A q \in Calls : who'[q] = who[q] \/ (who'[q] = None /\ who[q] # c)
  PROVE  Keeps(c)
<1>0. Owns(c)
  BY DEF Undisturbed
<1>1. Owns(c)'
  BY <1>0 DEF Owns
<1>2. ASSUME NEW q \in Calls, who'[q] = c PROVE Presents(q, c)'
  <2>1. Presents(q, c)
    BY <1>2, ConstantsAssumption DEF Undisturbed
  <2> QED BY <2>1 DEF Presents
<1> QED BY <1>1, <1>2 DEF Keeps

\* A client without a reason keeps its session, and what the session rests on.
LEMMA SessionStep ==
  ASSUME SessionInv, ClientInv, Next, NEW c \in Clients, c \notin excused'
  PROVE  Keeps(c) /\ (stored[c] # None => stored'[c] # None)
<1>0. TypeOK /\ live \subseteq Issued
  BY DEF SessionInv, Invariants, Known
<1>1. c \notin excused /\ ~ AllExcused /\ ~ AllExcused'
  BY <1>0, ExcusedStays DEF AllExcused
<1>2. Undisturbed(c) /\ \A q \in Calls : ~ Revokes(q)
  BY <1>0, <1>1 DEF ClientInv, FormInv, SessionOf, Undisturbed
<1>3. ASSUME NEW p \in Calls, NEW b \in Clients,
             Login(p, b) \/ \E what \in {"rename", "password"} : Change(p, b, what)
      PROVE  Keeps(c) /\ stored' = stored
  <2>1. PICK what \in Ops : Request(p, b, what, None)
    BY <1>3 DEF Login, Change, Ops
  <2>2. stored' = stored
    BY <1>3 DEF Login, Change, client
  <2> QED BY <1>2, <2>1, <2>2, OwnsOtherStart
<1>4. ASSUME NEW p \in Calls, NEW b \in Clients, Unauthorized(p, b)
      PROVE  Keeps(c) /\ stored' = stored
  BY <1>2, <1>4, OwnsRefresh DEF Unauthorized
<1>5. ASSUME NEW p \in Calls, ServerStep(p) \/ CommandFails(p)
      PROVE  Keeps(c) /\ stored' = stored
  <2>1. Runs(p) /\ (Continues(p) \/ Declines(p) \/ \E j \in Fresh : Issues(p, j))
    BY <1>1, <1>5, ServerForm
  <2>2. Keeps(c)
    BY <1>0, <1>2, <2>1, OwnsServer
  <2> QED BY <2>1, <2>2 DEF Runs
<1>6. ASSUME NEW p \in Calls, Deliver(p)
      PROVE  Keeps(c) /\ (stored[c] # None => stored'[c] # None)
  BY <1>2, <1>6, OwnsDeliver
<1>7. ASSUME NEW p \in Calls, GiveUp(p) PROVE Keeps(c) /\ stored'[c] = stored[c]
  <2>1. /\ UNCHANGED <<pc, old, result, live>> /\ who' = [who EXCEPT ![p] = None]
        /\ who[p] # c /\ who[p] # None
    BY <1>7 DEF GiveUp, redisVars
  <2>2. /\ stored'[c] = stored[c]
        /\ \A d \in Clients : stored'[d] = stored[d] \/ stored'[d] = None
    BY <1>0, <1>7, <2>1 DEF GiveUp, TypeOK
  <2>3. \A q \in Calls : who'[q] = who[q] \/ (who'[q] = None /\ who[q] # c)
    BY <1>0, <2>1 DEF TypeOK
  <2> QED BY <1>2, <2>1, <2>2, <2>3, OwnsOtherGivesUp
<1>8. ASSUME NEW b \in Clients, Logout(b) PROVE Keeps(c) /\ stored'[c] = stored[c]
  <2>1. UNCHANGED <<pc, old, result, live, who>> /\ b # c
    BY <1>8 DEF Logout, redisVars, args
  <2>2. /\ stored'[c] = stored[c]
        /\ \A d \in Clients : stored'[d] = stored[d] \/ stored'[d] = None
    BY <1>0, <1>8, <2>1 DEF Logout, TypeOK
  <2> QED BY <1>2, <2>1, <2>2, OwnsOtherGivesUp
<1>9. ASSUME (\E p \in Calls, j \in Tokens : SecondTab(p, j)) \/ \E j \in Tokens : Expire(j)
      PROVE  FALSE
  BY <1>9 DEF SecondTab, Expire
<1> QED BY <1>3, <1>4, <1>5, <1>6, <1>7, <1>8, <1>9 DEF Next

\* The clients' invariant holds for an account without sessions ...
LEMMA ClientInit == Init => ClientInv
<1> SUFFICES ASSUME Init PROVE ClientInv
  OBVIOUS
<1>1. \A p \in Calls : FormInv(p)
  BY ConstantsAssumption
     DEF Init, FormInv, CallForm, OneFlight, Revokes, Saved
<1>2. \A p \in Calls : Unsent(p)
  BY ConstantsAssumption DEF Init, Unsent
<1>3. \A c \in Clients : SessionOf(c)
  BY ConstantsAssumption DEF Init, SessionOf, Owns
<1> QED BY <1>1, <1>2, <1>3 DEF ClientInv, Init

\* ... and every step preserves it.
LEMMA ClientStep == SessionInv /\ ClientInv /\ [Next]_vars => ClientInv'
<1>1. ASSUME SessionInv, ClientInv, Next PROVE ClientInv'
  <2>1. /\ \A p \in Calls : FormInv(p)'
        /\ \A c \in Clients : stored'[c] \in Issued' \cup {None}
    BY <1>1, FormStep
  <2>2. AllExcused' \/ \A p \in Calls : Unsent(p)'
    BY <1>1, UnsentStep
  <2>3. \A c \in Clients : SessionOf(c)'
    BY <1>1, SessionStep DEF SessionOf, Keeps
  <2> QED BY <2>1, <2>2, <2>3 DEF ClientInv
<1>2. ASSUME ClientInv, UNCHANGED vars PROVE ClientInv'
  BY <1>2 DEF vars, ClientInv, FormInv, CallForm, OneFlight, Revokes, AllExcused, Unsent,
     SessionOf, Owns, Presents, Issued
<1> QED BY <1>1, <1>2

\* A browser loses its session only for a reason: a logout, a revocation, an expiry, a
\* failure or a second tab.  Its own concurrent requests never cost it the session.
THEOREM SessionLostForReason == Spec => LogoutHasReason
<1>1. Spec => []ClientInv
  BY ClientInit, ClientStep, SessionsSafe, PTL DEF Spec
<1>2. SessionInv /\ ClientInv /\ [Next]_vars =>
        [\A c \in Clients : stored[c] # None /\ stored'[c] = None => c \in excused']_vars
  BY SessionStep
<1> QED BY <1>1, <1>2, SessionsSafe, PTL DEF Spec, LogoutHasReason

=============================================================================
