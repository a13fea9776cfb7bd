----------------------------- MODULE ChatProofs -----------------------------
(* Proofs about Chat for any number of messages, attempts, users and faults  *)
(* and for every conversation.                                               *)
EXTENDS Chat, FiniteSetTheorems, TLAPS

(* Where an attempt stands outside the user lock, and inside it. *)
OpenSteps == {"idle", "claim", "resolve", "create", "own", "enter", "mark"}
CardSteps == {"confirm", "settle", "learn", "discard", "softDelete", "askEdit"}
EditSteps == {"applyEdit", "showAgain"}
ActiveSteps == CardSteps \cup EditSteps \cup
  {"clear", "register", "charge", "refuse", "queue", "enqueue", "unregister", "catalogue",
   "reject", "alias", "draft", "relearn", "askDeleteRecent", "deleteRecent", "persist", "export", "recategorise", "askDelete", "markDeleting"}
GoingSteps == {"unexport", "purge"}
LockedSteps == ActiveSteps \cup GoingSteps \cup {"consent", "reply", "farewell"}
ChatSteps == OpenSteps \cup LockedSteps

Owners == Users \cup {NoUser}
Subjects == Messages \cup {0}
MessageRow == [id : Nat, status : {"none", "received", "failed", "processed"}, leased : BOOLEAN,
               owner : Owners, raw : {"none", "kept", "redacted"}]
UserStatus == {"none", "pending", "active", "suspended", "deleting", "deleted"}

(* What is said and asked: a question about an entry names it. *)
About == {"card", "edit", "delrecent"}
PendingRow == [kind : About, tx : Messages, expired : BOOLEAN]
              \cup [kind : {"none", "delaccount"}, tx : {0}, expired : BOOLEAN]
Saying == [kind : About, tx : Messages] \cup [kind : {"delaccount", "none"}, tx : {0}]
          \cup [kind : {"notice"}, tx : Subjects]
Entry == [status : {"none", "awaiting", "confirmed", "amended", "deleted"}, owner : Owners,
          ver : Nat, category : Categories \cup {"none"}]
ReceiptStatus == {"received", "queued", "review", "confirmed", "deleted", "failed_permanent"}
Document == [status : {"none"}, owner : {NoUser}, job : BOOLEAN]
            \cup [status : ReceiptStatus, owner : Users, job : BOOLEAN]
Rule == [n : Nat, confidence : Int, category : Categories \cup {"none"}]
OutKey == [kind : About \cup {"delaccount", "none", "notice"}, of : Messages, ver : Nat]

InboundTypeOK ==
  /\ script \in Seq(Contents) /\ DOMAIN script \subseteq Messages
  /\ mode \in {"webhook", "poll"} /\ allowed \in BOOLEAN /\ maxFaults \in Nat
  /\ msg \in [Messages -> MessageRow]
  /\ acked \in [Messages -> BOOLEAN]
  /\ users \in [Users -> UserStatus]
  /\ identity \in Owners
  /\ lock \in [Users -> Attempts \cup {Nobody, Worker}]
  /\ at \in [Attempts -> ChatSteps]
  /\ cur \in [Attempts -> Messages]
  /\ redact \in [Attempts -> BOOLEAN]
  /\ pm \in [Attempts -> Nat]
  /\ who \in [Attempts -> Owners]
  /\ err \in [Attempts -> BOOLEAN]
  /\ crashes \in Nat /\ lapses \in Nat /\ errors \in Nat
  /\ handled \in [Messages -> BOOLEAN] /\ consented \in BOOLEAN

RecordsTypeOK ==
  /\ pending \in [Users -> PendingRow]
  /\ tx \in [Messages -> Entry]
  /\ receipt \in [Messages -> Document]
  /\ used \in [Users -> Nat]

MemoryTypeOK ==
  /\ merchant \in {"unknown", "named", "known"}
  /\ rule \in [Users -> Rule]
  /\ derived \in [Users -> SUBSET {"insight", "export"}]
  /\ lessons \in [Users -> Seq(Categories \cup {"none"})]

SpeechTypeOK ==
  /\ outbox \subseteq OutKey
  /\ asked \in Saying /\ say \in [Attempts -> Saying]
  /\ review \in Subjects
  /\ acted \in [Messages -> SUBSET Messages]
  /\ answered \subseteq Messages
  /\ erasedBy \subseteq Messages /\ reopenedBy \subseteq Messages

ChatTypeOK == InboundTypeOK /\ RecordsTypeOK /\ MemoryTypeOK /\ SpeechTypeOK

(* The user lock is held by the one attempt inside it, or by the worker that *)
(* is sending a review card.                                                 *)
LockInv ==
  /\ \A h \in Attempts : at[h] \in LockedSteps => who[h] \in Users /\ lock[who[h]] = h
  /\ \A u \in Users, h \in Attempts : lock[u] = h => at[h] \in LockedSteps /\ who[h] = u
  /\ review # 0 => /\ receipt[review].owner \in Users
                   /\ lock[receipt[review].owner] = Worker
                   /\ users[receipt[review].owner] \notin {"none", "deleted"}

(* One user at a time stands behind the sender.  An attempt knows a user     *)
(* from "own" on, and under the lock that user is in the state its step      *)
(* needs.                                                                    *)
UserInv ==
  /\ \A u \in Users : users[u] \notin {"none", "deleted"} <=> identity = u
  /\ \A h \in Attempts :
       /\ at[h] \in {"own", "enter"} \cup LockedSteps => who[h] \in Users /\ users[who[h]] # "none"
       /\ at[h] = "mark" /\ ~err[h] => who[h] \in Users /\ users[who[h]] # "none"
       /\ at[h] = "consent" => users[who[h]] = "pending"
       /\ at[h] = "reply" => users[who[h]] \in {"pending", "active", "suspended"}
       /\ at[h] \in ActiveSteps => users[who[h]] = "active"
       /\ at[h] \in GoingSteps => users[who[h]] = "deleting"
       /\ at[h] = "farewell" => users[who[h]] = "deleted"

(* The message in hand is one of the conversation, and the row claimed for   *)
(* it is the newest one of the message or an older one that is gone.         *)
HandInv ==
  \A h \in Attempts :
    /\ at[h] # "idle" => cur[h] \in DOMAIN script
    /\ at[h] \notin {"idle", "claim"} => pm[h] <= msg[cur[h]].id

(* The open question is the one the step under the lock deals with. *)
QuestionInv ==
  \A h \in Attempts :
    /\ at[h] \in CardSteps => pending[who[h]].kind = "card"
    /\ at[h] \in EditSteps => pending[who[h]].kind = "edit"
    /\ at[h] = "deleteRecent" => pending[who[h]].kind = "delrecent"
    /\ at[h] = "relearn" => say[h].tx \in Messages

(* Users are numbered in the order of their creation. *)
Numbered == \E n \in 0 .. MaxUsers : \A u \in Users : users[u] # "none" <=> u <= n

CoreInv == ChatTypeOK /\ LockInv /\ UserInv /\ HandInv /\ QuestionInv /\ Numbered

-----------------------------------------------------------------------------
(* Shapes of steps. *)

(* A step under the lock touches its own user's rows and its own reply. *)
OwnRowsOnly(h) ==
  /\ \A u \in Users : u # who[h] => pending'[u] = pending[u]
  /\ \A g \in Attempts : g # h => say'[g] = say[g]
  /\ UNCHANGED review

(* A step under the lock that writes no message row and no user: it goes on  *)
(* with its work, or leaves the lock with its route ended, in an error       *)
(* unless it has replied.                                                    *)
GoesOn(h) ==
  /\ \/ at[h] \in ActiveSteps /\ \E s \in ActiveSteps \cup {"reply"} : Goto(h, s)
     \/ at[h] = "unexport" /\ Goto(h, "purge")
  /\ UNCHANGED <<lock, err, handled>>

EndsRoute(h) ==
  /\ at[h] \in LockedSteps
  /\ Unlock(h)
  /\ at' = [at EXCEPT ![h] = "mark"]
  /\ \E f \in BOOLEAN : /\ err' = [err EXCEPT ![h] = f]
                        /\ handled' = [handled EXCEPT ![cur[h]] = @ \/ ~f]
                        /\ ~f => at[h] \in {"reply", "farewell"} /\ errors' = errors
                        /\ f => at[h] # "reply" \/ errors' # errors
                        /\ f => at[h] # "farewell" \/ errors' # errors

Ordinary(h) ==
  /\ UNCHANGED <<setting, msg, acked, people, cur, redact, pm, who, crashes, lapses>>
  /\ UNCHANGED <<consented, erasedBy, reopenedBy>>
  /\ errors' \in {errors, errors + 1}
  /\ GoesOn(h) \/ EndsRoute(h)
  /\ OwnRowsOnly(h)
  /\ at[h] = "farewell" => UNCHANGED <<records, memory, say>>

LEMMA CardMoves ==
  ASSUME ChatTypeOK, NEW h \in Attempts, CardStep(h)
  PROVE  Ordinary(h) /\ UNCHANGED errors
<1> USE DEF Ordinary, GoesOn, EndsRoute, OwnRowsOnly, ActiveSteps, LockedSteps, CardSteps, EditSteps,
            Then, Goto, Silent, inboundRows, speech, deeds, records, memory, setting, local,
            faults, history, people, ReplyWith, OpenQuestion, Settles, Teaches
<1> USE DEF ChatTypeOK, InboundTypeOK, RecordsTypeOK, SpeechTypeOK
<1>1. CASE ConfirmTransaction(h)
  BY <1>1 DEF ConfirmTransaction
<1>2. CASE SettleReceipt(h)
  BY <1>2 DEF SettleReceipt
<1>3. CASE DiscardReceipt(h)
  BY <1>3 DEF DiscardReceipt
<1>4. CASE DiscardTransaction(h)
  BY <1>4 DEF DiscardTransaction, SoftDelete
<1>5. CASE AskEdit(h)
  BY <1>5 DEF AskEdit
<1>6. CASE ApplyEdit(h)
  BY <1>6 DEF ApplyEdit
<1>7. CASE RejectEdit(h)
  BY <1>7 DEF RejectEdit
<1>8. CASE ShowAgain(h)
  BY <1>8 DEF ShowAgain
<1>9. CASE CreateManualDraft(h)
  BY <1>9 DEF CreateManualDraft
<1>10. CASE ResolveMerchant(h)
  BY <1>10 DEF ResolveMerchant
<1>11. CASE AddMerchantAlias(h)
  BY <1>11 DEF AddMerchantAlias
<1>12. CASE Learn(h)
  BY <1>12 DEF Learn
<1>13. CASE RejectEntry(h)
  BY <1>13 DEF RejectEntry, Leave, EndRoute
<1> QED
  BY <1>1, <1>2, <1>3, <1>4, <1>5, <1>6, <1>7, <1>8, <1>9, <1>10, <1>11, <1>12, <1>13 DEF CardStep

LEMMA ImageMoves ==
  ASSUME ChatTypeOK, NEW h \in Attempts, ImageStep(h)
  PROVE  Ordinary(h) /\ UNCHANGED errors
<1> USE DEF Ordinary, GoesOn, EndsRoute, OwnRowsOnly, ActiveSteps, LockedSteps, CardSteps, EditSteps,
            Then, Goto, Leave, EndRoute, Silent, inboundRows, speech, deeds, records, memory,
            setting, local, faults, history, people
<1> USE DEF ChatTypeOK, InboundTypeOK, RecordsTypeOK, SpeechTypeOK
<1>1. CASE RegisterImage(h)
  BY <1>1 DEF RegisterImage, AfterRegister
<1>2. CASE IncrementUsage(h)
  BY <1>2 DEF IncrementUsage
<1>3. CASE RefuseImage(h)
  BY <1>3 DEF RefuseImage, TransitionReceipt
<1>4. CASE QueueImage(h)
  BY <1>4 DEF QueueImage, TransitionReceipt
<1>5. CASE EnqueueReceiptJob(h)
  BY <1>5 DEF EnqueueReceiptJob
<1>6. CASE DeleteReceivedReceipt(h)
  BY <1>6 DEF DeleteReceivedReceipt
<1> QED
  BY <1>1, <1>2, <1>3, <1>4, <1>5, <1>6 DEF ImageStep

LEMMA EntryMoves ==
  ASSUME ChatTypeOK, NEW h \in Attempts, EntryStep(h) \/ ClearPendingAction(h)
  PROVE  Ordinary(h) /\ UNCHANGED errors
<1> USE DEF Ordinary, GoesOn, EndsRoute, OwnRowsOnly, ActiveSteps, LockedSteps, CardSteps, EditSteps,
            Then, Goto, Leave, EndRoute, Silent, inboundRows, speech, deeds, records, memory,
            setting, local, faults, history, people, ReplyWith, OpenQuestion, Settles, Teaches,
            Derives
<1> USE DEF ChatTypeOK, InboundTypeOK, RecordsTypeOK, SpeechTypeOK
<1>1. CASE AskDeleteRecent(h)
  BY <1>1 DEF AskDeleteRecent
<1>2. CASE DeleteRecent(h)
  BY <1>2 DEF DeleteRecent, SoftDelete
<1>3. CASE DeleteRecentRefused(h)
  BY <1>3 DEF DeleteRecentRefused
<1>4. CASE Recategorise(h)
  <2>1. at[h] = "recategorise" /\ Silent
        /\ UNCHANGED <<msg, people, history, merchant, rule, derived, pending, receipt, used>>
    BY <1>4, Zenon DEF Recategorise
  <2>2. \/ Then(h, "reply") /\ UNCHANGED say
        \/ \E q : Then(h, "relearn") /\ ReplyWith(h, q)
    BY <1>4, Zenon DEF Recategorise
  <2>3. CASE Then(h, "reply") /\ UNCHANGED say
    BY <2>1, <2>3
  <2>4. CASE \E q : Then(h, "relearn") /\ ReplyWith(h, q)
    BY <2>1, <2>4
  <2> QED
    BY <2>2, <2>3, <2>4
<1>5. CASE PersistInsight(h)
  BY <1>5 DEF PersistInsight
<1>6. CASE WriteExport(h)
  BY <1>6 DEF WriteExport
<1>7. CASE ClearPendingAction(h)
  BY <1>7 DEF ClearPendingAction
<1> QED
  BY <1>1, <1>2, <1>3, <1>4, <1>5, <1>6, <1>7 DEF EntryStep

(* The steps of an account that write neither its status nor a message row, *)
(* the reply, and a statement that fails.                                   *)
LEMMA OtherMoves ==
  ASSUME ChatTypeOK, LockInv, NEW h \in Attempts,
         \/ Reply(h) \/ AskDelete(h) \/ RemoveExportArtifacts(h) \/ DeletionConfirmation(h)
         \/ LockedStatementFails(h)
  PROVE  Ordinary(h)
<1> USE DEF Ordinary, GoesOn, EndsRoute, OwnRowsOnly, ActiveSteps, GoingSteps, LockedSteps, CardSteps,
            EditSteps, Then, Goto, Leave, EndRoute, Silent, inboundRows, speech, deeds, records,
            memory, setting, local, faults, history, people, ReplyWith, OpenQuestion
<1> USE DEF ChatTypeOK, InboundTypeOK, RecordsTypeOK, SpeechTypeOK
<1>1. CASE Reply(h)
  BY <1>1 DEF Reply
<1>2. CASE AskDelete(h)
  BY <1>2 DEF AskDelete
<1>3. CASE RemoveExportArtifacts(h)
  BY <1>3 DEF RemoveExportArtifacts
<1>4. CASE DeletionConfirmation(h)
  BY <1>4 DEF DeletionConfirmation
<1>5. CASE LockedStatementFails(h)
  <2>1. at[h] \in LockedSteps
    BY <1>5 DEF LockedStatementFails, LockInv
  <2>2. errors' = errors + 1 /\ errors' # errors
    BY <1>5 DEF LockedStatementFails
  <2>3. /\ UNCHANGED <<setting, msg, acked, people, cur, redact, pm, who, crashes, lapses>>
        /\ UNCHANGED <<consented, erasedBy, reopenedBy>>
        /\ OwnRowsOnly(h)
        /\ at[h] = "farewell" => UNCHANGED <<records, memory, say>>
    BY <1>5 DEF LockedStatementFails
  <2>4. GoesOn(h) \/ EndsRoute(h)
    BY <1>5, <2>1, <2>2 DEF LockedStatementFails
  <2> QED
    BY <2>2, <2>3, <2>4
<1> QED
  BY <1>1, <1>2, <1>3, <1>4, <1>5

LEMMA AnsweredStep ==
  ASSUME NEW c, NEW p, p.kind \in About \cup {"none", "delaccount"}
  PROVE  \/ TextStep(c, p) \in {FreshStep(c), "clear", "markDeleting"}
         \/ TextStep(c, p) = ConfirmStep(c, p.tx) /\ p.kind = "card"
         \/ TextStep(c, p) = "applyEdit" /\ p.kind = "edit"
         \/ TextStep(c, p) = "deleteRecent" /\ p.kind = "delrecent"
<1>1. CASE c \in Slash \/ p.kind = "none"
  <2>1. TextStep(c, p) = FreshStep(c)
    BY <1>1 DEF TextStep
  <2> QED
    BY <2>1
<1>2. CASE c \notin Slash /\ p.kind = "card"
  <2>1. TextStep(c, p) = ConfirmStep(c, p.tx)
    BY <1>2 DEF TextStep
  <2> QED
    BY <1>2, <2>1
<1>3. CASE c \notin Slash /\ p.kind = "edit"
  <2>1. TextStep(c, p) = IF tx[p.tx].status = "awaiting" THEN "applyEdit" ELSE "clear"
    BY <1>3 DEF TextStep
  <2> QED
    BY <1>3, <2>1
<1>4. CASE c \notin Slash /\ p.kind = "delaccount"
  <2>1. TextStep(c, p) = IF c = "confirm" THEN "markDeleting" ELSE "clear"
    BY <1>4 DEF TextStep
  <2> QED
    BY <2>1
<1>5. CASE c \notin Slash /\ p.kind = "delrecent"
  <2>1. TextStep(c, p) = IF c = "confirm" THEN "deleteRecent" ELSE "clear"
    BY <1>5 DEF TextStep
  <2> QED
    BY <1>5, <2>1
<1> QED
  BY <1>1, <1>2, <1>3, <1>4, <1>5 DEF About

(* Where routing leads: to a step that fits the user's status and the open   *)
(* question.                                                                 *)
LEMMA RoutedStep ==
  ASSUME CoreInv, NEW u \in Users, NEW m \in DOMAIN script, users[u] \in {"pending", "active", "suspended"}
  PROVE  /\ RouteStep(m, u) \in ActiveSteps \cup {"consent", "reply", "reshow"}
         /\ RouteStep(m, u) \in ActiveSteps \cup {"reshow"} => users[u] = "active" /\ allowed
         /\ RouteStep(m, u) = "consent" => users[u] = "pending" /\ allowed
         /\ RouteStep(m, u) \in CardSteps \cup {"reshow"} => Open(u).kind = "card"
         /\ RouteStep(m, u) \in EditSteps => Open(u).kind = "edit"
         /\ RouteStep(m, u) = "deleteRecent" => Open(u).kind = "delrecent"
         /\ RouteStep(m, u) # "relearn"
<1>1. script[m] \in Contents
  BY DEF CoreInv, ChatTypeOK, InboundTypeOK
<1>2. Open(u) \in PendingRow /\ Open(u).kind \in About \cup {"none", "delaccount"}
  BY DEF CoreInv, ChatTypeOK, RecordsTypeOK, Open, PendingRow, NoPending, About
<1>3. CASE ~allowed \/ users[u] = "suspended"
  BY <1>3 DEF RouteStep, ActiveSteps, CardSteps, EditSteps
<1>4. CASE allowed /\ users[u] = "pending"
  BY <1>4 DEF RouteStep, ConsentStep, ActiveSteps, CardSteps, EditSteps
<1>5. CASE allowed /\ users[u] = "active"
  <2>1. RouteStep(m, u) = ActiveStep(script[m], Open(u))
    BY <1>5 DEF RouteStep
  <2>2. \A c \in Contents : FreshStep(c) \in {"catalogue", "reject", "persist", "export", "askDelete",
                                              "askDeleteRecent", "recategorise", "reply"}
    BY DEF FreshStep
  <2>3. \A c \in Contents : \A t : ConfirmStep(c, t) \in
           {"confirm", "clear", "discard", "askEdit", "reshow", FreshStep(c)}
    BY DEF ConfirmStep
  <2>4. \/ TextStep(script[m], Open(u)) \in {FreshStep(script[m]), "clear", "markDeleting"}
        \/ TextStep(script[m], Open(u)) = ConfirmStep(script[m], Open(u).tx) /\ Open(u).kind = "card"
        \/ TextStep(script[m], Open(u)) = "applyEdit" /\ Open(u).kind = "edit"
        \/ TextStep(script[m], Open(u)) = "deleteRecent" /\ Open(u).kind = "delrecent"
    BY <1>2, AnsweredStep
  <2>5. ActiveStep(script[m], Open(u)) \in {"register", "reply", TextStep(script[m], Open(u))}
    BY DEF ActiveStep
  <2> HIDE DEF TextStep, ActiveStep, ConfirmStep, FreshStep, RouteStep, Open
  <2>6. FreshStep(script[m]) \in {"catalogue", "reject", "persist", "export", "askDelete",
                                  "askDeleteRecent", "recategorise", "reply"}
    BY <1>1, <2>2
  <2>7. ConfirmStep(script[m], Open(u).tx) \in
          {"confirm", "clear", "discard", "askEdit", "reshow", FreshStep(script[m])}
    BY <1>1, <2>3
  <2> QED
    BY <1>5, <2>1, <2>4, <2>5, <2>6, <2>7 DEF ActiveSteps, CardSteps, EditSteps
<1> QED
  BY <1>3, <1>4, <1>5

(* The first step under the lock. *)
Enters(h) ==
  /\ users[who[h]] \in {"pending", "active", "suspended"}
  /\ lock[who[h]] = Nobody
  /\ lock' = [lock EXCEPT ![who[h]] = h]
  /\ \E s \in ActiveSteps \cup {"consent", "reply"} :
       /\ Goto(h, s)
       /\ s \in ActiveSteps => users[who[h]] = "active" /\ allowed
       /\ s = "consent" => users[who[h]] = "pending" /\ allowed
       /\ s \in CardSteps => pending'[who[h]].kind = "card"
       /\ s \in EditSteps => pending'[who[h]].kind = "edit"
       /\ s = "deleteRecent" => pending'[who[h]].kind = "delrecent"
       /\ s # "relearn"
  /\ pending' \in {pending, [pending EXCEPT ![who[h]] = Open(who[h])]}
  /\ \E q \in Saying : say' = [say EXCEPT ![h] = q]
  /\ msg' = IF ~allowed /\ Mine(h) THEN [msg EXCEPT ![cur[h]].raw = "redacted"] ELSE msg
  /\ UNCHANGED <<err, history>>

PassesBy(h) ==
  /\ Gone(who[h])
  /\ at' = [at EXCEPT ![h] = "mark"]
  /\ err' = [err EXCEPT ![h] = FALSE]
  /\ handled' = [handled EXCEPT ![cur[h]] = TRUE]
  /\ UNCHANGED <<lock, msg, pending, say, consented>>

LEMMA EnterMoves ==
  ASSUME CoreInv, NEW h \in Attempts, Enter(h)
  PROVE  /\ at[h] = "enter" /\ who[h] \in Users /\ cur[h] \in DOMAIN script
         /\ Enters(h) \/ PassesBy(h)
         /\ UNCHANGED <<setting, acked, people, cur, redact, pm, who, faults>>
         /\ UNCHANGED <<tx, receipt, used, memory, speech, deeds>>
<1> DEFINE u == who[h]
           step == RouteStep(cur[h], u)
<1>1. at[h] = "enter" /\ u \in Users /\ users[u] # "none" /\ cur[h] \in DOMAIN script /\ users[u] \in UserStatus
  BY DEF Enter, CoreInv, UserInv, HandInv, ChatTypeOK, InboundTypeOK
<1>2. /\ UNCHANGED <<setting, acked, people, cur, redact, pm, who, faults>>
      /\ UNCHANGED <<tx, receipt, used, memory, speech, deeds>>
  BY DEF Enter
<1>3. CASE Gone(u)
  <2>1. cur[h] \in Messages /\ handled \in [Messages -> BOOLEAN]
    BY <1>1 DEF CoreInv, ChatTypeOK, InboundTypeOK
  <2> QED
    BY <1>1, <1>2, <1>3, <2>1 DEF Enter, PassesBy, EndRoute, Goto
<1>4. CASE ~Gone(u)
  <2>1. users[u] \in {"pending", "active", "suspended"}
    BY <1>1, <1>4 DEF Gone, UserStatus
  <2> HIDE DEF step
  <2>2. /\ step \in ActiveSteps \cup {"consent", "reply", "reshow"}
        /\ step \in ActiveSteps \cup {"reshow"} => users[u] = "active" /\ allowed
        /\ step = "consent" => users[u] = "pending" /\ allowed
        /\ step \in CardSteps \cup {"reshow"} => Open(u).kind = "card"
        /\ step \in EditSteps => Open(u).kind = "edit"
        /\ step = "deleteRecent" => Open(u).kind = "delrecent"
        /\ step # "relearn"
    BY <1>1, <2>1, RoutedStep DEF step
  <2>3. /\ Goto(h, IF step = "reshow" THEN "reply" ELSE step)
        /\ lock[u] = Nobody /\ lock' = [lock EXCEPT ![u] = h]
        /\ say' = [say EXCEPT ![h] = IF step = "reshow" THEN Question("card", pending[u].tx) ELSE Notice]
        /\ msg' = IF ~allowed /\ Mine(h) THEN [msg EXCEPT ![cur[h]].raw = "redacted"] ELSE msg
        /\ pending' = IF allowed /\ users[u] = "active" /\ script[cur[h]] \in Texts
                      THEN [pending EXCEPT ![u] = Open(u)] ELSE pending
        /\ UNCHANGED <<err, history>>
    BY <1>4 DEF Enter, step
  <2>4. pending' \in {pending, [pending EXCEPT ![u] = Open(u)]}
    BY <2>3
  <2>5. Open(u).kind # "none" => pending'[u].kind = Open(u).kind /\ pending[u].kind = Open(u).kind
    BY <1>1, <2>4 DEF Open, NoPending, CoreInv, ChatTypeOK, RecordsTypeOK
  <2>6. (IF step = "reshow" THEN Question("card", pending[u].tx) ELSE Notice) \in Saying
    <3>1. pending[u] \in PendingRow
      BY <1>1 DEF CoreInv, ChatTypeOK, RecordsTypeOK
    <3>2. pending[u].kind = "card" => pending[u].tx \in Messages
      BY <3>1 DEF PendingRow, About
    <3> QED
      BY <2>2, <2>5, <3>2 DEF Question, Notice, Saying, About, Subjects
  <2>7. \E s \in ActiveSteps \cup {"consent", "reply"} :
       /\ Goto(h, s)
       /\ s \in ActiveSteps => users[who[h]] = "active" /\ allowed
       /\ s = "consent" => users[who[h]] = "pending" /\ allowed
       /\ s \in CardSteps => pending'[who[h]].kind = "card"
       /\ s \in EditSteps => pending'[who[h]].kind = "edit"
       /\ s = "deleteRecent" => pending'[who[h]].kind = "delrecent"
       /\ s # "relearn"
    <3>1. CASE step = "reshow"
      <4> WITNESS "reply" \in ActiveSteps \cup {"consent", "reply"}
      <4> QED
        BY <2>3, <3>1 DEF ActiveSteps, CardSteps, EditSteps
    <3>2. CASE step # "reshow"
      <4>1. step \in ActiveSteps \cup {"consent", "reply"} /\ Goto(h, step)
        BY <2>2, <2>3, <3>2
      <4> QED
        BY <2>2, <2>5, <4>1
    <3> QED
      BY <3>1, <3>2
  <2>8. Enters(h)
    BY <2>1, <2>3, <2>4, <2>6, <2>7 DEF Enters
  <2> QED
    BY <1>1, <1>2, <2>8
<1> QED
  BY <1>3, <1>4

-----------------------------------------------------------------------------
(* Steps outside the lock. *)

OutsideStep(h) ==
  \/ \E m \in Messages : Deliver(h, m)
  \/ InboundStep(h) \/ Crash(h) \/ AnswerLost(h) \/ StatementFails(h)

(* The attempt is outside the lock afterwards, and no other is affected. *)
Outside(h) ==
  /\ UNCHANGED <<setting, consented>>
  /\ \E s \in OpenSteps : Goto(h, s)
  /\ Unlock(h)
  /\ \A g \in Attempts : g # h => /\ cur'[g] = cur[g] /\ redact'[g] = redact[g] /\ pm'[g] = pm[g]
                                  /\ who'[g] = who[g] /\ err'[g] = err[g]
  /\ \A m \in Messages : m # cur[h] => msg'[m] = msg[m]
  /\ \A m \in Messages : msg'[m].id >= msg[m].id
  /\ at'[h] \notin {"idle", "claim"} => cur'[h] = cur[h] /\ redact'[h] = redact[h]

LEMMA NotHolding ==
  ASSUME CoreInv, NEW h \in Attempts, at[h] \notin LockedSteps, UNCHANGED lock
  PROVE  Unlock(h)
  BY DEF CoreInv, LockInv, ChatTypeOK, InboundTypeOK, Unlock

LEMMA OutsideMoves ==
  ASSUME CoreInv, NEW h \in Attempts, OutsideStep(h)
  PROVE  Outside(h)
<1> USE DEF ChatTypeOK, InboundTypeOK, MessageRow, setting, people, local, faults, history, Goto,
            OpenSteps
<1>0. /\ at \in [Attempts -> ChatSteps] /\ cur \in [Attempts -> Messages] /\ redact \in [Attempts -> BOOLEAN]
      /\ pm \in [Attempts -> Nat] /\ who \in [Attempts -> Owners] /\ err \in [Attempts -> BOOLEAN]
      /\ msg \in [Messages -> MessageRow]
  BY DEF CoreInv
<1>a. at[h] \in {"claim", "resolve", "create", "own", "enter", "mark", "idle"} => at[h] \notin LockedSteps
  BY DEF LockedSteps, ActiveSteps, GoingSteps, CardSteps, EditSteps
<1>1. ASSUME NEW m \in Messages, Deliver(h, m)
      PROVE  Outside(h)
  <2>1. Unlock(h)
    BY <1>1, <1>a, NotHolding DEF Deliver
  <2> QED
    BY <1>0, <1>1, <2>1 DEF Deliver, Outside
<1>2. CASE ClaimProviderMessage(h)
  <2>1. Unlock(h)
    BY <1>2, <1>a, NotHolding DEF ClaimProviderMessage
  <2>2. CASE InsertMessage(h)
    BY <1>0, <1>2, <2>1, <2>2 DEF ClaimProviderMessage, InsertMessage, Outside
  <2>3. CASE ReclaimMessage(h)
    <3>1. msg' = [msg EXCEPT ![cur[h]].status = "received", ![cur[h]].leased = TRUE,
                             ![cur[h]].raw = IF redact[h] /\ allowed THEN "redacted" ELSE @]
      BY <2>3 DEF ReclaimMessage
    <3>2. \A m \in Messages : msg'[m].id = msg[m].id /\ (m # cur[h] => msg'[m] = msg[m])
      BY <1>0, <3>1
    <3> QED
      BY <1>0, <1>2, <2>1, <2>3, <3>2 DEF ClaimProviderMessage, ReclaimMessage, Outside
  <2>4. CASE Absorb(h) \/ RefuseAltered(h)
    BY <1>0, <1>2, <2>1, <2>4 DEF ClaimProviderMessage, Absorb, RefuseAltered, Return, Forget, Outside
  <2> QED
    BY <1>2, <2>2, <2>3, <2>4 DEF ClaimProviderMessage
<1>3. CASE ResolveUser(h)
  <2>1. Unlock(h)
    BY <1>3, <1>a, NotHolding DEF ResolveUser
  <2> QED
    BY <1>0, <1>3, <2>1 DEF ResolveUser, Outside
<1>4. CASE CreateUserWithIdentity(h)
  <2>1. Unlock(h)
    BY <1>4, <1>a, NotHolding DEF CreateUserWithIdentity
  <2> QED
    BY <1>0, <1>4, <2>1 DEF CreateUserWithIdentity, Outside
<1>5. CASE SetProviderMessageUser(h)
  <2>1. Unlock(h)
    BY <1>5, <1>a, NotHolding DEF SetProviderMessageUser
  <2>2. \A m \in Messages : msg'[m].id = msg[m].id /\ (m # cur[h] => msg'[m] = msg[m])
    <3>1. msg' = msg \/ msg' = [msg EXCEPT ![cur[h]].owner = who[h]]
      BY <1>5 DEF SetProviderMessageUser
    <3> QED
      BY <1>0, <3>1
  <2>3. Goto(h, "enter") \/ Goto(h, "mark")
    BY <1>5 DEF SetProviderMessageUser, EndRoute
  <2>4. err' = err \/ err' = [err EXCEPT ![h] = TRUE]
    BY <1>5 DEF SetProviderMessageUser, EndRoute
  <2>5. UNCHANGED <<setting, consented, cur, redact, pm, who>>
    BY <1>5 DEF SetProviderMessageUser, EndRoute
  <2> QED
    BY <1>0, <2>1, <2>2, <2>3, <2>4, <2>5 DEF Outside
<1>6. CASE MarkProviderMessage(h)
  <2>1. Unlock(h)
    BY <1>6, <1>a, NotHolding DEF MarkProviderMessage
  <2>2. \A m \in Messages : msg'[m].id = msg[m].id /\ (m # cur[h] => msg'[m] = msg[m])
    BY <1>0, <1>6 DEF MarkProviderMessage
  <2>3. Return(h, ~err[h]) \/ Return(h, ~err[h] /\ users[who[h]] = "deleted")
    BY <1>6 DEF MarkProviderMessage
  <2>4. Forget(h) /\ Goto(h, "idle")
    BY <2>3 DEF Return
  <2> QED
    BY <1>0, <1>6, <2>1, <2>2, <2>4 DEF MarkProviderMessage, Forget, Outside
<1>7. CASE Crash(h)
  BY <1>0, <1>7 DEF Crash, Forget, Outside
<1>8. CASE AnswerLost(h)
  <2>1. Unlock(h)
    BY <1>8, <1>a, NotHolding DEF AnswerLost
  <2>2. \A m \in Messages : msg'[m].id = msg[m].id /\ (m # cur[h] => msg'[m] = msg[m])
    BY <1>0, <1>8 DEF AnswerLost
  <2> QED
    BY <1>0, <1>8, <2>1, <2>2 DEF AnswerLost, Return, Forget, Outside
<1>9. CASE StatementFails(h)
  <2>1. Unlock(h)
    BY <1>9, <1>a, NotHolding DEF StatementFails
  <2> QED
    BY <1>0, <1>9, <2>1 DEF StatementFails, Return, Forget, EndRoute, Outside
<1> QED
  BY <1>1, <1>2, <1>3, <1>4, <1>5, <1>6, <1>7, <1>8, <1>9 DEF OutsideStep, InboundStep

(* NewUser is the first number that is free. *)
LEMMA FirstFree ==
  ASSUME Numbered, NEW u \in Users, users[u] = "none"
  PROVE  /\ NewUser \in Users /\ users[NewUser] = "none"
         /\ \A v \in 1 .. NewUser - 1 : users[v] # "none"
<1>1. PICK n \in 0 .. MaxUsers : \A v \in Users : users[v] # "none" <=> v <= n
  BY DEF Numbered
<1>2. n + 1 \in Users /\ \A v \in 1 .. (n + 1) - 1 : v \in Users /\ v <= n
  BY <1>1, InboundBounds DEF Users
<1>3. users[n + 1] = "none" /\ \A v \in 1 .. (n + 1) - 1 : users[v] # "none"
  BY <1>1, <1>2, InboundBounds DEF Users
<1> QED
  BY <1>2, <1>3 DEF NewUser

(* Writing columns of a message row. *)
LEMMA MarkedRow ==
  ASSUME NEW f \in [Messages -> MessageRow], NEW m \in Messages,
         NEW s \in {"none", "received", "failed", "processed"}, NEW l \in BOOLEAN
  PROVE  [f EXCEPT ![m].status = s, ![m].leased = l] \in [Messages -> MessageRow]
  BY DEF MessageRow

LEMMA LeasedRow ==
  ASSUME NEW f \in [Messages -> MessageRow], NEW m \in Messages, NEW l \in BOOLEAN
  PROVE  [f EXCEPT ![m].leased = l] \in [Messages -> MessageRow]
  BY DEF MessageRow

(* What the sweep leaves of a tombstone: an attempt at work is not on it.    *)
LEMMA TombstoneGoes ==
  ASSUME msg \in [Messages -> MessageRow], NEW m \in Messages, DeleteExpiredTombstone(m)
  PROVE  /\ msg' \in [Messages -> MessageRow]
         /\ \A k \in Messages : msg'[k].id = msg[k].id /\ msg'[k].raw = msg[k].raw
                                /\ (k # m => msg'[k] = msg[k])
         /\ msg'[m].status = "none" /\ msg'[m].owner = NoUser /\ ~msg'[m].leased
         /\ msg[m].raw = "none" /\ Row(m)
         /\ \A g \in Attempts : at[g] \notin {"idle", "claim"} /\ cur[g] = m => ~Mine(g)
         /\ lapses' = lapses + 1
         /\ UNCHANGED <<setting, acked, people, lock, at, local, crashes, errors, history>>
<1> DEFINE gone == [NoRow EXCEPT !.id = msg[m].id]
<1>1. msg[m].id \in Nat
  BY DEF MessageRow
<1>2. /\ gone.id = msg[m].id /\ gone.status = "none" /\ gone.owner = NoUser /\ gone.raw = "none"
      /\ gone.leased = FALSE
  BY DEF NoRow
<1>3. gone \in MessageRow
  BY <1>1 DEF NoRow, MessageRow, Owners
<1> HIDE DEF gone
<1>4. msg' = [msg EXCEPT ![m] = gone] /\ msg[m].raw = "none" /\ Row(m) /\ ~AtWork(m)
  BY DEF DeleteExpiredTombstone, gone
<1>5. msg' \in [Messages -> MessageRow]
  BY <1>3, <1>4
<1>6. msg'[m] = gone /\ \A k \in Messages : k # m => msg'[k] = msg[k]
  BY <1>4
<1>7. \A g \in Attempts : at[g] \notin {"idle", "claim"} /\ cur[g] = m => ~Mine(g)
  BY <1>4 DEF AtWork, Mine
<1> QED
  BY <1>2, <1>4, <1>5, <1>6, <1>7 DEF DeleteExpiredTombstone

LEMMA OwnedRow ==
  ASSUME NEW f \in [Messages -> MessageRow], NEW m \in Messages, NEW o \in Owners
  PROVE  [f EXCEPT ![m].owner = o] \in [Messages -> MessageRow]
  BY DEF MessageRow

LEMMA RawRow ==
  ASSUME NEW f \in [Messages -> MessageRow], NEW m \in Messages, NEW r \in {"none", "kept", "redacted"}
  PROVE  [f EXCEPT ![m].raw = r] \in [Messages -> MessageRow]
  BY DEF MessageRow

LEMMA ReclaimedRow ==
  ASSUME NEW f \in [Messages -> MessageRow], NEW m \in Messages, NEW r \in {"none", "kept", "redacted"}
  PROVE  [f EXCEPT ![m].status = "received", ![m].leased = TRUE, ![m].raw = r] \in [Messages -> MessageRow]
<1> DEFINE g == [f EXCEPT ![m].status = "received", ![m].leased = TRUE]
<1>1. [f EXCEPT ![m].status = "received", ![m].leased = TRUE, ![m].raw = r] = [g EXCEPT ![m].raw = r]
  OBVIOUS
<1>2. g \in [Messages -> MessageRow]
  BY MarkedRow
<1>3. [g EXCEPT ![m].raw = r] \in [Messages -> MessageRow]
  <2> HIDE DEF g
  <2> QED
    BY <1>2, RawRow
<1> QED
  BY <1>1, <1>3

LEMMA CallTypes ==
  ASSUME CoreInv, NEW h \in Attempts, OutsideStep(h)
  PROVE  InboundTypeOK'
<1> USE DEF InboundTypeOK, setting, people, local, faults, history, Goto, Owners, NoUser
<1>0. InboundTypeOK
  BY DEF CoreInv, ChatTypeOK
<1>a. "idle" \in ChatSteps /\ "claim" \in ChatSteps /\ "resolve" \in ChatSteps /\ "create" \in ChatSteps
      /\ "own" \in ChatSteps /\ "enter" \in ChatSteps /\ "mark" \in ChatSteps
  BY DEF ChatSteps, OpenSteps
<1>b. 1 \in Messages
  BY InboundBounds DEF Messages
<1>c. (\E s \in OpenSteps : Goto(h, s)) => at' \in [Attempts -> ChatSteps]
  BY <1>0 DEF ChatSteps
<1>d. at' \in [Attempts -> ChatSteps]
  BY <1>c, OutsideMoves DEF Outside
<1>e. Unlock(h) => lock' \in [Users -> Attempts \cup {Nobody, Worker}]
  BY <1>0 DEF Unlock
<1>f. lock' \in [Users -> Attempts \cup {Nobody, Worker}]
  BY <1>e, OutsideMoves DEF Outside
<1>g. Forget(h) => /\ cur' \in [Attempts -> Messages] /\ redact' \in [Attempts -> BOOLEAN]
                   /\ pm' \in [Attempts -> Nat] /\ who' \in [Attempts -> Owners] /\ err' \in [Attempts -> BOOLEAN]
  BY <1>0, <1>b DEF Forget
<1>h. ASSUME NEW ok \in BOOLEAN, Return(h, ok)
      PROVE  /\ cur' \in [Attempts -> Messages] /\ redact' \in [Attempts -> BOOLEAN]
             /\ pm' \in [Attempts -> Nat] /\ who' \in [Attempts -> Owners] /\ err' \in [Attempts -> BOOLEAN]
             /\ acked' \in [Messages -> BOOLEAN]
  BY <1>0, <1>g, <1>h DEF Return
<1>i. cur[h] \in Messages /\ who[h] \in Owners /\ msg \in [Messages -> MessageRow]
  BY <1>0
<1>1. ASSUME NEW m \in Messages, Deliver(h, m)
      PROVE  InboundTypeOK'
  <2>1. (~allowed \/ MustRedact(m)) \in BOOLEAN
    BY DEF MustRedact
  <2>2. redact' \in [Attempts -> BOOLEAN]
    BY <1>0, <1>1, <2>1 DEF Deliver
  <2> QED
    BY <1>0, <1>1, <1>d, <2>2 DEF Deliver
<1>2. CASE ClaimProviderMessage(h)
  <2>1. CASE InsertMessage(h)
    <3>1. msg' \in [Messages -> MessageRow]
      BY <1>0, <2>1 DEF InsertMessage, MessageRow
    <3> QED
      BY <1>0, <1>2, <1>d, <2>1, <3>1 DEF ClaimProviderMessage, InsertMessage, MessageRow
  <2>2. CASE ReclaimMessage(h)
    <3>1. msg' \in [Messages -> MessageRow]
      <4>1. msg' = [msg EXCEPT ![cur[h]].status = "received", ![cur[h]].leased = TRUE,
                               ![cur[h]].raw = IF redact[h] /\ allowed THEN "redacted" ELSE @]
        BY <2>2 DEF ReclaimMessage
      <4>2. msg[cur[h]].raw \in {"none", "kept", "redacted"}
        BY <1>0 DEF MessageRow
      <4>3. msg' = [msg EXCEPT ![cur[h]].status = "received", ![cur[h]].leased = TRUE,
                               ![cur[h]].raw = IF redact[h] /\ allowed THEN "redacted" ELSE msg[cur[h]].raw]
        BY <4>1
      <4> QED
        BY <1>i, <4>2, <4>3, ReclaimedRow, Zenon
    <3> QED
      BY <1>0, <1>2, <1>d, <2>2, <3>1 DEF ClaimProviderMessage, ReclaimMessage, MessageRow
  <2>3. CASE Absorb(h) \/ RefuseAltered(h)
    <3>1. (\E ok \in BOOLEAN : Return(h, ok)) /\ UNCHANGED msg
      BY <2>3 DEF Absorb, RefuseAltered
    <3> QED
      BY <1>0, <1>2, <1>d, <1>h, <3>1 DEF ClaimProviderMessage
  <2> QED
    BY <1>2, <2>1, <2>2, <2>3 DEF ClaimProviderMessage
<1>3. CASE ResolveUser(h)
  <2>1. who' \in [Attempts -> Owners]
    BY <1>0, <1>3 DEF ResolveUser
  <2> QED
    BY <1>0, <1>3, <1>d, <2>1 DEF ResolveUser
<1>4. CASE CreateUserWithIdentity(h)
  <2>1. \/ who' = [who EXCEPT ![h] = identity] /\ UNCHANGED people
        \/ /\ \E u \in Users : users[u] = "none"
           /\ who' = [who EXCEPT ![h] = NewUser] /\ users' = [users EXCEPT ![NewUser] = "pending"]
           /\ identity' = NewUser
    BY <1>4 DEF CreateUserWithIdentity
  <2>2. (\E u \in Users : users[u] = "none") => NewUser \in Users
    BY FirstFree DEF CoreInv
  <2>3. who' \in [Attempts -> Owners] /\ identity' \in Owners /\ users' \in [Users -> UserStatus]
    <3>1. CASE who' = [who EXCEPT ![h] = identity] /\ UNCHANGED people
      BY <1>0, <3>1
    <3>2. CASE /\ \E u \in Users : users[u] = "none"
               /\ who' = [who EXCEPT ![h] = NewUser] /\ users' = [users EXCEPT ![NewUser] = "pending"]
               /\ identity' = NewUser
      BY <1>0, <2>2, <3>2 DEF UserStatus
    <3> QED
      BY <2>1, <3>1, <3>2
  <2> QED
    BY <1>0, <1>4, <1>d, <2>3 DEF CreateUserWithIdentity
<1>5. CASE SetProviderMessageUser(h)
  <2>1. msg' = msg \/ msg' = [msg EXCEPT ![cur[h]].owner = who[h]]
    BY <1>5 DEF SetProviderMessageUser
  <2>2. msg' \in [Messages -> MessageRow]
    <3>1. [msg EXCEPT ![cur[h]].owner = who[h]] \in [Messages -> MessageRow]
      BY <1>i, OwnedRow, Zenon
    <3> QED
      BY <1>i, <2>1, <3>1, Zenon
  <2>3. /\ err' \in [Attempts -> BOOLEAN] /\ handled' \in [Messages -> BOOLEAN]
        /\ consented' \in BOOLEAN
    BY <1>0, <1>5 DEF SetProviderMessageUser, EndRoute
  <2> QED
    BY <1>0, <1>5, <1>d, <2>2, <2>3 DEF SetProviderMessageUser
<1>6. CASE MarkProviderMessage(h)
  <2>1. /\ cur' \in [Attempts -> Messages] /\ redact' \in [Attempts -> BOOLEAN]
        /\ pm' \in [Attempts -> Nat] /\ who' \in [Attempts -> Owners] /\ err' \in [Attempts -> BOOLEAN]
        /\ acked' \in [Messages -> BOOLEAN]
    BY <1>6, <1>h DEF MarkProviderMessage
  <2>2. \/ msg' = msg
        \/ \E s \in {"failed", "processed"} : msg' = [msg EXCEPT ![cur[h]].status = s, ![cur[h]].leased = FALSE]
    BY <1>6 DEF MarkProviderMessage
  <2>3. msg' \in [Messages -> MessageRow]
    <3>1. ASSUME NEW s \in {"failed", "processed"}
          PROVE  [msg EXCEPT ![cur[h]].status = s, ![cur[h]].leased = FALSE] \in [Messages -> MessageRow]
      BY <1>i, MarkedRow, Zenon
    <3> QED
      BY <1>i, <2>2, <3>1, Zenon
  <2> QED
    BY <1>0, <1>6, <1>d, <2>1, <2>3 DEF MarkProviderMessage
<1>7. CASE Crash(h)
  BY <1>0, <1>7, <1>d, <1>f, <1>g DEF Crash
<1>8. CASE AnswerLost(h)
  <2>1. msg' \in [Messages -> MessageRow]
    BY <1>0, <1>8, MarkedRow DEF AnswerLost
  <2>2. Return(h, FALSE)
    BY <1>8 DEF AnswerLost
  <2> QED
    <3>1. /\ cur' \in [Attempts -> Messages] /\ redact' \in [Attempts -> BOOLEAN]
          /\ pm' \in [Attempts -> Nat] /\ who' \in [Attempts -> Owners] /\ err' \in [Attempts -> BOOLEAN]
          /\ acked' \in [Messages -> BOOLEAN]
      BY <1>h, <2>2
    <3> QED
      BY <1>0, <1>8, <1>d, <2>1, <3>1 DEF AnswerLost
<1>9. CASE StatementFails(h)
  <2>1. CASE Return(h, FALSE) /\ UNCHANGED history
    <3>1. /\ cur' \in [Attempts -> Messages] /\ redact' \in [Attempts -> BOOLEAN]
          /\ pm' \in [Attempts -> Nat] /\ who' \in [Attempts -> Owners] /\ err' \in [Attempts -> BOOLEAN]
          /\ acked' \in [Messages -> BOOLEAN]
      BY <1>h, <2>1
    <3> QED
      BY <1>0, <1>9, <1>d, <2>1, <3>1 DEF StatementFails
  <2>2. CASE EndRoute(h, TRUE) /\ UNCHANGED <<acked, cur, redact, pm, who>>
    BY <1>0, <1>9, <1>d, <2>2 DEF StatementFails, EndRoute
  <2> QED
    BY <1>9, <2>1, <2>2 DEF StatementFails
<1> QED
  BY <1>1, <1>2, <1>3, <1>4, <1>5, <1>6, <1>7, <1>8, <1>9 DEF OutsideStep, InboundStep

(* Who the sender is changes outside the lock only with the first contact.  *)
FirstContact(h) ==
  /\ at[h] = "create" /\ identity = NoUser
  /\ NewUser \in Users /\ users[NewUser] = "none" /\ \A v \in 1 .. NewUser - 1 : users[v] # "none"
  /\ users' = [users EXCEPT ![NewUser] = "pending"]
  /\ identity' = NewUser
  /\ at' = [at EXCEPT ![h] = "own"] /\ who' = [who EXCEPT ![h] = NewUser]

LEMMA PeopleOutside ==
  ASSUME CoreInv, NEW h \in Attempts, OutsideStep(h)
  PROVE  UNCHANGED people \/ FirstContact(h)
<1>1. ASSUME NEW m \in Messages, Deliver(h, m)
      PROVE  UNCHANGED people
  BY <1>1 DEF Deliver
<1>2. CASE CreateUserWithIdentity(h)
  BY <1>2, FirstFree DEF CreateUserWithIdentity, FirstContact, Goto, CoreInv
<1>3. CASE ~CreateUserWithIdentity(h) /\ InboundStep(h)
  BY <1>3 DEF InboundStep, ClaimProviderMessage, ResolveUser, SetProviderMessageUser,
     MarkProviderMessage
<1>4. CASE Crash(h) \/ AnswerLost(h) \/ StatementFails(h)
  BY <1>4 DEF Crash, AnswerLost, StatementFails
<1> QED
  BY <1>1, <1>2, <1>3, <1>4 DEF OutsideStep, InboundStep

(* What an attempt outside the lock knows after its step. *)
LEMMA KnowsOutside ==
  ASSUME CoreInv, NEW h \in Attempts, OutsideStep(h)
  PROVE  /\ at'[h] \in {"own", "enter"} => who'[h] \in Users /\ users'[who'[h]] # "none"
         /\ at'[h] = "mark" => err'[h]
         /\ at'[h] # "idle" => cur'[h] \in DOMAIN script
         /\ at'[h] \notin {"idle", "claim"} => pm'[h] <= msg'[cur'[h]].id
<1> USE DEF Goto, setting, people, local, faults, history
<1>0. /\ at \in [Attempts -> ChatSteps] /\ cur \in [Attempts -> Messages]
      /\ pm \in [Attempts -> Nat] /\ who \in [Attempts -> Owners] /\ err \in [Attempts -> BOOLEAN]
      /\ \A m \in Messages : msg[m].id \in Nat
      /\ msg \in [Messages -> MessageRow]
      /\ users \in [Users -> UserStatus] /\ identity \in Owners
  BY DEF CoreInv, ChatTypeOK, InboundTypeOK, MessageRow
<1>a. at[h] # "idle" => cur[h] \in DOMAIN script
  BY DEF CoreInv, HandInv
<1>b. at[h] \notin {"idle", "claim"} => pm[h] <= msg[cur[h]].id
  BY DEF CoreInv, HandInv
<1>c. /\ at[h] \in {"own", "enter"} => who[h] \in Users /\ users[who[h]] # "none"
      /\ identity # NoUser => identity \in Users /\ users[identity] # "none"
  BY <1>0 DEF CoreInv, UserInv, Owners
<1>d. /\ \A m \in Messages : msg'[m].id >= msg[m].id
      /\ at'[h] \notin {"idle", "claim"} => cur'[h] = cur[h]
  BY OutsideMoves DEF Outside
<1>e. msg' \in [Messages -> MessageRow] /\ \A m \in Messages : msg'[m].id \in Nat
  BY CallTypes DEF InboundTypeOK, MessageRow
<1>f. at[h] \notin {"idle", "claim"} /\ UNCHANGED pm /\ at'[h] \notin {"idle", "claim"}
        => pm'[h] <= msg'[cur'[h]].id
  BY <1>0, <1>b, <1>d, <1>e
<1>1. ASSUME NEW m \in Messages, Deliver(h, m)
      PROVE  at'[h] = "claim" /\ cur'[h] \in DOMAIN script
  BY <1>0, <1>1 DEF Deliver, Due
<1>2. CASE InsertMessage(h) /\ ClaimProviderMessage(h)
  BY <1>0, <1>2, <1>a DEF ClaimProviderMessage, InsertMessage
<1>3. CASE ReclaimMessage(h) /\ ClaimProviderMessage(h)
  BY <1>0, <1>3, <1>a, <1>d, <1>e DEF ClaimProviderMessage, ReclaimMessage
<1>4. CASE (Absorb(h) \/ RefuseAltered(h)) /\ ClaimProviderMessage(h)
  BY <1>0, <1>4 DEF Absorb, RefuseAltered, Return
<1>5. CASE ResolveUser(h)
  BY <1>0, <1>5, <1>a, <1>c, <1>f DEF ResolveUser
<1>6. CASE CreateUserWithIdentity(h)
  <2>1. \/ identity # NoUser /\ who' = [who EXCEPT ![h] = identity] /\ UNCHANGED people
        \/ /\ \E u \in Users : users[u] = "none"
           /\ who' = [who EXCEPT ![h] = NewUser] /\ users' = [users EXCEPT ![NewUser] = "pending"]
    BY <1>6 DEF CreateUserWithIdentity
  <2>2. (\E u \in Users : users[u] = "none") => NewUser \in Users
    BY FirstFree DEF CoreInv
  <2>3. who'[h] \in Users /\ users'[who'[h]] # "none"
    BY <1>0, <1>c, <2>1, <2>2
  <2>4. at[h] = "create" /\ at'[h] = "own" /\ UNCHANGED <<pm, cur, script>>
    BY <1>0, <1>6 DEF CreateUserWithIdentity
  <2> QED
    BY <1>0, <1>a, <1>f, <2>3, <2>4
<1>7. CASE SetProviderMessageUser(h)
  <2>1. at[h] = "own" /\ UNCHANGED <<pm, cur, who, users>>
    BY <1>7 DEF SetProviderMessageUser
  <2>2. at'[h] = "enter" \/ (at'[h] = "mark" /\ err'[h] = TRUE)
    BY <1>0, <1>7 DEF SetProviderMessageUser, EndRoute
  <2> QED
    BY <1>0, <1>a, <1>c, <1>f, <2>1, <2>2
<1>8. CASE MarkProviderMessage(h) \/ Crash(h) \/ AnswerLost(h)
  <2>1. Goto(h, "idle")
    BY <1>8 DEF MarkProviderMessage, Crash, AnswerLost, Return
  <2> QED
    BY <1>0, <2>1
<1>9. CASE StatementFails(h)
  <2>1. CASE at[h] \in {"claim", "mark"}
    BY <1>0, <1>9, <2>1 DEF StatementFails, Return
  <2>2. CASE at[h] \notin {"claim", "mark"}
    BY <1>0, <1>9, <1>a, <1>f, <2>2 DEF StatementFails, EndRoute
  <2> QED
    BY <2>1, <2>2
<1> QED
  BY <1>1, <1>2, <1>3, <1>4, <1>5, <1>6, <1>7, <1>8, <1>9
     DEF OutsideStep, InboundStep, ClaimProviderMessage

LEMMA OutsideKeepsCore ==
  ASSUME CoreInv, NEW h \in Attempts, OutsideStep(h), UNCHANGED chatVars
  PROVE  CoreInv'
<1> USE DEF chatVars, records, memory, speech, deeds, setting, people
<1>0. /\ at \in [Attempts -> ChatSteps] /\ lock \in [Users -> Attempts \cup {Nobody, Worker}]
      /\ users \in [Users -> UserStatus] /\ who \in [Attempts -> Owners]
      /\ Nobody \notin Attempts /\ Worker \notin Attempts \cup {Nobody} /\ NoUser \notin Users
  BY NobodyIsNoAttempt, ChatSettings DEF CoreInv, ChatTypeOK, InboundTypeOK, Users, NoUser
<1>1. ChatTypeOK'
  <2>1. InboundTypeOK'
    BY CallTypes
  <2>2. RecordsTypeOK' /\ MemoryTypeOK' /\ SpeechTypeOK'
    BY DEF CoreInv, ChatTypeOK, RecordsTypeOK, MemoryTypeOK, SpeechTypeOK
  <2> QED
    BY <2>1, <2>2 DEF ChatTypeOK
<1>2. /\ Outside(h)
      /\ UNCHANGED people \/ FirstContact(h)
  BY OutsideMoves, PeopleOutside
<1>3. /\ at'[h] \in OpenSteps /\ at'[h] \notin LockedSteps
      /\ \A g \in Attempts : g # h => at'[g] = at[g] /\ who'[g] = who[g]
  <2>1. PICK s \in OpenSteps : at' = [at EXCEPT ![h] = s]
    BY <1>2 DEF Outside, Goto
  <2>2. s \notin LockedSteps
    BY <2>1 DEF OpenSteps, LockedSteps, ActiveSteps, GoingSteps, CardSteps, EditSteps
  <2> QED
    BY <1>0, <1>2, <2>1, <2>2 DEF Outside
<1>4. LockInv'
  <2>1. ASSUME NEW g \in Attempts, at'[g] \in LockedSteps
        PROVE  who'[g] \in Users /\ lock'[who'[g]] = g
    BY <1>0, <1>2, <1>3, <2>1 DEF Outside, Unlock, CoreInv, LockInv
  <2>2. ASSUME NEW u \in Users, NEW g \in Attempts, lock'[u] = g
        PROVE  at'[g] \in LockedSteps /\ who'[g] = u
    BY <1>0, <1>2, <1>3, <2>2 DEF Outside, Unlock, CoreInv, LockInv
  <2>3. ASSUME review' # 0
        PROVE  /\ receipt'[review'].owner \in Users /\ lock'[receipt'[review'].owner] = Worker
               /\ users'[receipt'[review'].owner] \notin {"none", "deleted"}
    BY <1>0, <1>2, <2>3 DEF Outside, Unlock, CoreInv, LockInv, FirstContact
  <2> QED
    BY <2>1, <2>2, <2>3 DEF LockInv
<1>5. \A u \in Users : users[u] # "none" => users'[u] = users[u]
  BY <1>0, <1>2 DEF FirstContact
<1>6. UserInv'
  <2>1. ASSUME NEW u \in Users
        PROVE  (users'[u] \notin {"none", "deleted"}) <=> identity' = u
    BY <1>0, <1>2 DEF CoreInv, UserInv, FirstContact
  <2>2. ASSUME NEW g \in Attempts, g # h
        PROVE  /\ at'[g] \in {"own", "enter"} \cup LockedSteps => who'[g] \in Users /\ users'[who'[g]] # "none"
               /\ at'[g] = "mark" /\ ~err'[g] => who'[g] \in Users /\ users'[who'[g]] # "none"
               /\ at'[g] = "consent" => users'[who'[g]] = "pending"
               /\ at'[g] = "reply" => users'[who'[g]] \in {"pending", "active", "suspended"}
               /\ at'[g] \in ActiveSteps => users'[who'[g]] = "active"
               /\ at'[g] \in GoingSteps => users'[who'[g]] = "deleting"
               /\ at'[g] = "farewell" => users'[who'[g]] = "deleted"
    <3>1. at'[g] = at[g] /\ who'[g] = who[g] /\ err'[g] = err[g]
      BY <1>2, <1>3, <2>2 DEF Outside
    <3>2. who[g] \in Users /\ users[who[g]] # "none" => users'[who[g]] = users[who[g]]
      BY <1>5
    <3>3. at[g] \in ActiveSteps \cup GoingSteps \cup {"consent", "reply", "farewell"} => at[g] \in LockedSteps
      BY DEF LockedSteps
    <3> QED
      BY <3>1, <3>2, <3>3 DEF CoreInv, UserInv
  <2>3. /\ at'[h] \in {"own", "enter"} \cup LockedSteps => who'[h] \in Users /\ users'[who'[h]] # "none"
        /\ at'[h] = "mark" /\ ~err'[h] => who'[h] \in Users /\ users'[who'[h]] # "none"
        /\ at'[h] # "consent" /\ at'[h] # "reply" /\ at'[h] \notin ActiveSteps
        /\ at'[h] \notin GoingSteps /\ at'[h] # "farewell"
    BY <1>3, KnowsOutside DEF LockedSteps
  <2> QED
    BY <2>1, <2>2, <2>3 DEF UserInv
<1>7. HandInv'
  <2>1. ASSUME NEW g \in Attempts, g # h
        PROVE  /\ at'[g] # "idle" => cur'[g] \in DOMAIN script'
               /\ at'[g] \notin {"idle", "claim"} => pm'[g] <= msg'[cur'[g]].id
    <3>1. at'[g] = at[g] /\ cur'[g] = cur[g] /\ pm'[g] = pm[g] /\ script' = script
      BY <1>2, <1>3, <2>1 DEF Outside
    <3>2. cur[g] \in Messages /\ msg'[cur[g]].id >= msg[cur[g]].id /\ pm[g] \in Nat
          /\ msg[cur[g]].id \in Nat /\ msg'[cur[g]].id \in Nat
      BY <1>1, <1>2 DEF Outside, CoreInv, ChatTypeOK, InboundTypeOK, MessageRow
    <3> QED
      BY <3>1, <3>2 DEF CoreInv, HandInv
  <2> QED
    BY <1>2, <2>1, KnowsOutside DEF HandInv, Outside
<1>8. QuestionInv'
  <2>1. "relearn" \in LockedSteps /\ "deleteRecent" \in LockedSteps /\ CardSteps \cup EditSteps \subseteq LockedSteps
    BY DEF LockedSteps, ActiveSteps
  <2> QED
    BY <1>3, <2>1 DEF CoreInv, QuestionInv
<1>9. Numbered'
  <2>1. CASE UNCHANGED people
    BY <2>1 DEF CoreInv, Numbered
  <2>2. CASE FirstContact(h)
    <3>1. PICK n \in 0 .. MaxUsers : \A u \in Users : users[u] # "none" <=> u <= n
      BY DEF CoreInv, Numbered
    <3>2. NewUser = n + 1
      BY <2>2, <3>1, InboundBounds DEF FirstContact, Users
    <3>3. n + 1 \in 0 .. MaxUsers /\ \A u \in Users : users'[u] # "none" <=> u <= n + 1
      BY <1>0, <2>2, <3>1, <3>2, InboundBounds DEF FirstContact, Users
    <3> QED
      BY <3>3 DEF Numbered
  <2> QED
    BY <1>2, <2>1, <2>2
<1> QED
  BY <1>1, <1>4, <1>6, <1>7, <1>8, <1>9 DEF CoreInv

-----------------------------------------------------------------------------
(* Steps under the lock. *)

(* Only one attempt is under the lock, the farewell to a deleted user apart, *)
(* and none while the worker sends a card.                                   *)
LEMMA LoneHolder ==
  ASSUME CoreInv, NEW h \in Attempts, at[h] \in LockedSteps, at[h] # "farewell"
  PROVE  /\ identity = who[h] /\ who[h] \in Users /\ lock[who[h]] = h /\ review = 0
         /\ users[who[h]] \in {"pending", "active", "suspended", "deleting"}
         /\ \A g \in Attempts : g # h => at[g] \notin LockedSteps \/ at[g] = "farewell"
<1>1. ASSUME NEW g \in Attempts, at[g] \in LockedSteps, at[g] # "farewell"
      PROVE  /\ who[g] \in Users /\ lock[who[g]] = g
             /\ users[who[g]] \in {"pending", "active", "suspended", "deleting"}
             /\ identity = who[g]
  <2>1. who[g] \in Users /\ lock[who[g]] = g
    BY <1>1 DEF CoreInv, LockInv
  <2>2. users[who[g]] \in {"pending", "active", "suspended", "deleting"}
    BY <1>1 DEF CoreInv, UserInv, LockedSteps
  <2> QED
    BY <2>1, <2>2 DEF CoreInv, UserInv
<1>2. review = 0
  <2> SUFFICES ASSUME review # 0 PROVE FALSE
    OBVIOUS
  <2>1. /\ receipt[review].owner \in Users /\ lock[receipt[review].owner] = Worker
        /\ users[receipt[review].owner] \notin {"none", "deleted"}
    BY DEF CoreInv, LockInv
  <2>2. identity = receipt[review].owner
    BY <2>1 DEF CoreInv, UserInv
  <2> QED
    BY <1>1, <2>1, <2>2, ChatSettings
<1> QED
  BY <1>1, <1>2

LEMMA OrdinaryKeepsInbound ==
  ASSUME CoreInv, NEW h \in Attempts, Ordinary(h)
  PROVE  InboundTypeOK' /\ LockInv' /\ UserInv' /\ HandInv' /\ Numbered'
<1> USE DEF setting, people
<1>0. /\ at \in [Attempts -> ChatSteps] /\ lock \in [Users -> Attempts \cup {Nobody, Worker}]
      /\ users \in [Users -> UserStatus] /\ who \in [Attempts -> Owners]
      /\ err \in [Attempts -> BOOLEAN] /\ handled \in [Messages -> BOOLEAN] /\ cur \in [Attempts -> Messages]
      /\ Nobody \notin Attempts /\ Worker \notin Attempts \cup {Nobody} /\ errors \in Nat
  BY NobodyIsNoAttempt, ChatSettings DEF CoreInv, ChatTypeOK, InboundTypeOK
<1>1. at[h] \in LockedSteps
  BY DEF Ordinary, GoesOn, EndsRoute, LockedSteps, GoingSteps
<1>2. /\ at' \in [Attempts -> ChatSteps] /\ lock' \in [Users -> Attempts \cup {Nobody, Worker}]
      /\ err' \in [Attempts -> BOOLEAN] /\ handled' \in [Messages -> BOOLEAN] /\ errors' \in Nat
  <2>1. CASE GoesOn(h)
    <3>1. \E s \in ChatSteps : at' = [at EXCEPT ![h] = s]
      BY <2>1 DEF GoesOn, Goto, ChatSteps, LockedSteps, GoingSteps
    <3> QED
      BY <1>0, <2>1, <3>1 DEF Ordinary, GoesOn
  <2>2. CASE EndsRoute(h)
    <3>1. "mark" \in ChatSteps
      BY DEF ChatSteps, OpenSteps
    <3> QED
      BY <1>0, <2>2, <3>1 DEF Ordinary, EndsRoute, Unlock
  <2> QED
    BY <2>1, <2>2 DEF Ordinary
<1>3. InboundTypeOK'
  BY <1>2 DEF CoreInv, ChatTypeOK, InboundTypeOK, Ordinary
<1>4. /\ \A g \in Attempts : g # h => at'[g] = at[g] /\ err'[g] = err[g]
      /\ UNCHANGED <<who, users, identity, review>>
  BY <1>0 DEF Ordinary, GoesOn, EndsRoute, OwnRowsOnly, Goto
<1>5. \/ GoesOn(h) /\ at'[h] \in LockedSteps
      \/ EndsRoute(h) /\ at'[h] = "mark"
  BY <1>0 DEF Ordinary, GoesOn, EndsRoute, Goto, LockedSteps, GoingSteps
<1>6. "mark" \notin LockedSteps
  BY DEF LockedSteps, ActiveSteps, GoingSteps, CardSteps, EditSteps
<1>7. LockInv'
  <2>1. ASSUME NEW g \in Attempts, at'[g] \in LockedSteps
        PROVE  who'[g] \in Users /\ lock'[who'[g]] = g
    BY <1>0, <1>1, <1>4, <1>5, <1>6, <2>1 DEF GoesOn, EndsRoute, Unlock, CoreInv, LockInv
  <2>2. ASSUME NEW u \in Users, NEW g \in Attempts, lock'[u] = g
        PROVE  at'[g] \in LockedSteps /\ who'[g] = u
    BY <1>0, <1>1, <1>4, <1>5, <2>2 DEF GoesOn, EndsRoute, Unlock, CoreInv, LockInv
  <2>3. ASSUME review' # 0
        PROVE  /\ receipt'[review'].owner \in Users /\ lock'[receipt'[review'].owner] = Worker
               /\ users'[receipt'[review'].owner] \notin {"none", "deleted"}
    <3>1. at[h] = "farewell"
      BY <1>1, <1>4, <2>3, LoneHolder
    <3>2. UNCHANGED receipt /\ EndsRoute(h)
      BY <1>5, <3>1 DEF Ordinary, records, GoesOn, ActiveSteps, CardSteps, EditSteps
    <3> QED
      BY <1>0, <1>4, <2>3, <3>2 DEF CoreInv, LockInv, EndsRoute, Unlock
  <2> QED
    BY <2>1, <2>2, <2>3 DEF LockInv
<1>8. UserInv'
  <2>1. ASSUME NEW g \in Attempts, g # h
        PROVE  at'[g] = at[g] /\ who'[g] = who[g] /\ err'[g] = err[g] /\ users' = users
    BY <1>4, <2>1
  <2>2. who'[h] = who[h] /\ who[h] \in Users /\ users'[who[h]] = users[who[h]] /\ users[who[h]] # "none"
    BY <1>1, <1>4 DEF CoreInv, UserInv
  <2>3. /\ at'[h] \in ActiveSteps => users[who[h]] = "active"
        /\ at'[h] \in GoingSteps => users[who[h]] = "deleting"
        /\ at'[h] = "reply" => users[who[h]] = "active"
        /\ at'[h] # "consent" /\ at'[h] # "farewell"
    <3>1. CASE at[h] \in ActiveSteps /\ \E s \in ActiveSteps \cup {"reply"} : Goto(h, s)
      <4>1. at'[h] \in ActiveSteps \cup {"reply"} /\ users[who[h]] = "active"
        BY <1>0, <3>1 DEF Goto, CoreInv, UserInv
      <4> QED
        BY <4>1 DEF ActiveSteps, GoingSteps, CardSteps, EditSteps
    <3>2. CASE at[h] = "unexport" /\ Goto(h, "purge")
      <4>1. at'[h] = "purge" /\ users[who[h]] = "deleting"
        BY <1>0, <3>2 DEF Goto, CoreInv, UserInv, GoingSteps
      <4> QED
        BY <4>1 DEF ActiveSteps, GoingSteps, CardSteps, EditSteps
    <3>3. CASE EndsRoute(h) /\ at'[h] = "mark"
      BY <3>3 DEF ActiveSteps, GoingSteps, CardSteps, EditSteps
    <3> QED
      BY <1>5, <3>1, <3>2, <3>3 DEF GoesOn
  <2>4. \A u \in Users : (users'[u] \notin {"none", "deleted"}) <=> identity' = u
    BY <1>4 DEF CoreInv, UserInv
  <2> QED
    BY <2>1, <2>2, <2>3, <2>4 DEF CoreInv, UserInv
<1>9. HandInv'
  <2>1. UNCHANGED <<msg, script, cur, pm>>
    BY DEF Ordinary
  <2>2. at[h] # "idle" /\ at[h] # "claim"
    BY <1>1 DEF LockedSteps, ActiveSteps, GoingSteps, CardSteps, EditSteps
  <2> QED
    BY <1>4, <2>1, <2>2 DEF CoreInv, HandInv
<1>10. Numbered'
  BY <1>4 DEF CoreInv, Numbered
<1> QED
  BY <1>3, <1>7, <1>8, <1>9, <1>10

(* Writing columns of an entry and of a receipt. *)
TxStatus == {"none", "awaiting", "confirmed", "amended", "deleted"}

LEMMA SettledEntry ==
  ASSUME NEW f \in [Messages -> Entry], NEW t \in Messages, NEW s \in TxStatus
  PROVE  [f EXCEPT ![t].status = s, ![t].ver = @ + 1] \in [Messages -> Entry]
<1>1. f[t] \in Entry /\ f[t].ver \in Nat /\ f[t].ver + 1 \in Nat
  BY DEF Entry
<1> DEFINE n == f[t].ver + 1
<1>2. [f EXCEPT ![t].status = s, ![t].ver = @ + 1] = [f EXCEPT ![t].status = s, ![t].ver = n]
  OBVIOUS
<1>3. [f EXCEPT ![t].status = s, ![t].ver = n] \in [Messages -> Entry]
  <2> HIDE DEF n
  <2>1. n \in Nat
    BY <1>1 DEF n
  <2> QED
    BY <2>1 DEF Entry, TxStatus
<1> QED
  BY <1>2, <1>3

LEMMA EditedEntry ==
  ASSUME NEW f \in [Messages -> Entry], NEW t \in Messages, NEW c \in Categories \cup {"none"}
  PROVE  [f EXCEPT ![t].ver = @ + 1, ![t].category = c] \in [Messages -> Entry]
<1>1. f[t] \in Entry /\ f[t].ver \in Nat /\ f[t].ver + 1 \in Nat
  BY DEF Entry
<1> DEFINE n == f[t].ver + 1
<1>2. [f EXCEPT ![t].ver = @ + 1, ![t].category = c] = [f EXCEPT ![t].ver = n, ![t].category = c]
  OBVIOUS
<1>3. [f EXCEPT ![t].ver = n, ![t].category = c] \in [Messages -> Entry]
  <2> HIDE DEF n
  <2>1. n \in Nat
    BY <1>1 DEF n
  <2> QED
    BY <2>1 DEF Entry
<1> QED
  BY <1>2, <1>3

LEMMA AmendedEntry ==
  ASSUME NEW f \in [Messages -> Entry], NEW t \in Messages, NEW c \in Categories
  PROVE  [f EXCEPT ![t].status = "amended", ![t].ver = @ + 1, ![t].category = c] \in [Messages -> Entry]
<1> DEFINE g == [f EXCEPT ![t].status = "amended", ![t].ver = @ + 1]
<1>1. [f EXCEPT ![t].status = "amended", ![t].ver = @ + 1, ![t].category = c] = [g EXCEPT ![t].category = c]
  OBVIOUS
<1>2. g \in [Messages -> Entry]
  BY SettledEntry DEF TxStatus
<1>3. [g EXCEPT ![t].category = c] \in [Messages -> Entry]
  <2> HIDE DEF g
  <2> QED
    BY <1>2 DEF Entry
<1> QED
  BY <1>1, <1>3

LEMMA MovedReceipt ==
  ASSUME NEW f \in [Messages -> Document], NEW t \in Messages, f[t].status # "none", NEW s \in ReceiptStatus
  PROVE  [f EXCEPT ![t].status = s] \in [Messages -> Document]
<1>1. f[t] \in [status : ReceiptStatus, owner : Users, job : BOOLEAN]
  BY DEF Document
<1>2. [f[t] EXCEPT !.status = s] \in Document
  BY <1>1 DEF Document
<1> QED
  BY <1>2

LEMMA QueuedReceipt ==
  ASSUME NEW f \in [Messages -> Document], NEW t \in Messages, NEW b \in BOOLEAN
  PROVE  [f EXCEPT ![t].job = b] \in [Messages -> Document]
<1>1. [f[t] EXCEPT !.job = b] \in Document
  BY DEF Document
<1> QED
  BY <1>1

LEMMA ReviewedReceipt ==
  ASSUME NEW f \in [Messages -> Document], NEW t \in Messages, f[t].status # "none"
  PROVE  [f EXCEPT ![t].status = "review", ![t].job = FALSE] \in [Messages -> Document]
<1>1. f[t] \in [status : ReceiptStatus, owner : Users, job : BOOLEAN]
  BY DEF Document
<1>2. [f[t] EXCEPT !.status = "review", !.job = FALSE] \in Document
  BY <1>1 DEF Document, ReceiptStatus
<1>3. [f EXCEPT ![t].status = "review", ![t].job = FALSE]
        = [f EXCEPT ![t] = [f[t] EXCEPT !.status = "review", !.job = FALSE]]
  OBVIOUS
<1> QED
  BY <1>2, <1>3

(* A new draft, a new question and a new key are of their types. *)
LEMMA DraftIsEntry ==
  ASSUME CoreInv, NEW t \in Messages, NEW u \in Users
  PROVE  Draft(t, u) \in Entry
  BY DEF CoreInv, ChatTypeOK, RecordsTypeOK, MemoryTypeOK, Draft, SuggestCategory, Entry, Rule,
     Owners,
         Categories

LEMMA OpenedQuestion ==
  ASSUME CoreInv, NEW u \in Users, NEW k, NEW t,
         (k \in About /\ t \in Messages) \/ (k = "delaccount" /\ t = 0),
         OpenQuestion(u, k, t)
  PROVE  pending' \in [Users -> PendingRow]
<1>1. [kind |-> k, tx |-> t, expired |-> FALSE] \in PendingRow
  BY DEF PendingRow
<1> QED
  BY <1>1 DEF CoreInv, ChatTypeOK, RecordsTypeOK, OpenQuestion

LEMMA EnqueuedTypes ==
  ASSUME CoreInv, NEW q \in Saying, NEW m \in Messages, Enqueue(q, m)
  PROVE  outbox' \subseteq OutKey /\ asked' \in Saying /\ answered' \subseteq Messages
<1>1. /\ Key(q, m) \in OutKey
      /\ Key(q, m).of \in Messages
  <2>1. CASE q.kind = "card"
    <3>1. q.tx \in Messages /\ tx[q.tx].ver \in Nat
      BY <2>1 DEF Saying, About, CoreInv, ChatTypeOK, RecordsTypeOK, Entry
    <3> QED
      BY <2>1, <3>1 DEF Key, OutKey, About
  <2>2. CASE q.kind # "card"
    <3>1. q.kind \in About \cup {"delaccount", "none", "notice"}
      BY DEF Saying
    <3> QED
      BY <2>2, <3>1 DEF Key, OutKey
  <2> QED
    BY <2>1, <2>2
<1> HIDE DEF Key
<1> QED
  BY <1>1 DEF Enqueue, CoreInv, ChatTypeOK, SpeechTypeOK

(* The entry a question is about. *)
LEMMA SubjectKnown ==
  ASSUME CoreInv, NEW h \in Attempts, at[h] \in CardSteps \cup EditSteps \cup {"deleteRecent"}
  PROVE  who[h] \in Users /\ pending[who[h]].tx \in Messages /\ tx[pending[who[h]].tx] \in Entry
<1>1. who[h] \in Users
  BY DEF CoreInv, LockInv, LockedSteps, ActiveSteps
<1>2. pending[who[h]].kind \in About /\ pending[who[h]] \in PendingRow
  BY <1>1 DEF CoreInv, QuestionInv, ChatTypeOK, RecordsTypeOK, About
<1>3. pending[who[h]].tx \in Messages
  BY <1>2 DEF PendingRow, About
<1> QED
  BY <1>1, <1>3 DEF CoreInv, ChatTypeOK, RecordsTypeOK

(* What a locked step has to show about its own question. *)
QuestionFits(h) ==
  /\ at[h] \in CardSteps => pending[who[h]].kind = "card"
  /\ at[h] \in EditSteps => pending[who[h]].kind = "edit"
  /\ at[h] = "deleteRecent" => pending[who[h]].kind = "delrecent"
  /\ at[h] = "relearn" => say[h].tx \in Messages

LEMMA QuestionKept ==
  ASSUME CoreInv, NEW h \in Attempts, Ordinary(h), QuestionFits(h)'
  PROVE  QuestionInv'
<1>1. at[h] \in LockedSteps
  BY DEF Ordinary, GoesOn, EndsRoute, LockedSteps, GoingSteps
<1>2. \A g \in Attempts : g # h => at'[g] = at[g] /\ who'[g] = who[g]
  BY DEF Ordinary, GoesOn, EndsRoute, Goto, CoreInv, ChatTypeOK, InboundTypeOK
<1>3. CASE at[h] # "farewell"
  <2>1. \A g \in Attempts : g # h => at'[g] \notin LockedSteps \/ at'[g] = "farewell"
    BY <1>1, <1>2, <1>3, LoneHolder
  <2>2. /\ CardSteps \cup EditSteps \cup {"deleteRecent", "relearn"} \subseteq LockedSteps
        /\ "farewell" \notin CardSteps \cup EditSteps \cup {"deleteRecent", "relearn"}
    BY DEF LockedSteps, ActiveSteps, CardSteps, EditSteps
  <2>3. ASSUME NEW g \in Attempts, g # h
        PROVE  at'[g] \notin CardSteps \cup EditSteps \cup {"deleteRecent", "relearn"}
    BY <2>1, <2>2, <2>3
  <2> QED
    BY <2>3 DEF QuestionInv, QuestionFits
<1>4. CASE at[h] = "farewell"
  <2>1. UNCHANGED <<pending, say>>
    BY <1>4 DEF Ordinary, records
  <2> QED
    BY <1>2, <2>1 DEF QuestionInv, QuestionFits, CoreInv
<1> QED
  BY <1>3, <1>4

LEMMA CardTypes ==
  ASSUME CoreInv, NEW h \in Attempts, CardStep(h)
  PROVE  RecordsTypeOK' /\ MemoryTypeOK' /\ SpeechTypeOK' /\ QuestionFits(h)'
<1> USE DEF Then, Goto, Silent, inboundRows, speech, deeds, records, memory, people, history, local
<1>0. /\ RecordsTypeOK /\ MemoryTypeOK /\ SpeechTypeOK
      /\ at \in [Attempts -> ChatSteps] /\ cur[h] \in Messages
  BY DEF CoreInv, ChatTypeOK, InboundTypeOK
<1>a. "settle" \in CardSteps /\ "learn" \in CardSteps /\ "softDelete" \in CardSteps /\ "confirm" \in CardSteps
      /\ "discard" \in CardSteps /\ "askEdit" \in CardSteps /\ "applyEdit" \in EditSteps /\ "showAgain" \in EditSteps
  BY DEF CardSteps, EditSteps
<1>b. /\ \A s \in {"reply", "clear", "draft", "alias", "mark"} :
             s \notin CardSteps /\ s \notin EditSteps /\ s # "deleteRecent" /\ s # "relearn"
      /\ \A s \in CardSteps : s \notin EditSteps /\ s # "deleteRecent" /\ s # "relearn"
      /\ \A s \in EditSteps : s \notin CardSteps /\ s # "deleteRecent" /\ s # "relearn"
  BY DEF CardSteps, EditSteps
<1>c. at[h] \in CardSteps => pending[who[h]].kind = "card"
  BY DEF CoreInv, QuestionInv
<1>d. at[h] \in EditSteps => pending[who[h]].kind = "edit"
  BY DEF CoreInv, QuestionInv
<1>e. at[h] \in LockedSteps => who[h] \in Users
  BY DEF CoreInv, LockInv
<1>f. UNCHANGED <<pending, who>> /\ at[h] \in CardSteps /\ at'[h] \in CardSteps => QuestionFits(h)'
  BY <1>b, <1>c DEF QuestionFits
<1>g. at'[h] \in {"reply", "clear", "draft", "alias", "mark"} => QuestionFits(h)'
  BY <1>b DEF QuestionFits
<1>1. CASE ConfirmTransaction(h)
  <2> DEFINE t == pending[who[h]].tx
  <2>1. who[h] \in Users /\ t \in Messages /\ tx[t] \in Entry
    BY <1>1, <1>a, SubjectKnown DEF ConfirmTransaction
  <2> HIDE DEF t
  <2>2. /\ tx' = [tx EXCEPT ![t].status = "confirmed", ![t].ver = @ + 1]
        /\ acted' = [acted EXCEPT ![cur[h]] = @ \cup {t}]
        /\ lessons' = [lessons EXCEPT ![who[h]] = Append(@, tx[t].category)]
        /\ UNCHANGED <<pending, receipt, used, merchant, rule, derived, say, speech, answered>>
        /\ UNCHANGED <<erasedBy, reopenedBy, who>> /\ at[h] = "confirm" /\ at' = [at EXCEPT ![h] = "settle"]
    BY <1>1 DEF ConfirmTransaction, Settles, Teaches, t
  <2>3. [tx EXCEPT ![t].status = "confirmed", ![t].ver = @ + 1] \in [Messages -> Entry]
    BY <1>0, <2>1, SettledEntry, Zenon DEF TxStatus, RecordsTypeOK
  <2>4. RecordsTypeOK'
    BY <1>0, <2>2, <2>3 DEF RecordsTypeOK
  <2>5. tx[t].category \in Categories \cup {"none"}
    BY <2>1 DEF Entry
  <2>6. lessons' \in [Users -> Seq(Categories \cup {"none"})]
    BY <1>0, <2>1, <2>2, <2>5 DEF MemoryTypeOK
  <2>7. MemoryTypeOK'
    BY <1>0, <2>2, <2>6 DEF MemoryTypeOK
  <2>8. SpeechTypeOK'
    BY <1>0, <2>1, <2>2 DEF SpeechTypeOK
  <2> QED
    BY <1>0, <1>a, <1>f, <2>2, <2>4, <2>7, <2>8
<1>2. CASE SettleReceipt(h)
  <2> DEFINE t == pending[who[h]].tx
  <2>1. t \in Messages
    BY <1>2, <1>a, SubjectKnown DEF SettleReceipt
  <2> HIDE DEF t
  <2>2. /\ receipt' = receipt \/ (receipt[t].status = "review" /\ receipt' = [receipt EXCEPT ![t].status = "confirmed"])
        /\ at[h] = "settle" /\ at' = [at EXCEPT ![h] = "learn"]
        /\ UNCHANGED <<pending, tx, used, memory, say, speech, deeds, who>>
    BY <1>2 DEF SettleReceipt, t
  <2>3. receipt[t].status = "review" => [receipt EXCEPT ![t].status = "confirmed"] \in [Messages -> Document]
    <3>1. receipt[t].status = "review" => receipt[t].status # "none"
      OBVIOUS
    <3> QED
      BY <1>0, <2>1, <3>1, MovedReceipt, Zenon DEF ReceiptStatus, RecordsTypeOK
  <2>4. RecordsTypeOK'
    BY <1>0, <2>2, <2>3 DEF RecordsTypeOK
  <2> QED
    BY <1>0, <1>a, <1>f, <2>2, <2>4 DEF MemoryTypeOK, SpeechTypeOK
<1>3. CASE DiscardReceipt(h)
  <2> DEFINE t == pending[who[h]].tx
  <2>1. t \in Messages
    BY <1>3, <1>a, SubjectKnown DEF DiscardReceipt
  <2> HIDE DEF t
  <2>2. /\ receipt' = receipt \/ (receipt[t].status = "review" /\ receipt' = [receipt EXCEPT ![t].status = "deleted"])
        /\ at[h] = "discard" /\ \E s \in {"clear", "softDelete"} : at' = [at EXCEPT ![h] = s]
        /\ UNCHANGED <<pending, tx, used, memory, say, speech, deeds, who>>
    BY <1>3 DEF DiscardReceipt, t
  <2>3. receipt[t].status = "review" => [receipt EXCEPT ![t].status = "deleted"] \in [Messages -> Document]
    <3>1. receipt[t].status = "review" => receipt[t].status # "none"
      OBVIOUS
    <3> QED
      BY <1>0, <2>1, <3>1, MovedReceipt, Zenon DEF ReceiptStatus, RecordsTypeOK
  <2>4. RecordsTypeOK'
    BY <1>0, <2>2, <2>3 DEF RecordsTypeOK
  <2>5. QuestionFits(h)'
    BY <1>0, <1>a, <1>f, <1>g, <2>2
  <2> QED
    BY <1>0, <2>2, <2>4, <2>5 DEF MemoryTypeOK, SpeechTypeOK
<1>4. CASE DiscardTransaction(h)
  <2> DEFINE t == pending[who[h]].tx
  <2>1. t \in Messages
    BY <1>4, <1>a, SubjectKnown DEF DiscardTransaction, SoftDelete
  <2> HIDE DEF t
  <2>2. /\ tx' = [tx EXCEPT ![t].status = "deleted", ![t].ver = @ + 1]
        /\ acted' = [acted EXCEPT ![cur[h]] = @ \cup {t}]
        /\ UNCHANGED <<pending, receipt, used, memory, say, speech, answered>>
        /\ UNCHANGED <<erasedBy, reopenedBy>> /\ at' = [at EXCEPT ![h] = "clear"]
    BY <1>4 DEF DiscardTransaction, SoftDelete, Settles, t
  <2>3. [tx EXCEPT ![t].status = "deleted", ![t].ver = @ + 1] \in [Messages -> Entry]
    BY <1>0, <2>1, SettledEntry, Zenon DEF TxStatus, RecordsTypeOK
  <2>4. RecordsTypeOK'
    BY <1>0, <2>2, <2>3 DEF RecordsTypeOK
  <2>5. SpeechTypeOK'
    BY <1>0, <2>1, <2>2 DEF SpeechTypeOK
  <2> QED
    BY <1>0, <1>g, <2>2, <2>4, <2>5 DEF MemoryTypeOK
<1>5. CASE AskEdit(h)
  <2>1. who[h] \in Users /\ pending[who[h]].tx \in Messages
    BY <1>5, <1>a, SubjectKnown DEF AskEdit
  <2>2. pending' \in [Users -> PendingRow]
    BY <1>5, <2>1, OpenedQuestion DEF AskEdit, About
  <2>3. say' \in [Attempts -> Saying]
    <3>1. Question("edit", pending[who[h]].tx) \in Saying
      BY <2>1 DEF Question, Saying, About
    <3> QED
      BY <1>0, <1>5, <3>1 DEF AskEdit, ReplyWith, SpeechTypeOK
  <2>4. at' = [at EXCEPT ![h] = "reply"] /\ UNCHANGED <<tx, receipt, used, memory, speech, deeds>>
    BY <1>5 DEF AskEdit
  <2> QED
    BY <1>0, <1>g, <2>2, <2>3, <2>4 DEF RecordsTypeOK, MemoryTypeOK, SpeechTypeOK
<1>6. CASE ApplyEdit(h)
  <2> DEFINE t == pending[who[h]].tx
  <2>1. t \in Messages /\ tx[t] \in Entry
    BY <1>6, <1>a, SubjectKnown DEF ApplyEdit
  <2> HIDE DEF t
  <2>2. PICK c \in {tx[t].category, "other"} : tx' = [tx EXCEPT ![t].ver = @ + 1, ![t].category = c]
    BY <1>6, Zenon DEF ApplyEdit, t
  <2>3. c \in Categories \cup {"none"}
    BY <2>1 DEF Entry, Categories
  <2>4. [tx EXCEPT ![t].ver = @ + 1, ![t].category = c] \in [Messages -> Entry]
    BY <1>0, <2>1, <2>3, EditedEntry, Zenon DEF RecordsTypeOK
  <2>5. /\ at[h] = "applyEdit" /\ at' = [at EXCEPT ![h] = "showAgain"]
        /\ UNCHANGED <<pending, receipt, used, memory, say, speech, deeds, who>>
    BY <1>6 DEF ApplyEdit
  <2>6. RecordsTypeOK'
    BY <1>0, <2>2, <2>4, <2>5 DEF RecordsTypeOK
  <2>7. QuestionFits(h)'
    BY <1>0, <1>a, <1>b, <1>d, <2>5 DEF QuestionFits
  <2> QED
    BY <1>0, <2>5, <2>6, <2>7 DEF MemoryTypeOK, SpeechTypeOK
<1>7. CASE RejectEdit(h)
  <2>1. at' = [at EXCEPT ![h] = "reply"] /\ UNCHANGED <<records, memory, say, speech, deeds>>
    BY <1>7 DEF RejectEdit
  <2> QED
    BY <1>0, <1>g, <2>1 DEF RecordsTypeOK, MemoryTypeOK, SpeechTypeOK
<1>8. CASE ShowAgain(h)
  <2>1. who[h] \in Users /\ pending[who[h]].tx \in Messages
    BY <1>8, <1>a, SubjectKnown DEF ShowAgain
  <2>2. pending' \in [Users -> PendingRow]
    BY <1>8, <2>1, OpenedQuestion DEF ShowAgain, About
  <2>3. say' \in [Attempts -> Saying]
    <3>1. Question("card", pending[who[h]].tx) \in Saying
      BY <2>1 DEF Question, Saying, About
    <3> QED
      BY <1>0, <1>8, <3>1 DEF ShowAgain, ReplyWith, SpeechTypeOK
  <2>4. at' = [at EXCEPT ![h] = "reply"] /\ UNCHANGED <<tx, receipt, used, memory, speech, deeds>>
    BY <1>8 DEF ShowAgain
  <2> QED
    BY <1>0, <1>g, <2>2, <2>3, <2>4 DEF RecordsTypeOK, MemoryTypeOK, SpeechTypeOK
<1>9. CASE CreateManualDraft(h)
  <2>1. who[h] \in Users
    BY <1>9, <1>e DEF CreateManualDraft, LockedSteps, ActiveSteps
  <2>2. pending' \in [Users -> PendingRow]
    BY <1>0, <1>9, <2>1, OpenedQuestion DEF CreateManualDraft, About
  <2>3. say' \in [Attempts -> Saying]
    <3>1. Question("card", cur[h]) \in Saying
      BY <1>0 DEF Question, Saying, About
    <3> QED
      BY <1>0, <1>9, <3>1 DEF CreateManualDraft, ReplyWith, SpeechTypeOK
  <2>4. tx' \in [Messages -> Entry]
    <3>1. Draft(cur[h], who[h]) \in Entry
      BY <1>0, <2>1, DraftIsEntry
    <3>2. tx' = tx \/ tx' = [tx EXCEPT ![cur[h]] = Draft(cur[h], who[h])]
      BY <1>9 DEF CreateManualDraft
    <3> QED
      BY <1>0, <3>1, <3>2 DEF RecordsTypeOK
  <2>5. at' = [at EXCEPT ![h] = "reply"] /\ UNCHANGED <<receipt, used, memory, speech, deeds>>
    BY <1>9 DEF CreateManualDraft
  <2> QED
    BY <1>0, <1>g, <2>2, <2>3, <2>4, <2>5 DEF RecordsTypeOK, MemoryTypeOK, SpeechTypeOK
<1>10. CASE ResolveMerchant(h) \/ AddMerchantAlias(h)
  <2>1. /\ merchant' \in {"unknown", "named", "known"}
        /\ \E s \in {"draft", "alias"} : at' = [at EXCEPT ![h] = s]
        /\ UNCHANGED <<records, rule, derived, lessons, say, speech, deeds>>
    BY <1>0, <1>10 DEF ResolveMerchant, AddMerchantAlias, CreateMerchant, MemoryTypeOK
  <2> QED
    BY <1>0, <1>g, <2>1 DEF RecordsTypeOK, MemoryTypeOK, SpeechTypeOK
<1>11. CASE Learn(h)
  <2> DEFINE t == IF at[h] = "learn" THEN pending[who[h]].tx ELSE say[h].tx
  <2>1. who[h] \in Users
    BY <1>11, <1>e DEF Learn, LockedSteps, ActiveSteps, CardSteps
  <2>2. t \in Messages
    <3>1. CASE at[h] = "learn"
      BY <1>a, <3>1, SubjectKnown
    <3>2. CASE at[h] = "relearn"
      BY <3>2 DEF CoreInv, QuestionInv
    <3> QED
      BY <1>11, <3>1, <3>2 DEF Learn
  <2> HIDE DEF t
  <2>3. rule' = [rule EXCEPT ![who[h]] = [n |-> rule[who[h]].n + 1,
                                          confidence |-> ruleConfidence(rule[who[h]].n + 1), category |-> tx[t].category]]
    <3> DEFINE row == [n |-> 1, confidence |-> ruleConfidence(rule[who[h]].n + 1), category |-> tx[t].category]
    <3>1. rule' = [rule EXCEPT ![who[h]] = [row EXCEPT !.n = rule[who[h]].n + row.n]]
      BY <1>11, Zenon DEF Learn, LearnFromConfirmation, UpsertUserMerchantRule, t
    <3>2. [row EXCEPT !.n = rule[who[h]].n + row.n] =
            [n |-> rule[who[h]].n + 1, confidence |-> ruleConfidence(rule[who[h]].n + 1),
             category |-> tx[t].category]
      BY DEF row
    <3> QED
      BY <3>1, <3>2, Zenon
  <2>4. rule[who[h]].n \in Nat /\ tx[t].category \in Categories \cup {"none"}
    BY <1>0, <2>1, <2>2 DEF MemoryTypeOK, RecordsTypeOK, Rule, Entry
  <2>5. ruleConfidence(rule[who[h]].n + 1) \in Int
    BY <2>4 DEF ruleConfidence
  <2>6. rule' \in [Users -> Rule]
    BY <1>0, <2>1, <2>3, <2>4, <2>5 DEF MemoryTypeOK, Rule
  <2>7. /\ \E s \in {"clear", "reply"} : at' = [at EXCEPT ![h] = s]
        /\ UNCHANGED <<records, merchant, derived, lessons, say, speech, deeds>>
    BY <1>11 DEF Learn
  <2> QED
    BY <1>0, <1>g, <2>6, <2>7 DEF RecordsTypeOK, MemoryTypeOK, SpeechTypeOK
<1>12. CASE RejectEntry(h)
  <2>1. /\ UNCHANGED <<records, memory, say, speech, deeds>> /\ at' = [at EXCEPT ![h] = "mark"]
    BY <1>12 DEF RejectEntry, Leave, EndRoute
  <2> QED
    BY <1>0, <1>g, <2>1 DEF RecordsTypeOK, MemoryTypeOK, SpeechTypeOK
<1> QED
  BY <1>1, <1>2, <1>3, <1>4, <1>5, <1>6, <1>7, <1>8, <1>9, <1>10, <1>11, <1>12 DEF CardStep

LEMMA ImageTypes ==
  ASSUME CoreInv, NEW h \in Attempts, ImageStep(h)
  PROVE  RecordsTypeOK' /\ MemoryTypeOK' /\ SpeechTypeOK' /\ QuestionFits(h)'
<1> USE DEF Then, Goto, Silent, inboundRows, speech, deeds, records, memory, people, history, local
<1>0. /\ RecordsTypeOK /\ MemoryTypeOK /\ SpeechTypeOK /\ receipt \in [Messages -> Document]
      /\ at \in [Attempts -> ChatSteps] /\ cur[h] \in Messages
  BY DEF CoreInv, ChatTypeOK, InboundTypeOK, RecordsTypeOK
<1>a. at'[h] \in {"reply", "mark", "charge", "refuse", "queue", "enqueue"} => QuestionFits(h)'
  BY DEF QuestionFits, CardSteps, EditSteps
<1>b. who[h] \in Users
  BY DEF ImageStep, RegisterImage, IncrementUsage, RefuseImage, QueueImage, TransitionReceipt,
         EnqueueReceiptJob, DeleteReceivedReceipt, CoreInv, LockInv, LockedSteps, ActiveSteps
<1>1. CASE RegisterImage(h)
  <2>1. [status |-> "received", owner |-> who[h], job |-> FALSE] \in Document
    BY <1>b DEF Document, ReceiptStatus
  <2>2. receipt' = receipt
        \/ receipt' = [receipt EXCEPT ![cur[h]] = [status |-> "received", owner |-> who[h], job |-> FALSE]]
    BY <1>1 DEF RegisterImage
  <2>3. receipt' \in [Messages -> Document]
    BY <1>0, <2>1, <2>2
  <2>4. UNCHANGED <<pending, tx, used, memory, speech, say, deeds>>
    BY <1>1 DEF RegisterImage
  <2>5. at'[h] \in {"charge", "queue", "enqueue", "reply"}
    BY <1>0, <1>1 DEF RegisterImage, AfterRegister
  <2> QED
    BY <1>0, <1>a, <2>3, <2>4, <2>5 DEF RecordsTypeOK, MemoryTypeOK, SpeechTypeOK
<1>2. CASE IncrementUsage(h)
  <2>1. used' \in [Users -> Nat]
    BY <1>0, <1>2, <1>b DEF IncrementUsage, RecordsTypeOK
  <2>2. at'[h] \in {"refuse", "queue"} /\ UNCHANGED <<pending, tx, receipt, memory, speech, say, deeds>>
    BY <1>0, <1>2 DEF IncrementUsage
  <2> QED
    BY <1>0, <1>a, <2>1, <2>2 DEF RecordsTypeOK, MemoryTypeOK, SpeechTypeOK
<1>3. ASSUME NEW step, NEW from, from # "none", NEW to \in ReceiptStatus,
NEW next \in {"reply", "enqueue"},
             TransitionReceipt(h, step, from, to, next)
      PROVE  RecordsTypeOK' /\ MemoryTypeOK' /\ SpeechTypeOK' /\ QuestionFits(h)'
  <2>1. receipt' = receipt \/ (receipt[cur[h]].status # "none" /\ receipt' = [receipt EXCEPT ![cur[h]].status = to])
    BY <1>3 DEF TransitionReceipt
  <2>2. receipt[cur[h]].status # "none" => [receipt EXCEPT ![cur[h]].status = to] \in [Messages -> Document]
    BY <1>0, MovedReceipt, Zenon
  <2>3. receipt' \in [Messages -> Document]
    BY <1>0, <2>1, <2>2
  <2>4. at'[h] \in {"reply", "enqueue", "mark"}
    BY <1>0, <1>3 DEF TransitionReceipt, Leave, EndRoute
  <2>5. UNCHANGED <<pending, tx, used, memory, speech, say, deeds>>
    BY <1>3 DEF TransitionReceipt
  <2> QED
    BY <1>0, <1>a, <2>3, <2>4, <2>5 DEF RecordsTypeOK, MemoryTypeOK, SpeechTypeOK
<1>4. CASE RefuseImage(h) \/ QueueImage(h)
  BY <1>3, <1>4 DEF RefuseImage, QueueImage, ReceiptStatus
<1>5. CASE EnqueueReceiptJob(h)
  <2>1. [receipt EXCEPT ![cur[h]].job = TRUE] \in [Messages -> Document]
    BY <1>0, QueuedReceipt, Zenon
  <2>2. /\ receipt' = [receipt EXCEPT ![cur[h]].job = TRUE] /\ at'[h] = "reply"
        /\ UNCHANGED <<pending, tx, used, memory, speech, say, deeds>>
    BY <1>0, <1>5 DEF EnqueueReceiptJob
  <2> QED
    BY <1>0, <1>a, <2>1, <2>2 DEF RecordsTypeOK, MemoryTypeOK, SpeechTypeOK
<1>6. CASE DeleteReceivedReceipt(h)
  <2>1. NoReceipt \in Document
    BY DEF NoReceipt, Document
  <2>2. receipt' = receipt \/ receipt' = [receipt EXCEPT ![cur[h]] = NoReceipt]
    BY <1>6 DEF DeleteReceivedReceipt
  <2>3. receipt' \in [Messages -> Document]
    BY <1>0, <2>1, <2>2
  <2>4. at'[h] = "mark" /\ UNCHANGED <<pending, tx, used, memory, speech, say, deeds>>
    BY <1>0, <1>6 DEF DeleteReceivedReceipt, Leave, EndRoute
  <2> QED
    BY <1>0, <1>a, <2>3, <2>4 DEF RecordsTypeOK, MemoryTypeOK, SpeechTypeOK
<1> QED
  BY <1>1, <1>2, <1>4, <1>5, <1>6 DEF ImageStep

LEMMA EntryTypes ==
  ASSUME CoreInv, NEW h \in Attempts, EntryStep(h) \/ ClearPendingAction(h)
  PROVE  RecordsTypeOK' /\ MemoryTypeOK' /\ SpeechTypeOK' /\ QuestionFits(h)'
<1> USE DEF Then, Goto, Silent, inboundRows, speech, deeds, records, memory, people, history, local
<1>0. /\ RecordsTypeOK /\ MemoryTypeOK /\ SpeechTypeOK
      /\ at \in [Attempts -> ChatSteps] /\ cur[h] \in Messages
  BY DEF CoreInv, ChatTypeOK, InboundTypeOK
<1>a. at'[h] \in {"reply", "mark", "clear"} => QuestionFits(h)'
  BY DEF QuestionFits, CardSteps, EditSteps
<1>b. at[h] \in ActiveSteps => who[h] \in Users
  BY DEF CoreInv, LockInv, LockedSteps
<1>1. CASE AskDeleteRecent(h)
  <2>1. at'[h] = "reply" /\ UNCHANGED <<tx, receipt, used, memory, speech, deeds>> /\ who[h] \in Users
    BY <1>0, <1>1, <1>b DEF AskDeleteRecent, ActiveSteps
  <2>2. CASE UNCHANGED <<pending, say>>
    BY <1>0, <1>a, <2>1, <2>2 DEF RecordsTypeOK, MemoryTypeOK, SpeechTypeOK
  <2>3. CASE \E t \in Confirmed(who[h]) : /\ OpenQuestion(who[h], "delrecent", t)
                                         /\ ReplyWith(h, Question("delrecent", t))
    <3>1. PICK t \in Confirmed(who[h]) : /\ OpenQuestion(who[h], "delrecent", t)
                                         /\ ReplyWith(h, Question("delrecent", t))
      BY <2>3
    <3>2. t \in Messages
      BY DEF Confirmed
    <3>3. pending' \in [Users -> PendingRow]
      BY <2>1, <3>1, <3>2, OpenedQuestion DEF About
    <3>4. Question("delrecent", t) \in Saying
      BY <3>2 DEF Question, Saying, About
    <3>5. say' \in [Attempts -> Saying]
      BY <1>0, <3>1, <3>4 DEF ReplyWith, SpeechTypeOK
    <3> QED
      BY <1>0, <1>a, <2>1, <3>3, <3>5 DEF RecordsTypeOK, MemoryTypeOK, SpeechTypeOK
  <2> QED
    BY <1>1, <2>2, <2>3, Zenon DEF AskDeleteRecent
<1>2. CASE DeleteRecent(h)
  <2> DEFINE t == pending[who[h]].tx
  <2>1. t \in Messages
    BY <1>2, SubjectKnown DEF DeleteRecent, SoftDelete
  <2> HIDE DEF t
  <2>2. /\ tx' = [tx EXCEPT ![t].status = "deleted", ![t].ver = @ + 1]
        /\ acted' = [acted EXCEPT ![cur[h]] = @ \cup {t}]
        /\ UNCHANGED <<pending, receipt, used, memory, say, speech, answered>>
        /\ UNCHANGED <<erasedBy, reopenedBy>> /\ at' = [at EXCEPT ![h] = "clear"]
    BY <1>2 DEF DeleteRecent, SoftDelete, Settles, t
  <2>3. [tx EXCEPT ![t].status = "deleted", ![t].ver = @ + 1] \in [Messages -> Entry]
    BY <1>0, <2>1, SettledEntry, Zenon DEF TxStatus, RecordsTypeOK
  <2>4. RecordsTypeOK'
    BY <1>0, <2>2, <2>3 DEF RecordsTypeOK
  <2>5. SpeechTypeOK'
    BY <1>0, <2>1, <2>2 DEF SpeechTypeOK
  <2> QED
    BY <1>0, <1>a, <2>2, <2>4, <2>5 DEF MemoryTypeOK
<1>3. CASE DeleteRecentRefused(h)
  <2>1. at'[h] = "mark" /\ UNCHANGED <<records, memory, say, speech, deeds>>
    BY <1>0, <1>3 DEF DeleteRecentRefused, Leave, EndRoute
  <2> QED
    BY <1>0, <1>a, <2>1 DEF RecordsTypeOK, MemoryTypeOK, SpeechTypeOK
<1>4. CASE Recategorise(h)
  <2>1. /\ at[h] = "recategorise"
        /\ UNCHANGED <<merchant, rule, derived, pending, receipt, used, speech, deeds>>
    BY <1>4, Zenon DEF Recategorise
  <2>2. CASE Then(h, "reply") /\ UNCHANGED <<tx, lessons, say>>
    BY <1>0, <1>a, <2>1, <2>2 DEF RecordsTypeOK, MemoryTypeOK, SpeechTypeOK
  <2>3. CASE \E t \in Confirmed(who[h]), c \in Categories :
               /\ tx' = [tx EXCEPT ![t].status = "amended", ![t].ver = @ + 1, ![t].category = c]
               /\ Teaches(who[h], c)
               /\ ReplyWith(h, Question("notice", t))
               /\ Then(h, "relearn")
    <3>1. PICK t \in Confirmed(who[h]), c \in Categories :
               /\ tx' = [tx EXCEPT ![t].status = "amended", ![t].ver = @ + 1, ![t].category = c]
               /\ Teaches(who[h], c)
               /\ ReplyWith(h, Question("notice", t))
               /\ Then(h, "relearn")
      BY <2>3, Zenon
    <3>2. t \in Messages /\ who[h] \in Users
      BY <1>b, <2>1 DEF Confirmed, ActiveSteps
    <3>3. [tx EXCEPT ![t].status = "amended", ![t].ver = @ + 1, ![t].category = c] \in [Messages -> Entry]
      BY <1>0, <3>2, AmendedEntry, Zenon DEF RecordsTypeOK
    <3>4. tx' \in [Messages -> Entry]
      BY <3>1, <3>3, Zenon
    <3>5. say' = [say EXCEPT ![h] = Question("notice", t)] /\ lessons' = [lessons EXCEPT ![who[h]] = Append(@, c)]
          /\ at' = [at EXCEPT ![h] = "relearn"]
      BY <3>1, Zenon DEF Teaches, ReplyWith
    <3> HIDE DEF Then
    <3>6. Question("notice", t) \in Saying
      BY <3>2 DEF Question, Saying, Subjects
    <3>7. say' \in [Attempts -> Saying] /\ say'[h].tx = t
      BY <1>0, <3>5, <3>6 DEF SpeechTypeOK, Question
    <3>8. lessons' \in [Users -> Seq(Categories \cup {"none"})]
      BY <1>0, <3>2, <3>5 DEF MemoryTypeOK
    <3>9. QuestionFits(h)'
      BY <1>0, <3>2, <3>5, <3>7 DEF QuestionFits, CardSteps, EditSteps
    <3> QED
      BY <1>0, <2>1, <3>4, <3>7, <3>8, <3>9 DEF RecordsTypeOK, MemoryTypeOK, SpeechTypeOK
  <2> QED
    BY <1>4, <2>2, <2>3, Zenon DEF Recategorise
<1>5. CASE PersistInsight(h) \/ WriteExport(h)
  <2>1. who[h] \in Users
    BY <1>5, <1>b DEF PersistInsight, WriteExport, ActiveSteps
  <2>2. \E d \in {"insight", "export"} : derived' = [derived EXCEPT ![who[h]] = @ \cup {d}]
    BY <1>5 DEF PersistInsight, WriteExport, Derives
  <2>3. derived' \in [Users -> SUBSET {"insight", "export"}]
    BY <1>0, <2>1, <2>2 DEF MemoryTypeOK
  <2>4. at'[h] = "reply" /\ UNCHANGED <<records, merchant, rule, lessons, say, speech, deeds>>
    BY <1>0, <1>5 DEF PersistInsight, WriteExport
  <2> QED
    BY <1>0, <1>a, <2>3, <2>4 DEF RecordsTypeOK, MemoryTypeOK, SpeechTypeOK
<1>6. CASE ClearPendingAction(h)
  <2>1. NoPending \in PendingRow
    BY DEF NoPending, PendingRow
  <2>2. pending' \in [Users -> PendingRow]
    BY <1>0, <1>6, <2>1 DEF ClearPendingAction, RecordsTypeOK
  <2>3. at'[h] = "reply" /\ UNCHANGED <<tx, receipt, used, memory, say, speech, deeds>>
    BY <1>0, <1>6 DEF ClearPendingAction
  <2> QED
    BY <1>0, <1>a, <2>2, <2>3 DEF RecordsTypeOK, MemoryTypeOK, SpeechTypeOK
<1> QED
  BY <1>1, <1>2, <1>3, <1>4, <1>5, <1>6 DEF EntryStep

LEMMA OtherTypes ==
  ASSUME CoreInv, NEW h \in Attempts,
         \/ Reply(h) \/ AskDelete(h) \/ RemoveExportArtifacts(h) \/ DeletionConfirmation(h)
         \/ LockedStatementFails(h)
  PROVE  RecordsTypeOK' /\ MemoryTypeOK' /\ SpeechTypeOK' /\ QuestionFits(h)'
<1> USE DEF Then, Goto, Silent, inboundRows, speech, deeds, records, memory, people, history, local
<1>0. /\ RecordsTypeOK /\ MemoryTypeOK /\ SpeechTypeOK
      /\ at \in [Attempts -> ChatSteps] /\ cur[h] \in Messages
  BY DEF CoreInv, ChatTypeOK, InboundTypeOK
<1>a. at'[h] \in {"reply", "mark", "clear", "purge", "unregister"} => QuestionFits(h)'
  BY DEF QuestionFits, CardSteps, EditSteps
<1>b. at[h] \in LockedSteps => who[h] \in Users
  BY DEF CoreInv, LockInv
<1>c. Notice \in Saying /\ say[h] \in Saying
  BY <1>0 DEF Notice, Saying, Subjects, SpeechTypeOK
<1>1. CASE Reply(h)
  <2>1. outbox' \subseteq OutKey /\ asked' \in Saying /\ answered' \subseteq Messages
    BY <1>0, <1>1, <1>c, EnqueuedTypes DEF Reply
  <2>2. /\ say' = [say EXCEPT ![h] = Notice] /\ at'[h] = "mark"
        /\ UNCHANGED <<records, memory, review, acted, erasedBy, reopenedBy>>
    BY <1>0, <1>1 DEF Reply, Leave, EndRoute, ReplyWith
  <2> QED
    BY <1>0, <1>a, <1>c, <2>1, <2>2 DEF RecordsTypeOK, MemoryTypeOK, SpeechTypeOK
<1>2. CASE AskDelete(h)
  <2>1. pending' \in [Users -> PendingRow]
    BY <1>2, <1>b, OpenedQuestion DEF AskDelete, LockedSteps, ActiveSteps
  <2>2. Question("delaccount", 0) \in Saying
    BY DEF Question, Saying
  <2>3. /\ say' = [say EXCEPT ![h] = Question("delaccount", 0)] /\ at'[h] = "reply"
        /\ UNCHANGED <<tx, receipt, used, memory, speech, deeds>>
    BY <1>0, <1>2 DEF AskDelete, ReplyWith
  <2> QED
    BY <1>0, <1>a, <2>1, <2>2, <2>3 DEF RecordsTypeOK, MemoryTypeOK, SpeechTypeOK
<1>3. CASE RemoveExportArtifacts(h)
  <2>1. derived' \in [Users -> SUBSET {"insight", "export"}]
    BY <1>0, <1>3 DEF RemoveExportArtifacts, MemoryTypeOK
  <2>2. at'[h] = "purge" /\ UNCHANGED <<records, merchant, rule, lessons, say, speech, deeds>>
    BY <1>0, <1>3 DEF RemoveExportArtifacts
  <2> QED
    BY <1>0, <1>a, <2>1, <2>2 DEF RecordsTypeOK, MemoryTypeOK, SpeechTypeOK
<1>4. CASE DeletionConfirmation(h)
  <2>1. outbox' \subseteq OutKey /\ asked' \in Saying /\ answered' \subseteq Messages
    BY <1>0, <1>4, <1>c, EnqueuedTypes DEF DeletionConfirmation
  <2>2. at'[h] = "mark" /\ UNCHANGED <<records, memory, say, review, acted, erasedBy, reopenedBy>>
    BY <1>0, <1>4 DEF DeletionConfirmation, Leave, EndRoute
  <2> QED
    BY <1>0, <1>a, <2>1, <2>2 DEF RecordsTypeOK, MemoryTypeOK, SpeechTypeOK
<1>5. CASE LockedStatementFails(h)
  <2>1. derived' \in [Users -> SUBSET {"insight", "export"}]
    <3>1. UNCHANGED derived \/ derived' = [derived EXCEPT ![who[h]] = @ \cup {"export"}]
      BY <1>5 DEF LockedStatementFails, Derives
    <3> QED
      BY <1>0, <3>1 DEF MemoryTypeOK
  <2>2. at'[h] \in {"reply", "mark", "clear", "unregister"} \/ (at'[h] = "learn" /\ at[h] = "settle")
    BY <1>0, <1>5 DEF LockedStatementFails, EndRoute
  <2>3. UNCHANGED <<records, merchant, rule, lessons, speech, say, deeds, who>>
    BY <1>5 DEF LockedStatementFails
  <2>4. QuestionFits(h)'
    <3>1. CASE at'[h] = "learn" /\ at[h] = "settle"
      BY <2>3, <3>1 DEF CoreInv, QuestionInv, QuestionFits, CardSteps, EditSteps
    <3> QED
      BY <1>a, <2>2, <3>1
  <2> QED
    BY <1>0, <2>1, <2>3, <2>4 DEF RecordsTypeOK, MemoryTypeOK, SpeechTypeOK
<1> QED
  BY <1>1, <1>2, <1>3, <1>4, <1>5

(* The steps under the lock except those that write an account. *)
OrdinaryStep(h) ==
  \/ CardStep(h) \/ ImageStep(h) \/ EntryStep(h) \/ ClearPendingAction(h)
  \/ Reply(h) \/ AskDelete(h) \/ RemoveExportArtifacts(h) \/ DeletionConfirmation(h)
  \/ LockedStatementFails(h)

LEMMA OrdinaryMoves ==
  ASSUME CoreInv, NEW h \in Attempts, OrdinaryStep(h)
  PROVE  Ordinary(h)
<1>1. ChatTypeOK /\ LockInv
  BY DEF CoreInv
<1>2. CASE CardStep(h)
  BY <1>1, <1>2, CardMoves
<1>3. CASE ImageStep(h)
  BY <1>1, <1>3, ImageMoves
<1>4. CASE EntryStep(h) \/ ClearPendingAction(h)
  BY <1>1, <1>4, EntryMoves
<1>5. CASE \/ Reply(h) \/ AskDelete(h) \/ RemoveExportArtifacts(h) \/ DeletionConfirmation(h)
           \/ LockedStatementFails(h)
  BY <1>1, <1>5, OtherMoves
<1> QED
  BY <1>2, <1>3, <1>4, <1>5 DEF OrdinaryStep

LEMMA OrdinaryKeepsCore ==
  ASSUME CoreInv, NEW h \in Attempts, OrdinaryStep(h)
  PROVE  CoreInv'
<1>1. Ordinary(h)
  BY OrdinaryMoves
<1>2. RecordsTypeOK' /\ MemoryTypeOK' /\ SpeechTypeOK' /\ QuestionFits(h)'
  <2>1. CASE CardStep(h)
    BY <2>1, CardTypes
  <2>2. CASE ImageStep(h)
    BY <2>2, ImageTypes
  <2>3. CASE EntryStep(h) \/ ClearPendingAction(h)
    BY <2>3, EntryTypes
  <2>4. CASE \/ Reply(h) \/ AskDelete(h) \/ RemoveExportArtifacts(h) \/ DeletionConfirmation(h)
             \/ LockedStatementFails(h)
    BY <2>4, OtherTypes
  <2> QED
    BY <2>1, <2>2, <2>3, <2>4 DEF OrdinaryStep
<1>3. InboundTypeOK' /\ LockInv' /\ UserInv' /\ HandInv' /\ Numbered'
  BY <1>1, OrdinaryKeepsInbound
<1>4. QuestionInv'
  BY <1>1, <1>2, QuestionKept
<1> QED
  BY <1>2, <1>3, <1>4 DEF CoreInv, ChatTypeOK

(* Consent and the request for deletion change the status of the user whose  *)
(* lock is held, and nothing else that a step under the lock relies on.      *)
NewStatus(h) ==
  /\ \/ at[h] = "consent" /\ Goto(h, "reply") /\ users' = [users EXCEPT ![who[h]] = "active"]
     \/ at[h] = "markDeleting" /\ Goto(h, "unexport") /\ users' = [users EXCEPT ![who[h]] = "deleting"]
        /\ UNCHANGED <<consented, reopenedBy>>
  /\ UNCHANGED <<setting, acked, lock, local, faults, msg, identity, handled, records, memory, say, speech>>
  /\ UNCHANGED <<acted, answered, erasedBy>>
  /\ consented' \in BOOLEAN /\ reopenedBy' \subseteq reopenedBy \cup {cur[h]}

LEMMA NewStatusMoves ==
  ASSUME CoreInv, NEW h \in Attempts, SetConsent(h) \/ BeginAccountDeletion(h)
  PROVE  NewStatus(h)
<1>1. consented \in BOOLEAN
  BY DEF CoreInv, ChatTypeOK, InboundTypeOK
<1>2. CASE SetConsent(h)
  BY <1>2 DEF SetConsent, Then, NewStatus
<1>3. CASE BeginAccountDeletion(h)
  <2>1. UNCHANGED <<setting, acked, lock, local, faults, msg, identity, handled, records, memory, say, speech>>
        /\ UNCHANGED <<acted, answered, erasedBy, consented, reopenedBy>>
    BY <1>3 DEF BeginAccountDeletion, Then, Silent, history, deeds
  <2> QED
    BY <1>1, <1>3, <2>1 DEF BeginAccountDeletion, Then, NewStatus
<1> QED
  BY <1>2, <1>3

LEMMA NewStatusKeepsCore ==
  ASSUME CoreInv, NEW h \in Attempts, SetConsent(h) \/ BeginAccountDeletion(h)
  PROVE  CoreInv'
<1> USE DEF setting, people, local, faults, records, memory, speech
<1>1. NewStatus(h)
  BY NewStatusMoves
<1>2. /\ at[h] \in {"consent", "markDeleting"} /\ at[h] \in LockedSteps
      /\ at'[h] \in {"reply", "unexport"} /\ at'[h] \in LockedSteps /\ at' \in [Attempts -> ChatSteps]
      /\ \A g \in Attempts : g # h => at'[g] = at[g]
  BY <1>1 DEF NewStatus, Goto, CoreInv, ChatTypeOK, InboundTypeOK, LockedSteps, ActiveSteps,
     GoingSteps,
              ChatSteps
<1>3. /\ identity = who[h] /\ who[h] \in Users /\ lock[who[h]] = h /\ review = 0
      /\ \A g \in Attempts : g # h => at[g] \notin LockedSteps \/ at[g] = "farewell"
  BY <1>2, LoneHolder
<1>4. /\ users' \in [Users -> UserStatus] /\ consented' \in BOOLEAN
      /\ users'[who[h]] \in {"active", "deleting"}
      /\ users'[who[h]] = "active" <=> at'[h] = "reply"
      /\ \A u \in Users : u # who[h] => users'[u] = users[u]
  BY <1>1, <1>2, <1>3 DEF NewStatus, Goto, UserStatus, CoreInv, ChatTypeOK, InboundTypeOK
<1>5. ChatTypeOK'
  <2>1. InboundTypeOK'
    BY <1>1, <1>2, <1>4 DEF NewStatus, CoreInv, ChatTypeOK, InboundTypeOK
  <2>2. reopenedBy' \subseteq Messages
    BY <1>1 DEF NewStatus, CoreInv, ChatTypeOK, InboundTypeOK, SpeechTypeOK
  <2> QED
    BY <1>1, <2>1, <2>2 DEF NewStatus, CoreInv, ChatTypeOK, RecordsTypeOK, MemoryTypeOK,
       SpeechTypeOK
<1>6. LockInv'
  BY <1>1, <1>2, <1>3 DEF NewStatus, CoreInv, LockInv
<1>7. UserInv'
  <2>1. \A u \in Users : (users'[u] \notin {"none", "deleted"}) <=> identity' = u
    BY <1>1, <1>3, <1>4 DEF NewStatus, CoreInv, UserInv
  <2>2. who' = who /\ err' = err
    BY <1>1 DEF NewStatus
  <2>3. ASSUME NEW g \in Attempts, g # h
        PROVE  /\ at'[g] \in {"own", "enter"} => who'[g] \in Users /\ users'[who'[g]] # "none"
               /\ at'[g] = "mark" /\ ~err'[g] => who'[g] \in Users /\ users'[who'[g]] # "none"
               /\ at'[g] \in LockedSteps => /\ at'[g] = "farewell" /\ who'[g] \in Users
                                            /\ users'[who'[g]] = "deleted"
    <3>1. at'[g] = at[g]
      BY <1>2, <2>3
    <3>2. at[g] = "farewell" => who[g] \in Users /\ users[who[g]] = "deleted"
      BY DEF CoreInv, UserInv, LockedSteps
    <3>3. at[g] = "farewell" => who[g] # who[h]
      BY <1>3, <3>2 DEF CoreInv, UserInv
    <3> QED
      <4>1. /\ at[g] \in {"own", "enter"} => who[g] \in Users /\ users[who[g]] # "none"
            /\ at[g] = "mark" /\ ~err[g] => who[g] \in Users /\ users[who[g]] # "none"
        BY DEF CoreInv, UserInv
      <4>2. who[g] \in Users /\ users[who[g]] # "none" => users'[who[g]] # "none"
        BY <1>4
      <4>3. at[g] \in LockedSteps => at[g] = "farewell"
        BY <1>3, <2>3
      <4>4. at[g] = "farewell" => users'[who[g]] = "deleted"
        BY <1>4, <3>2, <3>3
      <4> QED
        BY <2>2, <3>1, <3>2, <4>1, <4>2, <4>3, <4>4
  <2>4. \A g \in Attempts : at'[g] \in ActiveSteps \cup GoingSteps \cup {"consent", "reply", "farewell"}
                             => at'[g] \in LockedSteps
    BY DEF LockedSteps
  <2>5. "farewell" \notin ActiveSteps \cup GoingSteps \cup {"consent", "reply"}
    BY DEF ActiveSteps, GoingSteps, CardSteps, EditSteps
  <2>6. /\ at'[h] \notin ActiveSteps /\ at'[h] # "farewell" /\ at'[h] # "consent" /\ at'[h] # "mark"
        /\ at'[h] \in GoingSteps => at'[h] # "reply"
    BY <1>2 DEF ActiveSteps, GoingSteps, CardSteps, EditSteps
  <2> QED
    BY <1>2, <1>3, <1>4, <2>1, <2>2, <2>3, <2>4, <2>5, <2>6 DEF UserInv
<1>8. HandInv'
  <2>1. UNCHANGED <<msg, script, cur, pm>>
    BY <1>1 DEF NewStatus
  <2> QED
    BY <1>2, <2>1 DEF CoreInv, HandInv
<1>9. QuestionInv'
  <2>1. at'[h] \notin CardSteps \cup EditSteps \cup {"deleteRecent", "relearn"}
    BY <1>2 DEF CardSteps, EditSteps
  <2> QED
    BY <1>1, <1>2, <2>1 DEF NewStatus, CoreInv, QuestionInv
<1>10. Numbered'
  <2>1. users[who[h]] # "none"
    BY <1>2 DEF CoreInv, UserInv
  <2> QED
    BY <1>3, <1>4, <2>1 DEF CoreInv, Numbered
<1> QED
  BY <1>5, <1>6, <1>7, <1>8, <1>9, <1>10 DEF CoreInv

(* PurgeAccountData erases the account, or finds its request gone and ends   *)
(* in an error.                                                              *)
Purges(h) ==
  /\ at[h] = "purge" /\ Goto(h, "farewell")
  /\ Mine(h) /\ msg[cur[h]].owner = who[h]
  /\ EraseRecords(who[h]) /\ ForgetUser(who[h])
  /\ msg' = [m \in Messages |->
               CASE m = cur[h] -> Tombstone(msg[m])
                 [] Purged(m, h) -> [NoRow EXCEPT !.id = msg[m].id]
                 [] OTHER -> msg[m]]
  /\ identity' = NoUser
  /\ users' = [users EXCEPT ![who[h]] = "deleted"]
  /\ outbox' = {}
  /\ handled' = [handled EXCEPT ![cur[h]] = TRUE]
  /\ erasedBy' = erasedBy \cup {cur[h]}
  /\ UNCHANGED <<setting, acked, lock, local, faults, consented>>
  /\ UNCHANGED <<say, asked, review, acted, answered, reopenedBy>>

LEMMA PurgeMoves ==
  ASSUME CoreInv, NEW h \in Attempts, PurgeAccountData(h)
  PROVE  \/ Purges(h)
         \/ Ordinary(h) /\ EndsRoute(h) /\ at[h] = "purge" /\ UNCHANGED <<chatVars, errors>>
<1>1. CASE Mine(h) /\ msg[cur[h]].owner = who[h]
  <2>1. Purges(h)
    BY <1>1, Zenon DEF PurgeAccountData, Purges, Then
  <2> QED
    BY <2>1
<1>2. CASE ~(Mine(h) /\ msg[cur[h]].owner = who[h])
  <2>1. /\ at[h] = "purge" /\ Leave(h, TRUE)
        /\ UNCHANGED <<msg, people, faults, records, memory, outbox, erasedBy>>
        /\ UNCHANGED <<say, asked, review, acted, answered, reopenedBy>>
    BY <1>2, Zenon DEF PurgeAccountData
  <2>2. EndsRoute(h) /\ UNCHANGED consented
    BY <2>1 DEF Leave, EndRoute, Goto, EndsRoute, LockedSteps, GoingSteps
  <2>3. Ordinary(h)
    BY <2>1, <2>2 DEF Leave, Ordinary, OwnRowsOnly, people, faults, records, memory, setting
  <2> QED
    BY <2>1, <2>2, <2>3 DEF chatVars, records, memory, speech, deeds, faults
<1> QED
  BY <1>1, <1>2

LEMMA PurgeKeepsCore ==
  ASSUME CoreInv, NEW h \in Attempts, PurgeAccountData(h)
  PROVE  CoreInv'
<1> USE DEF setting, people, local, faults, records, memory, speech, deeds
<1>1. CASE Ordinary(h) /\ EndsRoute(h) /\ at[h] = "purge" /\ UNCHANGED <<chatVars, errors>>
  <2>1. InboundTypeOK' /\ LockInv' /\ UserInv' /\ HandInv' /\ Numbered'
    BY <1>1, OrdinaryKeepsInbound
  <2>2. RecordsTypeOK' /\ MemoryTypeOK' /\ SpeechTypeOK'
    BY <1>1 DEF CoreInv, ChatTypeOK, RecordsTypeOK, MemoryTypeOK, SpeechTypeOK, chatVars
  <2>3. at'[h] = "mark"
    BY <1>1 DEF EndsRoute, CoreInv, ChatTypeOK, InboundTypeOK
  <2>4. QuestionFits(h)'
    BY <2>3 DEF QuestionFits, CardSteps, EditSteps
  <2>5. QuestionInv'
    BY <1>1, <2>4, QuestionKept
  <2> QED
    BY <2>1, <2>2, <2>5 DEF CoreInv, ChatTypeOK
<1>2. CASE Purges(h)
  <2>1. /\ at[h] \in LockedSteps /\ at[h] = "purge" /\ at'[h] = "farewell" /\ at' \in [Attempts -> ChatSteps]
        /\ \A g \in Attempts : g # h => at'[g] = at[g]
    BY <1>2 DEF Purges, Goto, CoreInv, ChatTypeOK, InboundTypeOK, LockedSteps, GoingSteps,
       ChatSteps
  <2>2. /\ identity = who[h] /\ who[h] \in Users /\ lock[who[h]] = h /\ review = 0
        /\ \A g \in Attempts : g # h => at[g] \notin LockedSteps \/ at[g] = "farewell"
    BY <2>1, LoneHolder
  <2>3. /\ users' \in [Users -> UserStatus] /\ identity' \in Owners /\ users'[who[h]] = "deleted"
        /\ \A u \in Users : u # who[h] => users'[u] = users[u]
    BY <1>2, <2>2 DEF Purges, UserStatus, Owners, CoreInv, ChatTypeOK, InboundTypeOK
  <2>4. msg' \in [Messages -> MessageRow] /\ \A m \in Messages : msg'[m].id = msg[m].id
    <3>1. msg \in [Messages -> MessageRow]
      BY DEF CoreInv, ChatTypeOK, InboundTypeOK
    <3>2. ASSUME NEW m \in Messages
          PROVE  msg'[m] \in MessageRow /\ msg'[m].id = msg[m].id
      <4>1. msg'[m] = (CASE m = cur[h] -> Tombstone(msg[m])
                         [] Purged(m, h) -> [NoRow EXCEPT !.id = msg[m].id]
                         [] OTHER -> msg[m])
        BY <1>2 DEF Purges
      <4>2. Tombstone(msg[m]) \in MessageRow /\ Tombstone(msg[m]).id = msg[m].id
        BY <3>1 DEF Tombstone, MessageRow, Owners
      <4>3. [NoRow EXCEPT !.id = msg[m].id] \in MessageRow /\ [NoRow EXCEPT !.id = msg[m].id].id = msg[m].id
        BY <3>1 DEF NoRow, MessageRow, Owners
      <4>4. msg'[m] \in {Tombstone(msg[m]), [NoRow EXCEPT !.id = msg[m].id], msg[m]}
        BY <4>1, Zenon DEF Purged
      <4> QED
        BY <3>1, <4>2, <4>3, <4>4
    <3>3. DOMAIN msg' = Messages /\ msg' = [m \in Messages |-> msg'[m]]
      BY <1>2 DEF Purges
    <3> QED
      BY <3>2, <3>3
  <2>5. InboundTypeOK'
    <3>1. handled' \in [Messages -> BOOLEAN]
      BY <1>2 DEF Purges, CoreInv, ChatTypeOK, InboundTypeOK
    <3> QED
      BY <1>2, <2>1, <2>3, <2>4, <3>1 DEF Purges, CoreInv, ChatTypeOK, InboundTypeOK
  <2>6. RecordsTypeOK'
    <3>1. RecordsTypeOK
      BY DEF CoreInv, ChatTypeOK
    <3>2. pending' \in [Users -> PendingRow] /\ used' \in [Users -> Nat]
      BY <1>2, <3>1 DEF Purges, EraseRecords, NoPending, PendingRow, RecordsTypeOK
    <3>3. tx' \in [Messages -> Entry]
      <4>1. \A m \in Messages : [NoTx EXCEPT !.ver = tx[m].ver] \in Entry
        BY <3>1 DEF NoTx, Entry, Owners, RecordsTypeOK
      <4> QED
        BY <1>2, <3>1, <4>1 DEF Purges, EraseRecords, RecordsTypeOK
    <3>4. receipt' \in [Messages -> Document]
      <4>1. NoReceipt \in Document
        BY DEF NoReceipt, Document
      <4> QED
        BY <1>2, <3>1, <4>1 DEF Purges, EraseRecords, RecordsTypeOK
    <3> QED
      BY <3>2, <3>3, <3>4 DEF RecordsTypeOK
  <2>7. MemoryTypeOK'
    <3>1. MemoryTypeOK
      BY DEF CoreInv, ChatTypeOK
    <3>2. rule' \in [Users -> Rule]
      <4>1. rule' = [rule EXCEPT ![who[h]] = NoRule]
        BY <1>2, Zenon DEF Purges, ForgetUser
      <4>2. rule \in [Users -> Rule] /\ NoRule \in Rule
        BY <3>1 DEF MemoryTypeOK, NoRule, Rule
      <4> QED
        BY <4>1, <4>2
    <3>3. lessons' \in [Users -> Seq(Categories \cup {"none"})]
      <4>1. lessons' = [lessons EXCEPT ![who[h]] = <<>>]
        BY <1>2, Zenon DEF Purges, ForgetUser
      <4>2. lessons \in [Users -> Seq(Categories \cup {"none"})] /\ <<>> \in Seq(Categories \cup {"none"})
        BY <3>1 DEF MemoryTypeOK
      <4> QED
        BY <4>1, <4>2
    <3>4. derived' \in [Users -> SUBSET {"insight", "export"}] /\ UNCHANGED merchant
      <4>1. derived' = [derived EXCEPT ![who[h]] = @ \ {"insight"}] /\ UNCHANGED merchant
        BY <1>2, Zenon DEF Purges, ForgetUser
      <4>2. derived \in [Users -> SUBSET {"insight", "export"}]
        BY <3>1 DEF MemoryTypeOK
      <4> QED
        BY <4>1, <4>2
    <3> QED
      BY <3>1, <3>2, <3>3, <3>4 DEF MemoryTypeOK
  <2>8. SpeechTypeOK'
    <3>1. SpeechTypeOK /\ cur[h] \in Messages
      BY DEF CoreInv, ChatTypeOK, InboundTypeOK
    <3> QED
      BY <1>2, <3>1 DEF Purges, SpeechTypeOK
  <2>9. UNCHANGED <<who, err, lock, review, script, cur, pm>>
    BY <1>2 DEF Purges
  <2>10. "farewell" \in LockedSteps
    BY DEF LockedSteps
  <2>11. LockInv'
    BY <2>1, <2>2, <2>9, <2>10 DEF CoreInv, LockInv
  <2>12. UserInv'
    <3>1. \A u \in Users : (users'[u] \notin {"none", "deleted"}) <=> identity' = u
      <4>1. identity' = NoUser /\ NoUser \notin Users
        BY <1>2 DEF Purges, NoUser, Users
      <4> QED
        BY <2>2, <2>3, <4>1 DEF CoreInv, UserInv
    <3>2. ASSUME NEW g \in Attempts, g # h
          PROVE  /\ at'[g] \in {"own", "enter"} => who'[g] \in Users /\ users'[who'[g]] # "none"
                 /\ at'[g] = "mark" /\ ~err'[g] => who'[g] \in Users /\ users'[who'[g]] # "none"
                 /\ at'[g] \in LockedSteps => /\ at'[g] = "farewell" /\ who'[g] \in Users
                                              /\ users'[who'[g]] = "deleted"
      <4>1. at'[g] = at[g]
        BY <2>1, <3>2
      <4>2. /\ at[g] \in {"own", "enter"} => who[g] \in Users /\ users[who[g]] # "none"
            /\ at[g] = "mark" /\ ~err[g] => who[g] \in Users /\ users[who[g]] # "none"
            /\ at[g] = "farewell" => who[g] \in Users /\ users[who[g]] = "deleted"
        BY <2>10 DEF CoreInv, UserInv
      <4>3. who[g] \in Users /\ users[who[g]] # "none" => users'[who[g]] # "none"
        BY <2>3
      <4>4. at[g] \in LockedSteps => at[g] = "farewell"
        BY <2>2, <3>2
      <4>5. at[g] = "farewell" => users'[who[g]] = "deleted"
        BY <2>3, <4>2
      <4> QED
        BY <2>9, <4>1, <4>2, <4>3, <4>4, <4>5
    <3>3. \A g \in Attempts : at'[g] \in ActiveSteps \cup GoingSteps \cup {"consent", "reply", "farewell"}
                               => at'[g] \in LockedSteps
      BY DEF LockedSteps
    <3>4. "farewell" \notin ActiveSteps \cup GoingSteps \cup {"consent", "reply"}
      BY DEF ActiveSteps, GoingSteps, CardSteps, EditSteps
    <3> QED
      BY <2>1, <2>2, <2>3, <2>9, <3>1, <3>2, <3>3, <3>4 DEF UserInv
  <2>13. HandInv'
    <3>1. \A g \in Attempts : cur[g] \in Messages
      BY DEF CoreInv, ChatTypeOK, InboundTypeOK
    <3> QED
      BY <2>1, <2>4, <2>9, <3>1 DEF CoreInv, HandInv
  <2>14. QuestionInv'
    <3>1. \A g \in Attempts : at'[g] \in LockedSteps => at'[g] = "farewell"
      BY <2>1, <2>2
    <3>2. CardSteps \cup EditSteps \cup {"deleteRecent", "relearn"} \subseteq LockedSteps
      BY DEF LockedSteps, ActiveSteps
    <3>3. "farewell" \notin CardSteps \cup EditSteps \cup {"deleteRecent", "relearn"}
      BY DEF CardSteps, EditSteps
    <3>4. \A g \in Attempts : at'[g] \notin CardSteps \cup EditSteps \cup {"deleteRecent", "relearn"}
      BY <3>1, <3>2, <3>3
    <3> QED
      BY <3>4 DEF QuestionInv
  <2>15. Numbered'
    <3>1. users[who[h]] # "none"
      BY <2>1 DEF CoreInv, UserInv
    <3> QED
      BY <2>2, <2>3, <3>1 DEF CoreInv, Numbered
  <2> QED
    BY <2>5, <2>6, <2>7, <2>8, <2>11, <2>12, <2>13, <2>14, <2>15 DEF CoreInv, ChatTypeOK
<1> QED
  BY <1>1, <1>2, PurgeMoves

LEMMA EnterKeepsCore ==
  ASSUME CoreInv, NEW h \in Attempts, Enter(h)
  PROVE  CoreInv'
<1> USE DEF setting, people, faults, history, memory, speech, deeds
<1>1. /\ at[h] = "enter" /\ who[h] \in Users /\ cur[h] \in DOMAIN script
      /\ Enters(h) \/ PassesBy(h)
      /\ UNCHANGED <<setting, acked, people, cur, redact, pm, who, faults>>
      /\ UNCHANGED <<tx, receipt, used, memory, speech, deeds>>
  BY EnterMoves
<1>2. /\ at \in [Attempts -> ChatSteps] /\ lock \in [Users -> Attempts \cup {Nobody, Worker}]
      /\ cur \in [Attempts -> Messages] /\ msg \in [Messages -> MessageRow] /\ err \in [Attempts -> BOOLEAN]
      /\ handled \in [Messages -> BOOLEAN] /\ pending \in [Users -> PendingRow] /\ say \in [Attempts -> Saying]
      /\ Nobody \notin Attempts /\ Worker \notin Attempts \cup {Nobody}
  BY NobodyIsNoAttempt, ChatSettings DEF CoreInv, ChatTypeOK, InboundTypeOK, RecordsTypeOK,
     SpeechTypeOK
<1>3. "enter" \notin LockedSteps /\ "mark" \notin LockedSteps /\ "mark" \in ChatSteps
  BY DEF LockedSteps, ActiveSteps, GoingSteps, CardSteps, EditSteps, ChatSteps, OpenSteps
<1>4. users[who[h]] # "none"
  BY <1>1 DEF CoreInv, UserInv
<1>5. CASE PassesBy(h)
  <2>1. /\ at'[h] = "mark" /\ at' \in [Attempts -> ChatSteps]
        /\ \A g \in Attempts : g # h => at'[g] = at[g] /\ err'[g] = err[g]
        /\ err' \in [Attempts -> BOOLEAN] /\ handled' \in [Messages -> BOOLEAN]
        /\ UNCHANGED <<lock, msg, pending, say, consented>>
    BY <1>2, <1>3, <1>5 DEF PassesBy
  <2>2. ChatTypeOK'
    BY <1>1, <2>1 DEF CoreInv, ChatTypeOK, InboundTypeOK, RecordsTypeOK, MemoryTypeOK,
       SpeechTypeOK
  <2>3. LockInv'
    BY <1>1, <1>3, <2>1 DEF CoreInv, LockInv
  <2>4. UserInv'
    <3>1. /\ at'[h] \notin LockedSteps /\ at'[h] \notin {"own", "enter", "consent", "reply", "farewell"}
          /\ at'[h] \notin ActiveSteps /\ at'[h] \notin GoingSteps
      BY <1>3, <2>1 DEF LockedSteps
    <3> QED
      BY <1>1, <1>4, <2>1, <3>1 DEF CoreInv, UserInv
  <2>5. HandInv'
    BY <1>1, <2>1 DEF CoreInv, HandInv
  <2>6. QuestionInv'
    BY <1>1, <2>1 DEF CoreInv, QuestionInv, CardSteps, EditSteps
  <2>7. Numbered'
    BY <1>1 DEF CoreInv, Numbered
  <2> QED
    BY <2>2, <2>3, <2>4, <2>5, <2>6, <2>7 DEF CoreInv
<1>6. CASE Enters(h)
  <2>1. PICK s \in ActiveSteps \cup {"consent", "reply"} :
       /\ Goto(h, s)
       /\ s \in ActiveSteps => users[who[h]] = "active" /\ allowed
       /\ s = "consent" => users[who[h]] = "pending" /\ allowed
       /\ s \in CardSteps => pending'[who[h]].kind = "card"
       /\ s \in EditSteps => pending'[who[h]].kind = "edit"
       /\ s = "deleteRecent" => pending'[who[h]].kind = "delrecent"
       /\ s # "relearn"
    BY <1>6 DEF Enters
  <2>2. /\ at'[h] = s /\ s \in LockedSteps /\ at' \in [Attempts -> ChatSteps]
        /\ \A g \in Attempts : g # h => at'[g] = at[g]
    BY <1>2, <2>1 DEF Goto, LockedSteps, ChatSteps
  <2>3. /\ lock[who[h]] = Nobody /\ lock' = [lock EXCEPT ![who[h]] = h]
        /\ users[who[h]] \in {"pending", "active", "suspended"}
        /\ UNCHANGED <<err, handled, consented>>
    BY <1>6 DEF Enters
  <2>4. /\ pending' \in [Users -> PendingRow]
        /\ \A u \in Users : u # who[h] => pending'[u] = pending[u]
    <3>1. Open(who[h]) \in PendingRow
      BY <1>1, <1>2 DEF Open, NoPending, PendingRow
    <3> QED
      BY <1>1, <1>2, <1>6, <3>1 DEF Enters
  <2>5. /\ say' \in [Attempts -> Saying]
        /\ \A g \in Attempts : g # h => say'[g] = say[g]
    BY <1>2, <1>6 DEF Enters
  <2>6. msg' \in [Messages -> MessageRow] /\ \A m \in Messages : msg'[m].id = msg[m].id
    <3>1. msg' = msg \/ msg' = [msg EXCEPT ![cur[h]].raw = "redacted"]
      BY <1>6 DEF Enters
    <3>2. [msg EXCEPT ![cur[h]].raw = "redacted"] \in [Messages -> MessageRow]
      BY <1>2, RawRow, Zenon
    <3>3. msg' \in [Messages -> MessageRow]
      BY <1>2, <3>1, <3>2
    <3>4. \A m \in Messages : msg'[m].id = msg[m].id
      <4>1. \A m \in Messages : [msg EXCEPT ![cur[h]].raw = "redacted"][m].id = msg[m].id
        BY <1>2 DEF MessageRow
      <4> QED
        BY <3>1, <4>1
    <3> QED
      BY <3>3, <3>4
  <2>7. ChatTypeOK'
    <3>1. lock' \in [Users -> Attempts \cup {Nobody, Worker}]
      BY <1>1, <1>2, <2>3
    <3>2. InboundTypeOK'
      BY <1>1, <2>2, <2>3, <2>6, <3>1 DEF CoreInv, ChatTypeOK, InboundTypeOK
    <3> QED
      BY <1>1, <2>4, <2>5, <3>2 DEF CoreInv, ChatTypeOK, RecordsTypeOK, MemoryTypeOK, SpeechTypeOK
  <2>8. LockInv'
    <3>1. ASSUME NEW g \in Attempts, at'[g] \in LockedSteps
          PROVE  who'[g] \in Users /\ lock'[who'[g]] = g
      <4>1. CASE g = h
        BY <1>1, <1>2, <2>3, <4>1
      <4>2. CASE g # h
        <5>1. who[g] \in Users /\ lock[who[g]] = g
          BY <2>2, <3>1, <4>2 DEF CoreInv, LockInv
        <5>2. who[g] # who[h]
          BY <1>2, <2>3, <5>1
        <5> QED
          BY <1>1, <1>2, <2>3, <5>1, <5>2
      <4> QED
        BY <4>1, <4>2
    <3>2. ASSUME NEW u \in Users, NEW g \in Attempts, lock'[u] = g
          PROVE  at'[g] \in LockedSteps /\ who'[g] = u
      <4>1. CASE u = who[h]
        BY <1>1, <1>2, <2>2, <2>3, <3>2, <4>1
      <4>2. CASE u # who[h]
        <5>1. lock[u] = g
          BY <1>1, <1>2, <2>3, <3>2, <4>2
        <5>2. at[g] \in LockedSteps /\ who[g] = u
          BY <5>1 DEF CoreInv, LockInv
        <5> QED
          BY <1>1, <2>2, <4>2, <5>2
      <4> QED
        BY <4>1, <4>2
    <3>3. ASSUME review' # 0
          PROVE  /\ receipt'[review'].owner \in Users /\ lock'[receipt'[review'].owner] = Worker
                 /\ users'[receipt'[review'].owner] \notin {"none", "deleted"}
      <4>1. /\ receipt[review].owner \in Users /\ lock[receipt[review].owner] = Worker
            /\ users[receipt[review].owner] \notin {"none", "deleted"}
        BY <1>1, <3>3 DEF CoreInv, LockInv
      <4>2. receipt[review].owner # who[h]
        BY <1>2, <2>3, <4>1
      <4> QED
        BY <1>1, <1>2, <2>3, <4>1, <4>2
    <3> QED
      BY <3>1, <3>2, <3>3 DEF LockInv
  <2>9. UserInv'
    <3>1. ASSUME NEW g \in Attempts, g # h
          PROVE  at'[g] = at[g] /\ who'[g] = who[g] /\ err'[g] = err[g] /\ users' = users
      BY <1>1, <2>2, <2>3, <3>1
    <3>2. who'[h] = who[h] /\ users' = users /\ identity' = identity
      BY <1>1
    <3>3. /\ at'[h] \in ActiveSteps => users[who[h]] = "active"
          /\ at'[h] = "consent" => users[who[h]] = "pending"
          /\ at'[h] \notin GoingSteps /\ at'[h] # "farewell" /\ at'[h] # "mark"
      <4>1. at'[h] = s
        BY <2>2
      <4>2. s \notin GoingSteps /\ s # "farewell" /\ s # "mark"
        BY DEF ActiveSteps, GoingSteps, CardSteps, EditSteps
      <4> QED
        BY <2>1, <4>1, <4>2
    <3> QED
      BY <1>1, <1>4, <2>3, <3>1, <3>2, <3>3 DEF CoreInv, UserInv
  <2>10. HandInv'
    BY <1>1, <1>2, <2>2, <2>6 DEF CoreInv, HandInv
  <2>11. QuestionInv'
    <3>1. ASSUME NEW g \in Attempts, g # h
          PROVE  /\ at'[g] \in CardSteps => pending'[who'[g]].kind = "card"
                 /\ at'[g] \in EditSteps => pending'[who'[g]].kind = "edit"
                 /\ at'[g] = "deleteRecent" => pending'[who'[g]].kind = "delrecent"
                 /\ at'[g] = "relearn" => say'[g].tx \in Messages
      <4>1. at[g] \in LockedSteps => who[g] \in Users /\ who[g] # who[h]
        BY <1>2, <2>3 DEF CoreInv, LockInv
      <4>2. at[g] \in CardSteps \cup EditSteps \cup {"deleteRecent", "relearn"} => at[g] \in LockedSteps
        BY DEF LockedSteps, ActiveSteps
      <4> QED
        BY <1>1, <2>2, <2>4, <2>5, <3>1, <4>1, <4>2 DEF CoreInv, QuestionInv
    <3> QED
      BY <1>1, <2>1, <2>2, <3>1 DEF QuestionInv
  <2>12. Numbered'
    BY <1>1 DEF CoreInv, Numbered
  <2> QED
    BY <2>7, <2>8, <2>9, <2>10, <2>11, <2>12 DEF CoreInv
<1> QED
  BY <1>1, <1>5, <1>6

-----------------------------------------------------------------------------
(* The worker, the provider and the clocks. *)

LEMMA WorkerKeepsCore ==
  ASSUME CoreInv, WorkerStep
  PROVE  CoreInv'
<1> USE DEF setting, people, local, faults, history, memory, speech, deeds, records
<1>0. /\ ChatTypeOK /\ receipt \in [Messages -> Document] /\ lock \in [Users -> Attempts \cup {Nobody, Worker}]
      /\ 0 \notin Messages /\ Nobody \notin Attempts /\ Worker \notin Attempts \cup {Nobody}
  BY NobodyIsNoAttempt, ChatSettings DEF CoreInv, ChatTypeOK, InboundTypeOK, RecordsTypeOK,
     Messages
<1>1. ASSUME NEW m \in Messages, FinalizeReceiptReview(m)
      PROVE  CoreInv'
  <2> DEFINE u == receipt[m].owner
  <2>1. u \in Users /\ receipt[m].status # "none" /\ receipt[m].status = "queued"
    BY <1>0, <1>1 DEF FinalizeReceiptReview, Reviewable, Document
  <2>2. /\ lock[u] = Nobody /\ lock' = [lock EXCEPT ![u] = Worker] /\ review = 0 /\ review' = m
        /\ users[u] \notin {"none", "deleted"}
        /\ receipt' = [receipt EXCEPT ![m].status = "review", ![m].job = FALSE]
        /\ tx' = [tx EXCEPT ![m] = Draft(m, u)]
        /\ OpenQuestion(u, "card", m)
        /\ merchant' \in {"known", merchant}
        /\ UNCHANGED <<rule, derived, lessons>>
        /\ UNCHANGED <<setting, msg, acked, people, at, local, faults, history>>
        /\ UNCHANGED <<used, say, outbox, asked, deeds>>
    BY <1>1 DEF FinalizeReceiptReview, Reviewable, ReviewOf
  <2> HIDE DEF u
  <2>3. receipt' \in [Messages -> Document] /\ receipt'[m].owner = u
    <3>1. [receipt EXCEPT ![m].status = "review", ![m].job = FALSE] \in [Messages -> Document]
      BY <1>0, <2>1, ReviewedReceipt, Zenon
    <3>2. receipt'[m].owner = receipt[m].owner
      BY <1>0, <2>2
    <3> QED
      BY <2>2, <3>1, <3>2 DEF u
  <2>4. pending' \in [Users -> PendingRow]
    BY <2>1, <2>2, OpenedQuestion DEF About
  <2>5. ChatTypeOK'
    <3>1. tx' \in [Messages -> Entry]
      BY <1>0, <2>1, <2>2, DraftIsEntry DEF ChatTypeOK, RecordsTypeOK
    <3>2. lock' \in [Users -> Attempts \cup {Nobody, Worker}]
      BY <1>0, <2>1, <2>2
    <3>3. InboundTypeOK'
      BY <1>0, <2>2, <3>2 DEF ChatTypeOK, InboundTypeOK
    <3>4. MemoryTypeOK'
      BY <1>0, <2>2 DEF ChatTypeOK, MemoryTypeOK
    <3>5. SpeechTypeOK'
      BY <1>0, <2>2 DEF ChatTypeOK, SpeechTypeOK, Subjects
    <3>6. RecordsTypeOK'
      BY <1>0, <2>2, <2>3, <2>4, <3>1 DEF ChatTypeOK, RecordsTypeOK
    <3> QED
      BY <3>3, <3>4, <3>5, <3>6 DEF ChatTypeOK
  <2>6. LockInv'
    <3>1. ASSUME NEW g \in Attempts, at'[g] \in LockedSteps
          PROVE  who'[g] \in Users /\ lock'[who'[g]] = g
      BY <1>0, <2>1, <2>2, <3>1 DEF CoreInv, LockInv
    <3>2. ASSUME NEW v \in Users, NEW g \in Attempts, lock'[v] = g
          PROVE  at'[g] \in LockedSteps /\ who'[g] = v
      BY <1>0, <2>1, <2>2, <3>2 DEF CoreInv, LockInv
    <3>3. /\ receipt'[review'].owner \in Users /\ lock'[receipt'[review'].owner] = Worker
          /\ users'[receipt'[review'].owner] \notin {"none", "deleted"}
      BY <1>0, <2>1, <2>2, <2>3
    <3> QED
      BY <3>1, <3>2, <3>3 DEF LockInv
  <2>7. UserInv' /\ HandInv' /\ Numbered'
    BY <2>2 DEF CoreInv, UserInv, HandInv, Numbered
  <2>8. QuestionInv'
    <3>1. ASSUME NEW g \in Attempts, at[g] \in CardSteps \cup EditSteps \cup {"deleteRecent", "relearn"}
          PROVE  pending'[who[g]] = pending[who[g]]
      <4>1. at[g] \in LockedSteps
        BY <3>1 DEF LockedSteps, ActiveSteps
      <4>2. who[g] \in Users /\ who[g] # u
        BY <1>0, <2>2, <4>1 DEF CoreInv, LockInv
      <4> QED
        BY <1>0, <2>1, <2>2, <4>2 DEF OpenQuestion, ChatTypeOK, RecordsTypeOK
    <3> QED
      BY <2>2, <3>1 DEF CoreInv, QuestionInv
  <2> QED
    BY <2>5, <2>6, <2>7, <2>8 DEF CoreInv
<1>2. CASE SendReviewCard
  <2>1. /\ review # 0 /\ review' = 0 /\ Unlock(Worker) /\ Enqueue(Question("card", review), review)
        /\ UNCHANGED <<setting, msg, acked, people, at, local, faults, history>>
        /\ UNCHANGED <<records, memory, say, acted, erasedBy, reopenedBy>>
    BY <1>2 DEF SendReviewCard
  <2>2. review \in Messages /\ Question("card", review) \in Saying
    BY <1>0, <2>1 DEF ChatTypeOK, SpeechTypeOK, Subjects, Question, Saying, About
  <2>3. outbox' \subseteq OutKey /\ asked' \in Saying /\ answered' \subseteq Messages
    BY <2>1, <2>2, EnqueuedTypes
  <2>4. ChatTypeOK'
    <3>1. lock' \in [Users -> Attempts \cup {Nobody, Worker}]
      BY <1>0, <2>1 DEF Unlock
    <3>2. InboundTypeOK'
      BY <1>0, <2>1, <3>1 DEF ChatTypeOK, InboundTypeOK
    <3>3. SpeechTypeOK'
      BY <1>0, <2>1, <2>3 DEF ChatTypeOK, SpeechTypeOK, Subjects
    <3> QED
      BY <1>0, <2>1, <3>2, <3>3 DEF ChatTypeOK, RecordsTypeOK, MemoryTypeOK
  <2>5. LockInv'
    BY <1>0, <2>1 DEF Unlock, CoreInv, LockInv
  <2>6. UserInv' /\ HandInv' /\ Numbered' /\ QuestionInv'
    BY <2>1 DEF CoreInv, UserInv, HandInv, Numbered, QuestionInv
  <2> QED
    BY <2>4, <2>5, <2>6 DEF CoreInv
<1> QED
  BY <1>1, <1>2 DEF WorkerStep

LEMMA ExpiryKeepsCore ==
  ASSUME CoreInv, NEW u \in Users, PendingExpires(u)
  PROVE  CoreInv'
<1> USE DEF inboundVars, setting, people, local, faults, history, memory, speech, deeds
<1>1. /\ pending' = [pending EXCEPT ![u].expired = TRUE] /\ pending \in [Users -> PendingRow]
      /\ UNCHANGED <<inboundVars, tx, receipt, used, memory, speech, say, deeds>>
  BY DEF PendingExpires, CoreInv, ChatTypeOK, RecordsTypeOK
<1>2. pending' \in [Users -> PendingRow] /\ \A v \in Users : pending'[v].kind = pending[v].kind
  <2>1. [pending[u] EXCEPT !.expired = TRUE] \in PendingRow
    BY <1>1 DEF PendingRow
  <2>2. [pending[u] EXCEPT !.expired = TRUE].kind = pending[u].kind
    BY <1>1 DEF PendingRow
  <2> QED
    BY <1>1, <2>1, <2>2
<1>3. ChatTypeOK'
  BY <1>1, <1>2 DEF CoreInv, ChatTypeOK, InboundTypeOK, RecordsTypeOK, MemoryTypeOK, SpeechTypeOK
<1>4. LockInv' /\ UserInv' /\ HandInv' /\ Numbered'
  BY <1>1 DEF CoreInv, LockInv, UserInv, HandInv, Numbered
<1>5. QuestionInv'
  <2>1. \A g \in Attempts : at[g] \in CardSteps \cup EditSteps \cup {"deleteRecent"} => who[g] \in Users
    BY SubjectKnown
  <2> QED
    BY <1>1, <1>2, <2>1 DEF CoreInv, QuestionInv
<1> QED
  BY <1>3, <1>4, <1>5 DEF CoreInv

LEMMA ProviderKeepsCore ==
  ASSUME CoreInv, NEW m \in Messages, Quarantine(m) \/ ClaimExpires(m) \/ ClaimOutlived(m) \/ DeleteExpiredTombstone(m), UNCHANGED chatVars
  PROVE  CoreInv'
<1> USE DEF setting, people, local, faults, history, memory, speech, deeds, records, chatVars
<1>1. UNCHANGED <<setting, people, lock, at, local, history>>
  BY DEF Quarantine, ClaimExpires, ClaimOutlived, DeleteExpiredTombstone
<1>2. acked' \in [Messages -> BOOLEAN] /\ crashes' \in Nat /\ lapses' \in Nat /\ errors' \in Nat
  <2>1. InboundTypeOK
    BY DEF CoreInv, ChatTypeOK
  <2>2. CASE Quarantine(m)
    BY <2>1, <2>2 DEF Quarantine, InboundTypeOK
  <2>3. CASE ClaimExpires(m) \/ ClaimOutlived(m) \/ DeleteExpiredTombstone(m)
    BY <2>1, <2>3 DEF ClaimExpires, ClaimOutlived, DeleteExpiredTombstone, InboundTypeOK
  <2> QED
    BY <2>2, <2>3
<1>3. msg' \in [Messages -> MessageRow] /\ \A k \in Messages : msg'[k].id = msg[k].id
  <2>1. DeleteExpiredTombstone(m) \/ msg' = msg \/ msg' = [msg EXCEPT ![m].leased = FALSE]
    BY DEF Quarantine, ClaimExpires, ClaimOutlived
  <2>2. msg \in [Messages -> MessageRow]
    BY DEF CoreInv, ChatTypeOK, InboundTypeOK
  <2>3. [msg EXCEPT ![m].leased = FALSE] \in [Messages -> MessageRow]
    BY <2>2, LeasedRow, Zenon
  <2>4. \A k \in Messages : [msg EXCEPT ![m].leased = FALSE][k].id = msg[k].id
    BY <2>2 DEF MessageRow
  <2>5. DeleteExpiredTombstone(m) => msg' \in [Messages -> MessageRow] /\ \A k \in Messages : msg'[k].id = msg[k].id
    BY <2>2, TombstoneGoes
  <2> QED
    BY <2>1, <2>2, <2>3, <2>4, <2>5
<1>4. ChatTypeOK'
  BY <1>1, <1>2, <1>3 DEF CoreInv, ChatTypeOK, InboundTypeOK, RecordsTypeOK, MemoryTypeOK,
     SpeechTypeOK
<1>5. LockInv' /\ UserInv' /\ QuestionInv' /\ Numbered'
  BY <1>1 DEF CoreInv, LockInv, UserInv, QuestionInv, Numbered
<1>6. HandInv'
  <2>1. \A g \in Attempts : cur[g] \in Messages
    BY DEF CoreInv, ChatTypeOK, InboundTypeOK
  <2> QED
    BY <1>1, <1>3, <2>1 DEF CoreInv, HandInv
<1> QED
  BY <1>4, <1>5, <1>6 DEF CoreInv

(* Every step is one of these kinds. *)
LEMMA StepKinds ==
  ASSUME Next
  PROVE  \/ \E m \in Messages : (Quarantine(m) \/ ClaimExpires(m) \/ ClaimOutlived(m) \/ DeleteExpiredTombstone(m)) /\ UNCHANGED chatVars
         \/ \E h \in Attempts : OutsideStep(h) /\ UNCHANGED chatVars
         \/ \E h \in Attempts : Enter(h)
         \/ \E h \in Attempts : OrdinaryStep(h)
         \/ \E h \in Attempts : SetConsent(h) \/ BeginAccountDeletion(h)
         \/ \E h \in Attempts : PurgeAccountData(h)
         \/ \E u \in Users : PendingExpires(u)
         \/ WorkerStep
<1>1. ASSUME NEW m \in Messages, DeliverMessage(m) \/ LeaseLapses(m)
      PROVE  \/ (Quarantine(m) \/ ClaimExpires(m)) /\ UNCHANGED chatVars
             \/ \E h \in Attempts : OutsideStep(h) /\ UNCHANGED chatVars
  BY <1>1 DEF DeliverMessage, LeaseLapses, Inbox, OutsideStep
<1>2. ASSUME NEW h \in Attempts, AttemptStep(h)
      PROVE  \/ OutsideStep(h) /\ UNCHANGED chatVars
             \/ OrdinaryStep(h) \/ SetConsent(h) \/ BeginAccountDeletion(h) \/ PurgeAccountData(h)
  BY <1>2 DEF AttemptStep, Inbox, LockedStep, AccountStep, OutsideStep, OrdinaryStep
<1>3. ASSUME Failure
      PROVE  \/ \E m \in Messages : (ClaimOutlived(m) \/ DeleteExpiredTombstone(m)) /\ UNCHANGED chatVars
             \/ \E h \in Attempts : OutsideStep(h) /\ UNCHANGED chatVars
             \/ \E h \in Attempts : OrdinaryStep(h)
  BY <1>3 DEF Failure, Inbox, InboundFault, OutsideStep, OrdinaryStep
<1> QED
  BY <1>1, <1>2, <1>3 DEF Next

LEMMA CoreStep ==
  ASSUME CoreInv, [Next]_vars
  PROVE  CoreInv'
<1>1. CASE Next
  BY <1>1, StepKinds, ProviderKeepsCore, OutsideKeepsCore, EnterKeepsCore, OrdinaryKeepsCore,
     NewStatusKeepsCore, PurgeKeepsCore, ExpiryKeepsCore, WorkerKeepsCore
<1>2. CASE UNCHANGED vars
  BY <1>2 DEF CoreInv, ChatTypeOK, InboundTypeOK, RecordsTypeOK, MemoryTypeOK, SpeechTypeOK,
     LockInv, UserInv,
     HandInv, QuestionInv, Numbered, vars, inboundVars, chatVars, setting, people, local,
     faults, history,
     records, memory, speech, deeds
<1> QED
  BY <1>1, <1>2

LEMMA CoreInit ==
  ASSUME ChatInit
  PROVE  CoreInv
<1> USE DEF ChatInit, InboundInit, LearningInit
<1>0. NoUser \notin Users /\ 1 \in Users /\ 1 \in Messages /\ 0 \notin Messages /\ 0 \in 0 .. MaxUsers
      /\ 1 \in 0 .. MaxUsers
  BY InboundBounds DEF Users, NoUser, Messages
<1>1. PICK s \in Settings :
       /\ script = s.script /\ mode = s.mode /\ allowed = s.allowed /\ maxFaults = s.faults
       /\ users = [u \in Users |-> IF u = 1 THEN s.first ELSE "none"]
       /\ identity = IF s.first = "none" THEN NoUser ELSE 1
       /\ consented = (s.first # "none")
  OBVIOUS
<1>2. /\ s.script \in Seq(Contents) /\ Len(s.script) \in Messages
      /\ s.mode \in {"webhook", "poll"} /\ s.allowed \in BOOLEAN
      /\ s.first \in {"none", "active", "suspended"} /\ s.faults \in Nat
  BY InboundSettings
<1>3. DOMAIN script \subseteq Messages
  BY <1>1, <1>2, InboundBounds DEF Messages
<1>4. InboundTypeOK
  <2>1. NoRow \in MessageRow
    BY DEF NoRow, MessageRow, Owners
  <2>2. "idle" \in ChatSteps
    BY DEF ChatSteps, OpenSteps
  <2>3. users \in [Users -> UserStatus] /\ identity \in Owners
    BY <1>0, <1>1, <1>2 DEF UserStatus, Owners
  <2> QED
    BY <1>0, <1>1, <1>2, <1>3, <2>1, <2>2, <2>3 DEF InboundTypeOK, Owners
<1>5. RecordsTypeOK
  BY DEF RecordsTypeOK, NoPending, PendingRow, NoTx, Entry, Owners, NoReceipt, Document
<1>6. MemoryTypeOK
  BY DEF MemoryTypeOK, NoRule, Rule
<1>7. SpeechTypeOK
  BY DEF SpeechTypeOK, NoQuestion, Notice, Saying, Subjects
<1>8. "idle" \notin LockedSteps /\ \A h \in Attempts : at[h] = "idle"
  BY DEF LockedSteps, ActiveSteps, GoingSteps, CardSteps, EditSteps
<1>9. LockInv
  BY <1>8, NobodyIsNoAttempt DEF LockInv
<1>10. UserInv
  <2>1. \A u \in Users : (users[u] \notin {"none", "deleted"}) <=> identity = u
    BY <1>0, <1>1, <1>2
  <2>2. \A h \in Attempts : at[h] \notin ActiveSteps \cup GoingSteps
    BY <1>8 DEF LockedSteps
  <2> QED
    BY <1>8, <2>1, <2>2 DEF UserInv
<1>11. HandInv
  BY <1>8 DEF HandInv
<1>12. QuestionInv
  BY <1>8 DEF QuestionInv, CardSteps, EditSteps
<1>13. Numbered
  <2>1. CASE s.first = "none"
    <3>1. \A u \in Users : users[u] # "none" <=> u <= 0
      BY <1>1, <2>1, InboundBounds DEF Users
    <3> QED
      BY <1>0, <3>1 DEF Numbered
  <2>2. CASE s.first # "none"
    <3>1. \A u \in Users : users[u] # "none" <=> u <= 1
      BY <1>1, <2>2, InboundBounds DEF Users
    <3> QED
      BY <1>0, <3>1 DEF Numbered
  <2> QED
    BY <2>1, <2>2
<1> QED
  BY <1>4, <1>5, <1>6, <1>7, <1>9, <1>10, <1>11, <1>12, <1>13 DEF CoreInv, ChatTypeOK

(* The invariants every other argument about the chat rests on: what the     *)
(* tables hold, that the user lock is held by the one attempt or worker that *)
(* works for the user, and that the user is in the state its step needs,     *)
(* whatever is delivered twice, out of order, or cut off by a crash.         *)
THEOREM ChatCoreSafe == Spec => []CoreInv
<1>1. ChatInit => CoreInv
  BY CoreInit
<1>2. CoreInv /\ [Next]_vars => CoreInv'
  BY CoreStep
<1> QED
  BY <1>1, <1>2, PTL DEF Spec

-----------------------------------------------------------------------------
(* Content and consent. *)

(* Whoever is known beyond "pending" has consented, and a claim about to be  *)
(* written without redaction belongs to a consented sender or to the consent *)
(* dialogue.                                                                 *)
ContentInv ==
  /\ NoContentBeforeConsent
  /\ \A u \in Users : users[u] \notin {"none", "pending"} => consented
  /\ \A h \in Attempts : at[h] = "claim" /\ ~redact[h] => consented \/ script[cur[h]] \in ConsentRelated

(* What becomes of the columns of a row outside the lock. *)
RowChange(h) ==
  \A m \in Messages :
    /\ msg'[m].raw = "kept" => msg[m].raw = "kept" \/ (m = cur[h] /\ at[h] = "claim" /\ ~redact[h])
    /\ msg'[m].owner # msg[m].owner =>
         /\ m = cur[h]
         /\ \/ msg'[m].owner = NoUser /\ msg'[m].id = msg[m].id + 1 /\ ~Row(m)
            \/ at[h] = "own" /\ Mine(h) /\ msg'[m].owner = who[h] /\ msg[m].owner = NoUser /\ msg'[m].id = msg[m].id

LEMMA RowChanges ==
  ASSUME CoreInv, NEW h \in Attempts, OutsideStep(h)
  PROVE  RowChange(h)
<1> USE DEF RowChange
<1>0. msg \in [Messages -> MessageRow] /\ cur[h] \in Messages
  BY DEF CoreInv, ChatTypeOK, InboundTypeOK
<1>1. CASE UNCHANGED msg
  BY <1>1
<1>2. CASE ClaimProviderMessage(h)
  <2>1. CASE InsertMessage(h)
    <3>1. msg' = [msg EXCEPT ![cur[h]] = [id |-> @.id + 1, status |-> "received", leased |-> TRUE,
                                          owner |-> NoUser, raw |-> IF redact[h] THEN "redacted" ELSE "kept"]]
          /\ ~Row(cur[h]) /\ at[h] = "claim"
      BY <1>2, <2>1 DEF ClaimProviderMessage, InsertMessage
    <3>2. \A m \in Messages : m # cur[h] => msg'[m] = msg[m]
      BY <1>0, <3>1
    <3>3. /\ msg'[cur[h]].owner = NoUser /\ msg'[cur[h]].id = msg[cur[h]].id + 1
          /\ msg'[cur[h]].raw = "kept" => ~redact[h]
      BY <1>0, <3>1
    <3> QED
      BY <3>1, <3>2, <3>3
  <2>2. CASE ReclaimMessage(h)
    <3>1. msg' = [msg EXCEPT ![cur[h]].status = "received", ![cur[h]].leased = TRUE,
                             ![cur[h]].raw = IF redact[h] /\ allowed THEN "redacted" ELSE @]
      BY <2>2 DEF ReclaimMessage
    <3>2. \A m \in Messages : m # cur[h] => msg'[m] = msg[m]
      BY <1>0, <3>1
    <3>3. /\ msg'[cur[h]].owner = msg[cur[h]].owner
          /\ msg'[cur[h]].raw = "kept" => msg[cur[h]].raw = "kept"
      BY <1>0, <3>1
    <3> QED
      BY <3>2, <3>3
  <2>3. CASE Absorb(h) \/ RefuseAltered(h)
    BY <2>3 DEF Absorb, RefuseAltered
  <2> QED
    BY <1>2, <2>1, <2>2, <2>3 DEF ClaimProviderMessage
<1>3. CASE SetProviderMessageUser(h)
  <2>1. CASE UNCHANGED msg
    BY <2>1
  <2>2. CASE /\ Mine(h) /\ msg[cur[h]].owner \in {NoUser, who[h]} /\ at[h] = "own"
             /\ msg' = [msg EXCEPT ![cur[h]].owner = who[h]]
    <3>1. \A m \in Messages : msg'[m].raw = msg[m].raw /\ (m # cur[h] => msg'[m] = msg[m])
                              /\ msg'[m].id = msg[m].id
      BY <1>0, <2>2 DEF MessageRow
    <3>2. msg'[cur[h]].owner = who[h]
      BY <1>0, <2>2 DEF MessageRow
    <3> QED
      BY <2>2, <3>1, <3>2
  <2> QED
    BY <1>3, <2>1, <2>2 DEF SetProviderMessageUser
<1>4. CASE MarkProviderMessage(h) \/ AnswerLost(h)
  <2>1. msg' = msg \/ \E s \in {"failed", "processed"} :
                        msg' = [msg EXCEPT ![cur[h]].status = s, ![cur[h]].leased = FALSE]
    BY <1>4 DEF MarkProviderMessage, AnswerLost
  <2>2. \A m \in Messages : msg'[m].raw = msg[m].raw /\ msg'[m].owner = msg[m].owner
    BY <1>0, <2>1 DEF MessageRow
  <2> QED
    BY <2>2
<1>5. ASSUME NEW m \in Messages, Deliver(h, m)
      PROVE  UNCHANGED msg
  BY <1>5 DEF Deliver
<1>6. CASE ResolveUser(h) \/ CreateUserWithIdentity(h) \/ Crash(h) \/ StatementFails(h)
  BY <1>6 DEF ResolveUser, CreateUserWithIdentity, Crash, StatementFails
<1> QED
  BY <1>1, <1>2, <1>3, <1>4, <1>5, <1>6 DEF OutsideStep, InboundStep

LEMMA ContentStep ==
  ASSUME CoreInv, CoreInv', ContentInv, [Next]_vars
  PROVE  ContentInv'
<1> USE DEF setting, people, history
<1>0. /\ msg \in [Messages -> MessageRow] /\ at \in [Attempts -> ChatSteps] /\ cur \in [Attempts -> Messages]
      /\ users \in [Users -> UserStatus] /\ redact \in [Attempts -> BOOLEAN] /\ identity \in Owners
  BY DEF CoreInv, ChatTypeOK, InboundTypeOK
<1>a. ASSUME UNCHANGED <<script, users, consented>>, \A m \in Messages : msg'[m].raw = "kept" => msg[m].raw = "kept",
             \A h \in Attempts : at'[h] = "claim" => at[h] = "claim" /\ UNCHANGED <<redact, cur>>
      PROVE  ContentInv'
  BY <1>a DEF ContentInv, NoContentBeforeConsent
<1>1. ASSUME NEW m \in Messages, Quarantine(m) \/ ClaimExpires(m) \/ ClaimOutlived(m) \/ DeleteExpiredTombstone(m)
      PROVE  ContentInv'
  <2>1. DeleteExpiredTombstone(m) \/ msg' = msg \/ msg' = [msg EXCEPT ![m].leased = FALSE]
    BY <1>1 DEF Quarantine, ClaimExpires, ClaimOutlived
  <2>0. DeleteExpiredTombstone(m) => \A k \in Messages : msg'[k].raw = msg[k].raw
    BY <1>0, TombstoneGoes
  <2>2. \A k \in Messages : msg'[k].raw = msg[k].raw
    BY <1>0, <2>0, <2>1 DEF MessageRow
  <2>3. UNCHANGED <<script, users, consented, at, redact, cur>>
    BY <1>1 DEF Quarantine, ClaimExpires, ClaimOutlived, DeleteExpiredTombstone, local
  <2> QED
    BY <1>a, <2>2, <2>3
<1>2. ASSUME NEW h \in Attempts, OutsideStep(h)
      PROVE  ContentInv'
  <2>1. RowChange(h) /\ Outside(h)
    BY <1>2, RowChanges, OutsideMoves
  <2>3. NoContentBeforeConsent'
    BY <2>1 DEF RowChange, Outside, ContentInv, NoContentBeforeConsent
  <2>4. \A u \in Users : users'[u] \notin {"none", "pending"} => consented'
    <3>1. \A u \in Users : users'[u] \notin {"none", "pending"} => users[u] = users'[u]
      BY <1>0, <1>2, PeopleOutside DEF FirstContact
    <3> QED
      BY <2>1, <3>1 DEF ContentInv, Outside
  <2>5. ASSUME NEW g \in Attempts, at'[g] = "claim", ~redact'[g]
        PROVE  consented' \/ script'[cur'[g]] \in ConsentRelated
    <3>1. CASE g # h
      <4>1. at'[g] = at[g] /\ redact'[g] = redact[g] /\ cur'[g] = cur[g]
        BY <1>0, <2>1, <3>1 DEF Outside, Goto
      <4> QED
        BY <2>1, <2>5, <4>1 DEF ContentInv, Outside
    <3>2. CASE g = h
      <4>1. PICK m \in Messages : Deliver(h, m)
        <5>1. CASE InboundStep(h)
          BY <1>0, <2>5, <3>2, <5>1 DEF InboundStep, ClaimProviderMessage, InsertMessage,
             ReclaimMessage, Absorb, RefuseAltered,
             Return, ResolveUser, CreateUserWithIdentity, SetProviderMessageUser,
             MarkProviderMessage, EndRoute, Goto
        <5>2. CASE Crash(h) \/ AnswerLost(h) \/ StatementFails(h)
          BY <1>0, <2>5, <3>2, <5>2 DEF Crash, AnswerLost, StatementFails, Return, EndRoute, Goto
        <5> QED
          BY <1>2, <5>1, <5>2 DEF OutsideStep
      <4>2. cur'[h] = m /\ redact'[h] = (~allowed \/ MustRedact(m)) /\ UNCHANGED <<script, consented>>
        BY <1>0, <4>1 DEF Deliver
      <4>3. ~MustRedact(m)
        BY <2>5, <3>2, <4>2
      <4>4. CASE script[m] \in ConsentRelated
        BY <3>2, <4>2, <4>4
      <4>5. CASE identity # NoUser /\ users[identity] # "pending"
        <5>1. identity \in Users /\ users[identity] \notin {"none", "pending"}
          BY <1>0, <4>5 DEF CoreInv, UserInv, Owners
        <5> QED
          BY <4>2, <5>1 DEF ContentInv
      <4> QED
        BY <4>3, <4>4, <4>5 DEF MustRedact
    <3> QED
      BY <3>1, <3>2
  <2> QED
    BY <2>3, <2>4, <2>5 DEF ContentInv
<1>3. ASSUME NEW h \in Attempts, Enter(h)
      PROVE  ContentInv'
  <2>2. msg' = msg \/ msg' = [msg EXCEPT ![cur[h]].raw = "redacted"]
    BY <1>3 DEF Enter
  <2>3. \A k \in Messages : msg'[k].raw = "kept" => msg[k].raw = "kept"
    BY <1>0, <2>2 DEF MessageRow
  <2>4. UNCHANGED <<script, users, cur, redact, consented>>
    BY <1>3 DEF Enter, EndRoute
  <2>5. \A g \in Attempts : at'[g] = "claim" => at[g] = "claim"
    <3>1. \E s \in LockedSteps \cup {"mark"} : at' = [at EXCEPT ![h] = s]
      BY <1>3, EnterMoves DEF Enters, PassesBy, Goto, LockedSteps
    <3>2. "claim" \notin LockedSteps \cup {"mark"}
      BY DEF LockedSteps, ActiveSteps, GoingSteps, CardSteps, EditSteps
    <3> QED
      BY <1>0, <3>1, <3>2
  <2> QED
    BY <1>a, <2>3, <2>4, <2>5
<1>4. ASSUME NEW h \in Attempts, Ordinary(h)
      PROVE  ContentInv'
  <2>1. UNCHANGED <<script, users, consented, msg, redact, cur>>
    BY <1>4 DEF Ordinary
  <2>2. \E s \in LockedSteps \cup {"mark"} : at' = [at EXCEPT ![h] = s]
    BY <1>4 DEF Ordinary, GoesOn, EndsRoute, Goto, LockedSteps, GoingSteps
  <2>3. "claim" \notin LockedSteps \cup {"mark"}
    BY DEF LockedSteps, ActiveSteps, GoingSteps, CardSteps, EditSteps
  <2> QED
    BY <1>0, <1>a, <2>1, <2>2, <2>3
<1>5. ASSUME NEW h \in Attempts, SetConsent(h) \/ BeginAccountDeletion(h)
      PROVE  ContentInv'
  <2>1. NewStatus(h) /\ (consented => consented')
    <3>1. CASE SetConsent(h)
      BY <3>1, NewStatusMoves DEF SetConsent
    <3>2. CASE BeginAccountDeletion(h)
      <4>1. UNCHANGED history
        BY <3>2 DEF BeginAccountDeletion
      <4> QED
        BY <3>2, <4>1, NewStatusMoves
    <3> QED
      BY <1>5, <3>1, <3>2
  <2>2. consented'
    <3>1. CASE SetConsent(h)
      BY <3>1 DEF SetConsent
    <3>2. CASE BeginAccountDeletion(h)
      <4>1. at[h] \in ActiveSteps /\ at[h] \in LockedSteps
        BY <3>2 DEF BeginAccountDeletion, ActiveSteps, LockedSteps
      <4>2. who[h] \in Users /\ users[who[h]] = "active"
        BY <4>1 DEF CoreInv, UserInv
      <4> QED
        BY <2>1, <4>2 DEF ContentInv
    <3> QED
      BY <1>5, <3>1, <3>2
  <2> QED
    BY <2>2 DEF ContentInv, NoContentBeforeConsent
<1>6. ASSUME NEW h \in Attempts, Purges(h)
      PROVE  ContentInv'
  <2>1. consented
    <3>1. at[h] \in GoingSteps /\ at[h] \in LockedSteps
      BY <1>6 DEF Purges, GoingSteps, LockedSteps
    <3>2. who[h] \in Users /\ users[who[h]] = "deleting"
      BY <3>1 DEF CoreInv, UserInv
    <3> QED
      BY <3>2 DEF ContentInv
  <2> QED
    BY <1>6, <2>1 DEF Purges, ContentInv, NoContentBeforeConsent
<1>7. CASE WorkerStep \/ (\E u \in Users : PendingExpires(u)) \/ UNCHANGED vars
  <2>1. UNCHANGED <<script, users, consented, msg, redact, cur, at>>
    BY <1>7 DEF WorkerStep, FinalizeReceiptReview, SendReviewCard, PendingExpires, vars,
       inboundVars, local
  <2> QED
    BY <1>a, <2>1
<1> QED
  BY <1>1, <1>2, <1>3, <1>4, <1>5, <1>6, <1>7, StepKinds, OrdinaryMoves, PurgeMoves

(* Before the sender has consented no content is stored except that of the   *)
(* consent dialogue (bot.go HandleEvent, redaction in the claim), whatever   *)
(* the provider repeats and however first contacts and claims interleave.    *)
THEOREM NoContentBeforeConsentSafe == Spec => []NoContentBeforeConsent
<1>1. ChatInit => ContentInv
  <2> SUFFICES ASSUME ChatInit PROVE ContentInv
    OBVIOUS
  <2>1. \A m \in Messages : msg[m].raw = "none"
    BY DEF ChatInit, InboundInit, NoRow
  <2>2. \A u \in Users : users[u] \notin {"none", "pending"} => consented
    BY DEF ChatInit, InboundInit
  <2>3. \A h \in Attempts : at[h] = "idle"
    BY DEF ChatInit, InboundInit
  <2> QED
    BY <2>1, <2>2, <2>3 DEF ContentInv, NoContentBeforeConsent
<1>2. CoreInv /\ CoreInv' /\ ContentInv /\ [Next]_vars => ContentInv'
  BY ContentStep
<1>3. ContentInv => NoContentBeforeConsent
  BY DEF ContentInv
<1> QED
  BY <1>1, <1>2, <1>3, ChatCoreSafe, PTL DEF Spec

-----------------------------------------------------------------------------
(* A deleted account. *)

(* A step under the lock writes what its own user has, and nothing of others; *)
(* the exports are gone before the account is purged.                        *)
Footprint(h) ==
  /\ \A u \in Users : u # who[h] => /\ used'[u] = used[u] /\ rule'[u] = rule[u]
                                    /\ derived'[u] = derived[u] /\ lessons'[u] = lessons[u]
  /\ \A m \in Messages : /\ tx'[m].owner \in {tx[m].owner, who[h]}
                         /\ receipt'[m].owner \in {receipt[m].owner, who[h], NoUser}
  /\ at'[h] = "purge" => "export" \notin derived'[who[h]]

(* Moving a receipt, or giving it a job, leaves its owner alone. *)
LEMMA ReceiptOwners ==
  ASSUME NEW f \in [Messages -> Document], NEW t, NEW s, NEW m \in Messages
  PROVE  /\ [f EXCEPT ![t].status = s][m].owner = f[m].owner
         /\ [f EXCEPT ![t].job = s][m].owner = f[m].owner
<1>1. f[m] \in [status : ReceiptStatus \cup {"none"}, owner : Owners, job : BOOLEAN]
  BY DEF Document, Owners
<1>2. [f[m] EXCEPT !.status = s].owner = f[m].owner /\ [f[m] EXCEPT !.job = s].owner = f[m].owner
  BY <1>1
<1>3. CASE m = t
  BY <1>2, <1>3
<1>4. CASE m # t
  BY <1>4
<1> QED
  BY <1>3, <1>4

LEMMA CardFootprint ==
  ASSUME CoreInv, NEW h \in Attempts, CardStep(h)
  PROVE  Footprint(h)
<1> USE DEF Then, Goto, Silent, inboundRows, records, memory
<1>0. /\ tx \in [Messages -> Entry] /\ receipt \in [Messages -> Document] /\ used \in [Users -> Nat]
      /\ rule \in [Users -> Rule] /\ lessons \in [Users -> Seq(Categories \cup {"none"})]
      /\ derived \in [Users -> SUBSET {"insight", "export"}] /\ at \in [Attempts -> ChatSteps]
  BY DEF CoreInv, ChatTypeOK, InboundTypeOK, RecordsTypeOK, MemoryTypeOK
<1>a. ASSUME UNCHANGED <<used, rule, derived, lessons, receipt>>, at'[h] # "purge",
             \A m \in Messages : tx'[m].owner \in {tx[m].owner, who[h]}
      PROVE  Footprint(h)
  BY <1>a DEF Footprint
<1>b. ASSUME UNCHANGED <<used, rule, derived, lessons, tx>>, at'[h] # "purge",
             \A m \in Messages : receipt'[m].owner \in {receipt[m].owner, who[h], NoUser}
      PROVE  Footprint(h)
  BY <1>b DEF Footprint
<1>1. CASE ConfirmTransaction(h)
  <2> DEFINE t == pending[who[h]].tx
  <2>1. /\ tx' = [tx EXCEPT ![t].status = "confirmed", ![t].ver = @ + 1]
        /\ lessons' = [lessons EXCEPT ![who[h]] = Append(@, tx[t].category)]
        /\ UNCHANGED <<receipt, used, rule, derived>> /\ at' = [at EXCEPT ![h] = "settle"]
    BY <1>1 DEF ConfirmTransaction, Teaches
  <2> HIDE DEF t
  <2>2. \A m \in Messages : tx'[m].owner = tx[m].owner
    BY <1>0, <2>1 DEF Entry
  <2> QED
    BY <1>0, <2>1, <2>2 DEF Footprint
<1>2. CASE SettleReceipt(h) \/ DiscardReceipt(h)
  <2> DEFINE t == pending[who[h]].tx
  <2>1. /\ receipt' = receipt \/ \E s \in {"confirmed", "deleted"} : receipt' = [receipt EXCEPT ![t].status = s]
        /\ UNCHANGED <<tx, used, rule, derived, lessons>>
        /\ \E s \in {"learn", "clear", "softDelete"} : at' = [at EXCEPT ![h] = s]
    BY <1>2 DEF SettleReceipt, DiscardReceipt
  <2> HIDE DEF t
  <2>2. \A m \in Messages : receipt'[m].owner = receipt[m].owner
    <3> DEFINE moved(s) == [receipt EXCEPT ![t].status = s]
    <3>1. \A s : \A m \in Messages : moved(s)[m].owner = receipt[m].owner
      BY <1>0, ReceiptOwners
    <3>2. receipt' = receipt \/ \E s \in {"confirmed", "deleted"} : receipt' = moved(s)
      BY <2>1, Zenon
    <3> HIDE DEF moved
    <3> QED
      BY <3>1, <3>2
  <2> QED
    BY <1>0, <1>b, <2>1, <2>2
<1>3. CASE DiscardTransaction(h)
  <2> DEFINE t == pending[who[h]].tx
  <2>1. /\ tx' = [tx EXCEPT ![t].status = "deleted", ![t].ver = @ + 1]
        /\ UNCHANGED <<receipt, used, rule, derived, lessons>> /\ at' = [at EXCEPT ![h] = "clear"]
    BY <1>3 DEF DiscardTransaction, SoftDelete
  <2> HIDE DEF t
  <2>2. \A m \in Messages : tx'[m].owner = tx[m].owner
    BY <1>0, <2>1 DEF Entry
  <2> QED
    BY <1>0, <1>a, <2>1, <2>2
<1>4. CASE AskEdit(h) \/ RejectEdit(h) \/ ShowAgain(h) \/ ResolveMerchant(h) \/ AddMerchantAlias(h)
  <2>1. /\ UNCHANGED <<tx, receipt, used, rule, derived, lessons>>
        /\ \E s \in {"reply", "draft", "alias"} : at' = [at EXCEPT ![h] = s]
    BY <1>4 DEF AskEdit, RejectEdit, ShowAgain, ResolveMerchant, AddMerchantAlias
  <2> QED
    BY <1>0, <1>a, <2>1
<1>5. CASE ApplyEdit(h)
  <2> DEFINE t == pending[who[h]].tx
  <2>1. PICK c \in {tx[t].category, "other"} : tx' = [tx EXCEPT ![t].ver = @ + 1, ![t].category = c]
    BY <1>5, Zenon DEF ApplyEdit
  <2>2. UNCHANGED <<receipt, used, rule, derived, lessons>> /\ at' = [at EXCEPT ![h] = "showAgain"]
    BY <1>5 DEF ApplyEdit
  <2> HIDE DEF t
  <2>3. \A m \in Messages : tx'[m].owner = tx[m].owner
    BY <1>0, <2>1 DEF Entry
  <2> QED
    BY <1>0, <1>a, <2>2, <2>3
<1>6. CASE CreateManualDraft(h)
  <2>1. /\ tx' = tx \/ tx' = [tx EXCEPT ![cur[h]] = Draft(cur[h], who[h])]
        /\ UNCHANGED <<receipt, used, rule, derived, lessons>> /\ at' = [at EXCEPT ![h] = "reply"]
    BY <1>6 DEF CreateManualDraft
  <2>2. Draft(cur[h], who[h]).owner = who[h]
    BY DEF Draft
  <2>3. \A m \in Messages : tx'[m].owner \in {tx[m].owner, who[h]}
    BY <1>0, <2>1, <2>2
  <2> QED
    BY <1>0, <1>a, <2>1, <2>3
<1>7. CASE Learn(h)
  <2>1. PICK r : rule' = [rule EXCEPT ![who[h]] = r]
    BY <1>7, Zenon DEF Learn, LearnFromConfirmation, UpsertUserMerchantRule
  <2>2. /\ UNCHANGED <<tx, receipt, used, derived, lessons>>
        /\ \E s \in {"reply", "clear"} : at' = [at EXCEPT ![h] = s]
    BY <1>7 DEF Learn
  <2> QED
    BY <1>0, <2>1, <2>2 DEF Footprint
<1>8. CASE RejectEntry(h)
  BY <1>0, <1>8 DEF RejectEntry, Leave, EndRoute, records, memory, Footprint
<1> QED
  BY <1>1, <1>2, <1>3, <1>4, <1>5, <1>6, <1>7, <1>8 DEF CardStep

LEMMA OtherFootprint ==
  ASSUME CoreInv, NEW h \in Attempts, OrdinaryStep(h), ~CardStep(h)
  PROVE  Footprint(h)
<1> USE DEF Then, Goto, Silent, inboundRows, records, memory
<1>0. /\ tx \in [Messages -> Entry] /\ receipt \in [Messages -> Document] /\ used \in [Users -> Nat]
      /\ rule \in [Users -> Rule] /\ lessons \in [Users -> Seq(Categories \cup {"none"})]
      /\ derived \in [Users -> SUBSET {"insight", "export"}] /\ at \in [Attempts -> ChatSteps]
  BY DEF CoreInv, ChatTypeOK, InboundTypeOK, RecordsTypeOK, MemoryTypeOK
<1>a. ASSUME UNCHANGED <<used, rule, derived, lessons, receipt>>, at'[h] # "purge",
             \A m \in Messages : tx'[m].owner \in {tx[m].owner, who[h]}
      PROVE  Footprint(h)
  BY <1>a DEF Footprint
<1>b. ASSUME UNCHANGED <<used, rule, derived, lessons, tx>>, at'[h] # "purge",
             \A m \in Messages : receipt'[m].owner \in {receipt[m].owner, who[h], NoUser}
      PROVE  Footprint(h)
  BY <1>b DEF Footprint
<1>1. CASE RegisterImage(h)
  <2>1. /\ receipt' = receipt
           \/ receipt' = [receipt EXCEPT ![cur[h]] = [status |-> "received", owner |-> who[h], job |-> FALSE]]
        /\ UNCHANGED <<tx, used, rule, derived, lessons>> /\ at'[h] # "purge"
    BY <1>0, <1>1 DEF RegisterImage, AfterRegister
  <2>2. \A m \in Messages : receipt'[m].owner \in {receipt[m].owner, who[h]}
    <3> DEFINE r == [status |-> "received", owner |-> who[h], job |-> FALSE]
    <3>1. r.owner = who[h] /\ (receipt' = receipt \/ receipt' = [receipt EXCEPT ![cur[h]] = r])
      BY <2>1
    <3> HIDE DEF r
    <3> QED
      BY <1>0, <3>1
  <2> QED
    BY <1>b, <2>1, <2>2
<1>2. CASE IncrementUsage(h)
  <2>1. /\ used' = [used EXCEPT ![who[h]] = @ + 1] /\ at'[h] # "purge"
        /\ UNCHANGED <<tx, receipt, rule, derived, lessons>>
    BY <1>0, <1>2 DEF IncrementUsage
  <2> QED
    BY <1>0, <2>1 DEF Footprint
<1>3. CASE RefuseImage(h) \/ QueueImage(h) \/ EnqueueReceiptJob(h) \/ DeleteReceivedReceipt(h)
  <2>1. /\ \/ receipt' = receipt \/ receipt' = [receipt EXCEPT ![cur[h]] = NoReceipt]
           \/ receipt' = [receipt EXCEPT ![cur[h]].job = TRUE]
           \/ \E s \in {"failed_permanent", "queued"} : receipt' = [receipt EXCEPT ![cur[h]].status = s]
        /\ UNCHANGED <<tx, used, rule, derived, lessons>> /\ at'[h] # "purge"
    BY <1>0, <1>3 DEF RefuseImage, QueueImage, TransitionReceipt, EnqueueReceiptJob,
       DeleteReceivedReceipt,
       Leave, EndRoute
  <2>2. NoReceipt.owner = NoUser
    BY DEF NoReceipt
  <2>3. \A m \in Messages : receipt'[m].owner \in {receipt[m].owner, NoUser}
    <3> DEFINE moved(s) == [receipt EXCEPT ![cur[h]].status = s]
               given == [receipt EXCEPT ![cur[h]].job = TRUE]
    <3>1. \A m \in Messages : given[m].owner = receipt[m].owner /\ \A s : moved(s)[m].owner = receipt[m].owner
      BY <1>0, ReceiptOwners
    <3>2. CASE receipt' = receipt \/ receipt' = [receipt EXCEPT ![cur[h]] = NoReceipt]
      BY <1>0, <2>2, <3>2
    <3>3. CASE receipt' = given \/ \E s \in {"failed_permanent", "queued"} : receipt' = moved(s)
      <4> HIDE DEF moved, given
      <4> QED
        BY <3>1, <3>3
    <3> QED
      BY <2>1, <3>2, <3>3, Zenon
  <2> QED
    BY <1>b, <2>1, <2>3
<1>4. CASE \/ AskDeleteRecent(h) \/ DeleteRecentRefused(h) \/ ClearPendingAction(h) \/ Reply(h) \/ AskDelete(h)
           \/ DeletionConfirmation(h)
  <2>1. UNCHANGED <<tx, receipt, used, rule, derived, lessons>>
    BY <1>4 DEF AskDeleteRecent, DeleteRecentRefused, ClearPendingAction, Reply, AskDelete,
       DeletionConfirmation
  <2>2. at'[h] # "purge"
    BY <1>0, <1>4 DEF AskDeleteRecent, DeleteRecentRefused, ClearPendingAction, Reply, AskDelete,
       DeletionConfirmation, Leave, EndRoute
  <2> QED
    BY <1>a, <2>1, <2>2
<1>5. CASE DeleteRecent(h)
  <2> DEFINE t == pending[who[h]].tx
  <2>1. /\ tx' = [tx EXCEPT ![t].status = "deleted", ![t].ver = @ + 1]
        /\ UNCHANGED <<receipt, used, rule, derived, lessons>> /\ at' = [at EXCEPT ![h] = "clear"]
    BY <1>5 DEF DeleteRecent, SoftDelete
  <2> HIDE DEF t
  <2>2. \A m \in Messages : tx'[m].owner = tx[m].owner
    BY <1>0, <2>1 DEF Entry
  <2> QED
    BY <1>0, <1>a, <2>1, <2>2
<1>6. CASE Recategorise(h)
  <2>1. UNCHANGED <<receipt, used, rule, derived>>
    BY <1>6, Zenon DEF Recategorise
  <2>2. CASE Then(h, "reply") /\ UNCHANGED <<tx, lessons, say>>
    BY <1>0, <1>a, <2>1, <2>2
  <2>3. CASE \E t \in Confirmed(who[h]), c \in Categories :
               /\ tx' = [tx EXCEPT ![t].status = "amended", ![t].ver = @ + 1, ![t].category = c]
               /\ Teaches(who[h], c)
               /\ ReplyWith(h, Question("notice", t))
               /\ Then(h, "relearn")
    <3>1. PICK t \in Confirmed(who[h]), c \in Categories :
               /\ tx' = [tx EXCEPT ![t].status = "amended", ![t].ver = @ + 1, ![t].category = c]
               /\ Teaches(who[h], c)
               /\ Then(h, "relearn")
      BY <2>3, Zenon
    <3>2. \A m \in Messages : tx'[m].owner = tx[m].owner
      BY <1>0, <3>1 DEF Entry
    <3>3. lessons' = [lessons EXCEPT ![who[h]] = Append(@, c)]
      BY <3>1 DEF Teaches
    <3> QED
      BY <1>0, <2>1, <3>1, <3>2, <3>3 DEF Footprint
  <2> QED
    BY <1>6, <2>2, <2>3, Zenon DEF Recategorise
<1>7. CASE PersistInsight(h) \/ WriteExport(h)
  <2>1. /\ UNCHANGED <<tx, receipt, used, rule, lessons>> /\ at' = [at EXCEPT ![h] = "reply"]
        /\ \E x \in {"insight", "export"} : derived' = [derived EXCEPT ![who[h]] = @ \cup {x}]
    BY <1>7 DEF PersistInsight, WriteExport, Derives
  <2> QED
    BY <1>0, <2>1 DEF Footprint
<1>8. CASE RemoveExportArtifacts(h)
  <2>1. /\ UNCHANGED <<tx, receipt, used, rule, lessons>>
        /\ derived' = [derived EXCEPT ![who[h]] = @ \ {"export"}]
    BY <1>8 DEF RemoveExportArtifacts
  <2>2. at[h] = "unexport" /\ who[h] \in Users
    BY <1>8 DEF RemoveExportArtifacts, CoreInv, LockInv, LockedSteps, GoingSteps
  <2> QED
    BY <1>0, <2>1, <2>2 DEF Footprint
<1>9. CASE LockedStatementFails(h)
  <2>1. UNCHANGED <<tx, receipt, used, rule, lessons>>
    BY <1>9 DEF LockedStatementFails
  <2>2. derived' = derived \/ derived' = [derived EXCEPT ![who[h]] = @ \cup {"export"}]
    BY <1>9 DEF LockedStatementFails, Derives
  <2>3. at'[h] # "purge"
    BY <1>0, <1>9 DEF LockedStatementFails, EndRoute
  <2> QED
    BY <1>0, <2>1, <2>2, <2>3 DEF Footprint
<1> QED
  BY <1>1, <1>2, <1>3, <1>4, <1>5, <1>6, <1>7, <1>8, <1>9 DEF OrdinaryStep, ImageStep, EntryStep

LEMMA OrdinaryFootprint ==
  ASSUME CoreInv, NEW h \in Attempts, OrdinaryStep(h)
  PROVE  Footprint(h)
BY CardFootprint, OtherFootprint

(* What a step outside the lock does to the row in hand, and to the attempt. *)
Inserts(h) ==
  /\ at[h] = "claim" /\ at'[h] = "resolve" /\ ~Row(cur[h])
  /\ msg'[cur[h]].id = msg[cur[h]].id + 1 /\ pm'[h] = msg'[cur[h]].id
  /\ msg'[cur[h]].status = "received" /\ msg'[cur[h]].leased /\ msg'[cur[h]].owner = NoUser

Reclaims(h) ==
  /\ at[h] = "claim" /\ at'[h] = "resolve" /\ Row(cur[h]) /\ Claimable(cur[h])
  /\ msg'[cur[h]].id = msg[cur[h]].id /\ pm'[h] = msg'[cur[h]].id
  /\ msg'[cur[h]].status = "received" /\ msg'[cur[h]].leased /\ msg'[cur[h]].owner = msg[cur[h]].owner
  /\ msg'[cur[h]].raw \in {msg[cur[h]].raw, "redacted"}

Owns(h) ==
  /\ at[h] = "own" /\ at'[h] = "enter" /\ Mine(h) /\ msg[cur[h]].owner \in {NoUser, who[h]}
  /\ msg'[cur[h]].owner = who[h]
  /\ msg'[cur[h]].id = msg[cur[h]].id /\ msg'[cur[h]].status = msg[cur[h]].status
  /\ msg'[cur[h]].leased = msg[cur[h]].leased /\ msg'[cur[h]].raw = msg[cur[h]].raw
  /\ pm'[h] = pm[h] /\ who'[h] = who[h]

Marks(h) ==
  /\ at[h] = "mark" /\ at'[h] = "idle" /\ Mine(h)
  /\ msg'[cur[h]].status = IF err[h] THEN "failed" ELSE "processed"
  /\ msg'[cur[h]].id = msg[cur[h]].id /\ ~msg'[cur[h]].leased
  /\ msg'[cur[h]].owner = msg[cur[h]].owner /\ msg'[cur[h]].raw = msg[cur[h]].raw

LeavesRow(h) ==
  /\ UNCHANGED msg
  /\ \/ at'[h] = "idle"
     \/ at'[h] = "claim" /\ at[h] = "idle"
     \/ at'[h] = "create" /\ at[h] = "resolve" /\ pm'[h] = pm[h] /\ who'[h] = who[h]
     \/ at'[h] = "own" /\ at[h] \in {"resolve", "create"} /\ pm'[h] = pm[h] /\ who'[h] = identity' /\ identity' # NoUser
     \/ at'[h] = "mark" /\ err'[h] /\ pm'[h] = pm[h] /\ who'[h] = who[h]
        /\ at[h] \in {"resolve", "create", "own", "enter"}

LEMMA OutsideRows ==
  ASSUME CoreInv, NEW h \in Attempts, OutsideStep(h)
  PROVE  /\ Inserts(h) \/ Reclaims(h) \/ Owns(h) \/ Marks(h) \/ LeavesRow(h)
         /\ lapses' = lapses /\ errors' \in {errors, errors + 1} /\ crashes' \in {crashes, crashes + 1}
         /\ at'[h] \notin {"idle", "claim"} => cur'[h] = cur[h]
<1> USE DEF faults, history, people, Goto
<1>0. /\ msg \in [Messages -> MessageRow] /\ cur[h] \in Messages /\ at \in [Attempts -> ChatSteps]
      /\ pm \in [Attempts -> Nat] /\ who \in [Attempts -> Owners] /\ err \in [Attempts -> BOOLEAN]
  BY DEF CoreInv, ChatTypeOK, InboundTypeOK
<1>a. at'[h] \notin {"idle", "claim"} => cur'[h] = cur[h]
  BY OutsideMoves DEF Outside
<1>b. lapses' = lapses /\ errors' \in {errors, errors + 1} /\ crashes' \in {crashes, crashes + 1}
  <2>1. (\E m \in Messages : Deliver(h, m)) => UNCHANGED faults
    BY DEF Deliver
  <2>2. InboundStep(h) => UNCHANGED faults
    BY DEF InboundStep, ClaimProviderMessage, ResolveUser, CreateUserWithIdentity,
       SetProviderMessageUser,
       MarkProviderMessage
  <2>3. Crash(h) \/ AnswerLost(h) \/ StatementFails(h) =>
          lapses' = lapses /\ errors' \in {errors, errors + 1} /\ crashes' \in {crashes, crashes + 1}
    BY DEF Crash, AnswerLost, StatementFails
  <2> QED
    BY <2>1, <2>2, <2>3 DEF OutsideStep
<1> SUFFICES Inserts(h) \/ Reclaims(h) \/ Owns(h) \/ Marks(h) \/ LeavesRow(h)
  BY <1>a, <1>b
<1>1. CASE ClaimProviderMessage(h)
  <2>1. CASE InsertMessage(h)
    BY <1>0, <1>1, <2>1 DEF ClaimProviderMessage, InsertMessage, Inserts
  <2>2. CASE ReclaimMessage(h)
    <3>1. PICK r \in {msg[cur[h]].raw, "redacted"} :
            msg' = [msg EXCEPT ![cur[h]].status = "received", ![cur[h]].leased = TRUE, ![cur[h]].raw = r]
      <4>1. CASE redact[h] /\ allowed
        BY <2>2, <4>1 DEF ReclaimMessage
      <4>2. CASE ~(redact[h] /\ allowed)
        BY <2>2, <4>2 DEF ReclaimMessage
      <4> QED
        BY <4>1, <4>2
    <3>2. /\ msg'[cur[h]].id = msg[cur[h]].id /\ msg'[cur[h]].owner = msg[cur[h]].owner
          /\ msg'[cur[h]].status = "received" /\ msg'[cur[h]].leased /\ msg'[cur[h]].raw = r
      BY <1>0, <3>1 DEF MessageRow
    <3>3. at[h] = "claim" /\ at'[h] = "resolve" /\ Row(cur[h]) /\ Claimable(cur[h]) /\ pm'[h] = msg[cur[h]].id
      BY <1>0, <1>1, <2>2 DEF ClaimProviderMessage, ReclaimMessage
    <3> QED
      BY <3>1, <3>2, <3>3 DEF Reclaims
  <2>3. CASE Absorb(h) \/ RefuseAltered(h)
    BY <1>0, <2>3 DEF Absorb, RefuseAltered, Return, LeavesRow
  <2> QED
    BY <1>1, <2>1, <2>2, <2>3 DEF ClaimProviderMessage
<1>2. CASE ResolveUser(h) \/ CreateUserWithIdentity(h)
  <2>1. UNCHANGED msg /\ at[h] \in {"resolve", "create"} /\ pm'[h] = pm[h]
    BY <1>2 DEF ResolveUser, CreateUserWithIdentity
  <2>2. CASE ResolveUser(h)
    BY <1>0, <2>1, <2>2 DEF ResolveUser, LeavesRow
  <2>3. CASE CreateUserWithIdentity(h)
    <3>1. identity' # NoUser /\ who'[h] = identity' /\ at'[h] = "own"
      <4>1. CASE identity # NoUser
        BY <1>0, <2>3, <4>1 DEF CreateUserWithIdentity
      <4>2. CASE identity = NoUser
        <5>1. PICK u \in Users : users[u] = "none"
          BY <2>3, <4>2 DEF CreateUserWithIdentity
        <5>2. NewUser \in Users
          BY <5>1, FirstFree DEF CoreInv
        <5> QED
          BY <1>0, <2>3, <4>2, <5>2 DEF CreateUserWithIdentity, Users, NoUser
      <4> QED
        BY <4>1, <4>2
    <3> QED
      BY <2>1, <2>3, <3>1 DEF LeavesRow
  <2> QED
    BY <1>2, <2>2, <2>3
<1>3. CASE SetProviderMessageUser(h)
  <2>1. CASE Mine(h) /\ msg[cur[h]].owner \in {NoUser, who[h]}
    <3>1. /\ msg' = [msg EXCEPT ![cur[h]].owner = who[h]] /\ at[h] = "own" /\ at'[h] = "enter"
          /\ pm'[h] = pm[h] /\ who'[h] = who[h]
      BY <1>0, <1>3, <2>1 DEF SetProviderMessageUser
    <3> QED
      BY <1>0, <2>1, <3>1 DEF Owns, MessageRow
  <2>2. CASE ~(Mine(h) /\ msg[cur[h]].owner \in {NoUser, who[h]})
    BY <1>0, <1>3, <2>2 DEF SetProviderMessageUser, EndRoute, LeavesRow
  <2> QED
    BY <2>1, <2>2
<1>4. CASE MarkProviderMessage(h)
  <2>1. CASE Mine(h)
    <3> DEFINE s == IF err[h] THEN "failed" ELSE "processed"
    <3>1. /\ msg' = [msg EXCEPT ![cur[h]].status = s, ![cur[h]].leased = FALSE]
          /\ at[h] = "mark" /\ at'[h] = "idle"
      BY <1>0, <1>4, <2>1 DEF MarkProviderMessage, Return
    <3>2. s \in {"failed", "processed"}
      OBVIOUS
    <3>3. msg'[cur[h]].status = s
      <4> HIDE DEF s
      <4> QED
        BY <1>0, <3>1 DEF MessageRow
    <3>4. /\ msg'[cur[h]].id = msg[cur[h]].id /\ ~msg'[cur[h]].leased
          /\ msg'[cur[h]].owner = msg[cur[h]].owner /\ msg'[cur[h]].raw = msg[cur[h]].raw
      <4> HIDE DEF s
      <4> QED
        BY <1>0, <3>1 DEF MessageRow
    <3> QED
      BY <2>1, <3>1, <3>3, <3>4 DEF Marks
  <2>2. CASE ~Mine(h)
    BY <1>0, <1>4, <2>2 DEF MarkProviderMessage, Return, LeavesRow
  <2> QED
    BY <2>1, <2>2
<1>5. CASE Crash(h)
  BY <1>0, <1>5 DEF Crash, LeavesRow
<1>6. CASE AnswerLost(h)
  <2>1. /\ msg' = [msg EXCEPT ![cur[h]].status = "processed", ![cur[h]].leased = FALSE]
        /\ at[h] = "mark" /\ at'[h] = "idle" /\ Mine(h) /\ ~err[h]
    BY <1>0, <1>6 DEF AnswerLost, Return
  <2> QED
    BY <1>0, <2>1 DEF Marks, MessageRow
<1>7. CASE StatementFails(h)
  <2>1. UNCHANGED <<msg, users, identity>> /\ at[h] \in {"claim", "resolve", "create", "own", "enter", "mark"}
    BY <1>7 DEF StatementFails
  <2>2. CASE at[h] \in {"claim", "mark"}
    BY <1>0, <1>7, <2>1, <2>2 DEF StatementFails, Return, LeavesRow
  <2>3. CASE at[h] \notin {"claim", "mark"}
    BY <1>0, <1>7, <2>1, <2>3 DEF StatementFails, EndRoute, LeavesRow
  <2> QED
    BY <2>2, <2>3
<1>8. ASSUME NEW m \in Messages, Deliver(h, m)
      PROVE  LeavesRow(h)
  BY <1>0, <1>8 DEF Deliver, LeavesRow
<1> QED
  BY <1>1, <1>2, <1>3, <1>4, <1>5, <1>6, <1>7, <1>8 DEF OutsideStep, InboundStep

(* What the purge of an account does to the message rows. *)
LEMMA PurgedRows ==
  ASSUME CoreInv, NEW h \in Attempts, Purges(h)
  PROVE  /\ \A m \in Messages : msg'[m].id = msg[m].id
         /\ msg'[cur[h]].status = "processed" /\ msg'[cur[h]].owner = NoUser /\ msg'[cur[h]].raw = "none"
         /\ \A m \in Messages : m # cur[h] =>
              \/ msg'[m].status = "none" /\ msg'[m].owner = NoUser /\ msg'[m].raw = "none" /\ Purged(m, h)
              \/ msg'[m] = msg[m] /\ msg[m].raw # "kept" /\ msg[m].owner # who[h]
<1>0. msg \in [Messages -> MessageRow] /\ cur[h] \in Messages
  BY DEF CoreInv, ChatTypeOK, InboundTypeOK
<1>1. msg' = [m \in Messages |-> CASE m = cur[h] -> Tombstone(msg[m])
                                   [] Purged(m, h) -> [NoRow EXCEPT !.id = msg[m].id]
                                   [] OTHER -> msg[m]]
  BY Zenon DEF Purges
<1>2. msg'[cur[h]] = Tombstone(msg[cur[h]])
  BY <1>0, <1>1 DEF Purged
<1>3. /\ msg'[cur[h]].status = "processed" /\ msg'[cur[h]].owner = NoUser /\ msg'[cur[h]].raw = "none"
      /\ msg'[cur[h]].id = msg[cur[h]].id
  BY <1>0, <1>2 DEF Tombstone, MessageRow
<1>4. ASSUME NEW m \in Messages, m # cur[h]
      PROVE  /\ msg'[m].id = msg[m].id
             /\ \/ msg'[m].status = "none" /\ msg'[m].owner = NoUser /\ msg'[m].raw = "none" /\ Purged(m, h)
                \/ msg'[m] = msg[m] /\ msg[m].raw # "kept" /\ msg[m].owner # who[h]
  <2>1. CASE Purged(m, h)
    <3>1. msg'[m] = [NoRow EXCEPT !.id = msg[m].id]
      BY <1>1, <1>4, <2>1
    <3> QED
      BY <2>1, <3>1 DEF NoRow
  <2>2. CASE ~Purged(m, h)
    <3>1. msg'[m] = msg[m]
      BY <1>1, <1>4, <2>2
    <3> QED
      BY <1>4, <2>2, <3>1 DEF Purged
  <2> QED
    BY <2>1, <2>2
<1> QED
  BY <1>3, <1>4

(* A deleted user has nothing; an attempt that resolved the user before the  *)
(* deletion holds no content it could still put under the user's name; and   *)
(* the files are gone before the rows.                                       *)
ErasedInv ==
  /\ ErasedUserHasNothing
  /\ \A h \in Attempts : at[h] = "own" /\ Mine(h) /\ users[who[h]] = "deleted" => msg[cur[h]].raw # "kept"
  /\ \A h \in Attempts : at[h] = "purge" => "export" \notin derived[who[h]]

LEMMA ErasedOutside ==
  ASSUME CoreInv, ErasedInv, NEW h \in Attempts, OutsideStep(h), UNCHANGED chatVars
  PROVE  ErasedInv'
<1> USE DEF chatVars, records, memory
<1>0. /\ msg \in [Messages -> MessageRow] /\ at \in [Attempts -> ChatSteps] /\ cur \in [Attempts -> Messages]
      /\ users \in [Users -> UserStatus] /\ who \in [Attempts -> Owners] /\ pm \in [Attempts -> Nat]
  BY DEF CoreInv, ChatTypeOK, InboundTypeOK
<1>1. Outside(h) /\ (UNCHANGED people \/ FirstContact(h))
  BY OutsideMoves, PeopleOutside
<1>2. \A u \in Users : users'[u] = "deleted" <=> users[u] = "deleted"
  BY <1>0, <1>1 DEF people, FirstContact
<1>3. \A g \in Attempts : g # h => at'[g] = at[g] /\ cur'[g] = cur[g] /\ pm'[g] = pm[g] /\ who'[g] = who[g]
  BY <1>0, <1>1 DEF Outside, Goto
<1>4. \A m \in Messages : m # cur[h] => msg'[m] = msg[m]
  BY <1>1 DEF Outside
<1>5. \A g \in Attempts : at[g] = "own" => pm[g] <= msg[cur[g]].id /\ who[g] \in Users
  BY DEF CoreInv, HandInv, UserInv
<1>6. \A g \in Attempts : at'[g] = "purge" => at[g] = "purge" /\ who'[g] = who[g]
  <2>1. at'[h] # "purge"
    BY <1>0, <1>1 DEF Outside, Goto, OpenSteps
  <2> QED
    BY <1>3, <2>1
<1>7. at'[h] = "own" => users'[who'[h]] # "deleted"
  <2>1. CASE at'[h] = "own"
    <3>1. who'[h] = identity' /\ identity' # NoUser
      BY <2>1, OutsideRows DEF Inserts, Reclaims, Owns, Marks, LeavesRow
    <3>2. CASE UNCHANGED people
      BY <1>0, <3>1, <3>2 DEF people, CoreInv, UserInv, ChatTypeOK, InboundTypeOK, Owners
    <3>3. CASE FirstContact(h)
      BY <1>0, <3>3 DEF FirstContact
    <3> QED
      BY <1>1, <3>2, <3>3
  <2> QED
    BY <2>1
<1>8. ASSUME NEW m \in Messages, NEW u \in Users, users[u] = "deleted", msg'[m].owner = u
      PROVE  msg'[m].raw # "kept"
  <2>1. msg[m].owner = u => msg[m].raw # "kept"
    BY <1>8 DEF ErasedInv, ErasedUserHasNothing
  <2>2. u # NoUser
    BY DEF Users, NoUser
  <2>3. CASE m # cur[h] \/ LeavesRow(h)
    BY <1>4, <1>8, <2>1, <2>3 DEF LeavesRow
  <2>4. CASE m = cur[h] /\ (Inserts(h) \/ Reclaims(h) \/ Marks(h))
    BY <1>8, <2>1, <2>2, <2>4 DEF Inserts, Reclaims, Marks
  <2>5. CASE m = cur[h] /\ Owns(h)
    BY <1>8, <2>5 DEF Owns, ErasedInv
  <2> QED
    BY <2>3, <2>4, <2>5, OutsideRows
<1>9. ASSUME NEW g \in Attempts, at'[g] = "own", Mine(g)', users'[who'[g]] = "deleted"
      PROVE  msg'[cur'[g]].raw # "kept"
  <2>1. g # h /\ at[g] = "own" /\ who[g] \in Users /\ users[who[g]] = "deleted" /\ cur'[g] = cur[g] /\ pm'[g] = pm[g]
    BY <1>2, <1>3, <1>5, <1>7, <1>9
  <2>2. msg'[cur[g]].id = pm[g] /\ pm[g] <= msg[cur[g]].id /\ msg'[cur[g]].status # "none"
    BY <1>5, <1>9, <2>1 DEF Mine, Row
  <2>3. CASE cur[g] # cur[h] \/ LeavesRow(h)
    BY <1>0, <1>4, <2>1, <2>2, <2>3 DEF Mine, Row, LeavesRow, ErasedInv
  <2>4. CASE cur[g] = cur[h] /\ Inserts(h)
    BY <1>0, <2>2, <2>4 DEF Inserts, MessageRow
  <2>5. CASE cur[g] = cur[h] /\ (Reclaims(h) \/ Owns(h) \/ Marks(h))
    <3>1. Row(cur[h]) /\ msg'[cur[h]].id = msg[cur[h]].id /\ (msg'[cur[h]].raw = "kept" => msg[cur[h]].raw = "kept")
      BY <2>5 DEF Reclaims, Owns, Marks, Mine
    <3> QED
      BY <2>1, <2>2, <2>5, <3>1 DEF Mine, ErasedInv
  <2> QED
    BY <2>3, <2>4, <2>5, OutsideRows
<1> QED
  BY <1>2, <1>6, <1>8, <1>9 DEF ErasedInv, ErasedUserHasNothing

LEMMA ErasedStep ==
  ASSUME CoreInv, CoreInv', ErasedInv, [Next]_vars
  PROVE  ErasedInv'
<1> USE DEF people, records, memory
<1>0. /\ msg \in [Messages -> MessageRow] /\ at \in [Attempts -> ChatSteps] /\ cur \in [Attempts -> Messages]
      /\ users \in [Users -> UserStatus] /\ who \in [Attempts -> Owners] /\ pm \in [Attempts -> Nat]
      /\ pending \in [Users -> PendingRow] /\ tx \in [Messages -> Entry] /\ receipt \in [Messages -> Document]
      /\ used \in [Users -> Nat] /\ derived \in [Users -> SUBSET {"insight", "export"}] /\ rule \in [Users -> Rule]
  BY DEF CoreInv, ChatTypeOK, InboundTypeOK, RecordsTypeOK, MemoryTypeOK
<1>a. ASSUME UNCHANGED <<cur, pm, who>>,
             \A m \in Messages : /\ msg'[m].id = msg[m].id /\ msg'[m].owner = msg[m].owner
                                 /\ msg'[m].status = msg[m].status /\ msg'[m].raw \in {msg[m].raw, "redacted"},
             \A g \in Attempts : at'[g] = "own" => at[g] = "own", \A u \in Users : users'[u] = "deleted" => users[u] = "deleted"
      PROVE  /\ \A g \in Attempts : at'[g] = "own" /\ Mine(g)' /\ users'[who'[g]] = "deleted"
                                    => msg'[cur'[g]].raw # "kept"
             /\ \A m \in Messages : \A u \in Users : users'[u] = "deleted" /\ msg'[m].owner = u => msg'[m].raw # "kept"
  <2>1. \A g \in Attempts : at[g] = "own" => who[g] \in Users
    BY DEF CoreInv, UserInv
  <2>2. ASSUME NEW g \in Attempts, at'[g] = "own", Mine(g)', users'[who'[g]] = "deleted"
        PROVE  msg'[cur'[g]].raw # "kept"
    <3>1. at[g] = "own" /\ users[who[g]] = "deleted" /\ cur'[g] = cur[g] /\ pm'[g] = pm[g] /\ cur[g] \in Messages
      BY <1>0, <1>a, <2>1, <2>2
    <3>2. Mine(g)
      BY <1>a, <2>2, <3>1 DEF Mine, Row
    <3>3. msg[cur[g]].raw # "kept" /\ msg'[cur[g]].raw \in {msg[cur[g]].raw, "redacted"}
      BY <1>a, <3>1, <3>2 DEF ErasedInv
    <3> QED
      BY <3>1, <3>3
  <2>3. ASSUME NEW m \in Messages, NEW u \in Users, users'[u] = "deleted", msg'[m].owner = u
        PROVE  msg'[m].raw # "kept"
    <3>1. users[u] = "deleted" /\ msg[m].owner = u /\ msg'[m].raw \in {msg[m].raw, "redacted"}
      BY <1>a, <2>3
    <3> QED
      BY <3>1 DEF ErasedInv, ErasedUserHasNothing
  <2> QED
    BY <2>2, <2>3
<1>1. ASSUME NEW m \in Messages, Quarantine(m) \/ ClaimExpires(m) \/ ClaimOutlived(m) \/ DeleteExpiredTombstone(m), UNCHANGED chatVars
      PROVE  ErasedInv'
  <2>1. UNCHANGED <<users, at, cur, pm, who>> /\ UNCHANGED <<records, memory>>
    BY <1>1 DEF Quarantine, ClaimExpires, ClaimOutlived, DeleteExpiredTombstone, local, chatVars, people
  <2>2. CASE DeleteExpiredTombstone(m)
    <3>1. /\ \A k \in Messages : msg'[k].raw = msg[k].raw /\ (k # m => msg'[k] = msg[k])
          /\ msg[m].raw = "none"
      BY <1>0, <2>2, TombstoneGoes
    <3>2. \A g \in Attempts : cur[g] # m => (Mine(g)' <=> Mine(g))
      BY <1>0, <2>1, <3>1 DEF Mine, Row
    <3>3. \A k \in Messages : msg'[k].raw = "kept" => msg'[k] = msg[k]
      BY <3>1
    <3> QED
      BY <1>0, <2>1, <3>1, <3>2, <3>3 DEF ErasedInv, ErasedUserHasNothing
  <2>3. CASE ~DeleteExpiredTombstone(m)
    <3>1. msg' = msg \/ msg' = [msg EXCEPT ![m].leased = FALSE]
      BY <1>1, <2>3 DEF Quarantine, ClaimExpires, ClaimOutlived
    <3>2. \A k \in Messages : /\ msg'[k].id = msg[k].id /\ msg'[k].owner = msg[k].owner
                              /\ msg'[k].status = msg[k].status /\ msg'[k].raw = msg[k].raw
      BY <1>0, <3>1 DEF MessageRow
    <3> QED
      BY <1>a, <2>1, <3>2 DEF ErasedInv, ErasedUserHasNothing
  <2> QED
    BY <2>2, <2>3
<1>2. ASSUME NEW h \in Attempts, OutsideStep(h), UNCHANGED chatVars
      PROVE  ErasedInv'
  BY <1>2, ErasedOutside
<1>3. ASSUME NEW h \in Attempts, Enter(h)
      PROVE  ErasedInv'
  <2>1. /\ Enters(h) \/ PassesBy(h)
        /\ UNCHANGED <<users, cur, pm, who, tx, receipt, used, memory>> /\ who[h] \in Users
    BY <1>3, EnterMoves
  <2>2. msg' = msg \/ msg' = [msg EXCEPT ![cur[h]].raw = "redacted"]
    BY <1>3 DEF Enter
  <2>3. \A k \in Messages : /\ msg'[k].id = msg[k].id /\ msg'[k].owner = msg[k].owner
                            /\ msg'[k].status = msg[k].status /\ msg'[k].raw \in {msg[k].raw, "redacted"}
    BY <1>0, <2>2 DEF MessageRow
  <2>4. \E s \in ActiveSteps \cup {"consent", "reply", "mark"} : at' = [at EXCEPT ![h] = s]
    BY <2>1 DEF Enters, PassesBy, Goto
  <2>5. {"own", "purge"} \cap (ActiveSteps \cup {"consent", "reply", "mark"}) = {}
    BY DEF ActiveSteps, CardSteps, EditSteps
  <2>6. \A g \in Attempts : at'[g] \in {"own", "purge"} => at[g] = at'[g]
    BY <1>0, <2>4, <2>5
  <2>7. \A u \in Users : users[u] = "deleted" => pending'[u] = pending[u]
    BY <1>0, <2>1 DEF Enters, PassesBy
  <2> QED
    BY <1>a, <2>1, <2>3, <2>6, <2>7 DEF ErasedInv, ErasedUserHasNothing
<1>4. ASSUME NEW h \in Attempts, OrdinaryStep(h)
      PROVE  ErasedInv'
  <2>1. Ordinary(h) /\ Footprint(h)
    BY <1>4, OrdinaryMoves, OrdinaryFootprint
  <2>2. UNCHANGED <<users, cur, pm, who, msg>> /\ at[h] \in LockedSteps
    BY <2>1 DEF Ordinary, GoesOn, EndsRoute, LockedSteps, GoingSteps
  <2>3. \E s \in LockedSteps \cup {"mark"} : at' = [at EXCEPT ![h] = s]
    BY <2>1 DEF Ordinary, GoesOn, EndsRoute, Goto, LockedSteps, GoingSteps
  <2>4. "own" \notin LockedSteps \cup {"mark"}
    BY DEF LockedSteps, ActiveSteps, GoingSteps, CardSteps, EditSteps
  <2>5. \A g \in Attempts : at'[g] = "own" => at[g] = "own"
    BY <1>0, <2>3, <2>4
  <2>6. \A g \in Attempts : g # h => at'[g] = at[g]
    BY <1>0, <2>3
  <2>7. CASE at[h] = "farewell"
    <3>1. UNCHANGED <<records, memory>>
      BY <2>1, <2>7 DEF Ordinary
    <3>2. at'[h] # "purge"
      <4>1. EndsRoute(h)
        BY <2>1, <2>7 DEF Ordinary, GoesOn, ActiveSteps, CardSteps, EditSteps
      <4> QED
        BY <1>0, <4>1 DEF EndsRoute
    <3> QED
      BY <1>a, <2>2, <2>5, <2>6, <3>1, <3>2 DEF ErasedInv, ErasedUserHasNothing
  <2>8. CASE at[h] # "farewell"
    <3>1. /\ who[h] \in Users /\ users[who[h]] # "deleted"
          /\ \A g \in Attempts : g # h => at[g] \notin LockedSteps \/ at[g] = "farewell"
      BY <2>2, <2>8, LoneHolder
    <3>2. \A g \in Attempts : at'[g] = "purge" => g = h
      BY <2>6, <3>1 DEF LockedSteps, GoingSteps
    <3>3. \A u \in Users : users[u] = "deleted" => /\ pending'[u] = pending[u] /\ used'[u] = used[u]
                                                  /\ rule'[u] = rule[u] /\ derived'[u] = derived[u]
      BY <2>1, <3>1 DEF Footprint, Ordinary, OwnRowsOnly
    <3>4. \A u \in Users : \A m \in Messages :
            users[u] = "deleted" /\ tx[m].owner # u /\ receipt[m].owner # u => tx'[m].owner # u /\ receipt'[m].owner # u
      BY <2>1, <3>1 DEF Footprint, Users, NoUser
    <3>5. \A g \in Attempts : at'[g] = "purge" => "export" \notin derived'[who'[g]]
      BY <2>1, <2>2, <3>2 DEF Footprint
    <3> QED
      BY <1>a, <2>2, <2>5, <3>3, <3>4, <3>5 DEF ErasedInv, ErasedUserHasNothing
  <2> QED
    BY <2>7, <2>8
<1>5. ASSUME NEW h \in Attempts, SetConsent(h) \/ BeginAccountDeletion(h)
      PROVE  ErasedInv'
  <2>1. NewStatus(h)
    BY <1>5, NewStatusMoves
  <2>2. UNCHANGED <<cur, pm, who, msg>> /\ UNCHANGED <<records, memory>>
    BY <2>1 DEF NewStatus, local
  <2>3. \A g \in Attempts : at'[g] \in {"own", "purge"} => at[g] = at'[g]
    BY <1>0, <2>1 DEF NewStatus, Goto
  <2>4. \A u \in Users : users'[u] = "deleted" => users[u] = "deleted"
    BY <1>0, <2>1 DEF NewStatus
  <2> QED
    BY <1>a, <2>2, <2>3, <2>4 DEF ErasedInv, ErasedUserHasNothing
<1>6. ASSUME NEW h \in Attempts, Purges(h)
      PROVE  ErasedInv'
  <2>1. /\ \A m \in Messages : msg'[m].raw # "kept"
    BY <1>0, <1>6, PurgedRows
  <2>2. /\ at[h] = "purge" /\ at' = [at EXCEPT ![h] = "farewell"] /\ UNCHANGED <<cur, pm, who>>
        /\ EraseRecords(who[h])
        /\ users' = [users EXCEPT ![who[h]] = "deleted"]
    BY <1>6 DEF Purges, Goto, local
  <2>3. /\ rule' = [rule EXCEPT ![who[h]] = NoRule]
        /\ derived' = [derived EXCEPT ![who[h]] = @ \ {"insight"}]
    BY <1>6, Zenon DEF Purges, ForgetUser
  <2>4. /\ who[h] \in Users /\ \A g \in Attempts : g # h => at[g] \notin LockedSteps \/ at[g] = "farewell"
    BY <2>2, LoneHolder DEF LockedSteps, GoingSteps
  <2>5. \A g \in Attempts : at'[g] # "purge"
    BY <1>0, <2>2, <2>4 DEF LockedSteps, GoingSteps
  <2>6. /\ pending'[who[h]] = NoPending /\ used'[who[h]] = 0 /\ rule'[who[h]] = NoRule /\ derived'[who[h]] = {}
        /\ \A u \in Users : u # who[h] => /\ pending'[u] = pending[u] /\ used'[u] = used[u] /\ rule'[u] = rule[u]
                                          /\ derived'[u] = derived[u] /\ users'[u] = users[u]
    <3>1. pending'[who[h]] = NoPending /\ used'[who[h]] = 0 /\ rule'[who[h]] = NoRule
      BY <1>0, <2>2, <2>3, <2>4 DEF EraseRecords
    <3>2. derived'[who[h]] = {}
      <4>1. "export" \notin derived[who[h]] /\ derived[who[h]] \subseteq {"insight", "export"}
        BY <1>0, <2>2, <2>4 DEF ErasedInv
      <4> QED
        BY <1>0, <2>3, <2>4, <4>1
    <3> QED
      BY <1>0, <2>2, <2>3, <2>4, <3>1, <3>2 DEF EraseRecords
  <2>7. \A m \in Messages : /\ tx'[m].owner \in {tx[m].owner, NoUser} /\ tx'[m].owner # who[h]
                            /\ receipt'[m].owner \in {receipt[m].owner, NoUser} /\ receipt'[m].owner # who[h]
    <3>0. who[h] # NoUser /\ NoReceipt.owner = NoUser
      BY <2>4 DEF Users, NoUser, NoReceipt
    <3>1. \A m \in Messages : [NoTx EXCEPT !.ver = tx[m].ver].owner = NoUser
      BY DEF NoTx
    <3>2. ASSUME NEW m \in Messages
          PROVE  /\ tx'[m] = IF tx[m].owner = who[h] THEN [NoTx EXCEPT !.ver = tx[m].ver] ELSE tx[m]
                 /\ receipt'[m] = IF receipt[m].owner = who[h] THEN NoReceipt ELSE receipt[m]
      BY <2>2 DEF EraseRecords
    <3>3. ASSUME NEW m \in Messages
          PROVE  tx'[m].owner \in {tx[m].owner, NoUser} /\ tx'[m].owner # who[h]
      BY <3>0, <3>1, <3>2
    <3>4. ASSUME NEW m \in Messages
          PROVE  receipt'[m].owner \in {receipt[m].owner, NoUser} /\ receipt'[m].owner # who[h]
      BY <3>0, <3>2
    <3> QED
      BY <3>3, <3>4
  <2>8. ErasedUserHasNothing'
    <3>1. ASSUME NEW u \in Users, users'[u] = "deleted"
          PROVE  /\ pending'[u] = NoPending /\ used'[u] = 0 /\ rule'[u] = NoRule /\ derived'[u] = {}
                 /\ \A m \in Messages : tx'[m].owner # u /\ receipt'[m].owner # u
      <4>1. CASE u = who[h]
        BY <2>6, <2>7, <4>1
      <4>2. CASE u # who[h]
        <5>1. users[u] = "deleted" /\ u # NoUser
          BY <2>6, <3>1, <4>2 DEF Users, NoUser
        <5> QED
          BY <2>6, <2>7, <4>2, <5>1 DEF ErasedInv, ErasedUserHasNothing
      <4> QED
        BY <4>1, <4>2
    <3> QED
      BY <2>1, <3>1 DEF ErasedUserHasNothing
  <2> QED
    BY <1>0, <2>1, <2>2, <2>5, <2>8 DEF ErasedInv
<1>7. ASSUME NEW h \in Attempts, Ordinary(h), EndsRoute(h), UNCHANGED chatVars
      PROVE  ErasedInv'
  <2>1. UNCHANGED <<users, cur, pm, who, msg>> /\ UNCHANGED <<records, memory>>
    BY <1>7 DEF Ordinary, chatVars
  <2>2. \A g \in Attempts : at'[g] \in {"own", "purge"} => at[g] = at'[g]
    BY <1>0, <1>7 DEF EndsRoute
  <2> QED
    BY <1>a, <2>1, <2>2 DEF ErasedInv, ErasedUserHasNothing
<1>8. ASSUME NEW u \in Users, PendingExpires(u)
      PROVE  ErasedInv'
  <2>1. UNCHANGED <<users, cur, pm, who, msg, at, tx, receipt, used, memory>>
    BY <1>8 DEF PendingExpires, inboundVars, local
  <2>2. \A v \in Users : pending'[v] # pending[v] => pending[v].kind # "none"
    BY <1>0, <1>8 DEF PendingExpires
  <2>3. \A v \in Users : pending[v] = NoPending => pending'[v] = NoPending
    BY <2>2 DEF NoPending
  <2> QED
    BY <1>a, <2>1, <2>3 DEF ErasedInv, ErasedUserHasNothing
<1>9. ASSUME NEW m \in Messages, FinalizeReceiptReview(m)
      PROVE  ErasedInv'
  <2> DEFINE u == receipt[m].owner
  <2>1. u \in Users
    BY <1>0, <1>9 DEF FinalizeReceiptReview, Reviewable, Document
  <2>2. /\ users[u] # "deleted"
        /\ receipt' = [receipt EXCEPT ![m].status = "review", ![m].job = FALSE]
        /\ tx' = [tx EXCEPT ![m] = Draft(m, u)]
        /\ OpenQuestion(u, "card", m)
        /\ UNCHANGED <<rule, derived, used, msg, users, at, cur, pm, who>>
    BY <1>9 DEF FinalizeReceiptReview, Reviewable, ReviewOf, local
  <2> HIDE DEF u
  <2>3. \A k \in Messages : receipt'[k].owner = receipt[k].owner
    <3> DEFINE moved == [receipt EXCEPT ![m].status = "review"]
    <3>1. moved \in [Messages -> Document]
      <4>1. receipt[m].status # "none"
        BY <1>9 DEF FinalizeReceiptReview, Reviewable
      <4> QED
        BY <1>0, <4>1, MovedReceipt DEF ReceiptStatus
    <3>2. receipt' = [moved EXCEPT ![m].job = FALSE]
      BY <2>2
    <3>3. \A k \in Messages : moved[k].owner = receipt[k].owner
      BY <1>0, ReceiptOwners
    <3> HIDE DEF moved
    <3>4. \A k \in Messages : [moved EXCEPT ![m].job = FALSE][k].owner = moved[k].owner
      BY <3>1, ReceiptOwners
    <3> QED
      BY <3>2, <3>3, <3>4
  <2>4. \A k \in Messages : tx'[k].owner \in {tx[k].owner, u}
    <3>1. Draft(m, u).owner = u
      BY DEF Draft
    <3> QED
      BY <1>0, <2>2, <3>1
  <2>5. \A v \in Users : v # u => pending'[v] = pending[v]
    BY <1>0, <2>2 DEF OpenQuestion
  <2>6. \A v \in Users : users[v] = "deleted" => v # u
    BY <2>2
  <2>7. ErasedUserHasNothing'
    <3>1. \A k \in Messages : \A v \in Users : users'[v] = "deleted" /\ msg'[k].owner = v => msg'[k].raw # "kept"
      BY <2>2 DEF ErasedInv, ErasedUserHasNothing
    <3>2. ASSUME NEW v \in Users, users'[v] = "deleted"
          PROVE  /\ pending'[v] = NoPending /\ used'[v] = 0 /\ rule'[v] = NoRule /\ derived'[v] = {}
                 /\ \A k \in Messages : tx'[k].owner # v /\ receipt'[k].owner # v
      <4>1. users[v] = "deleted" /\ v # u
        BY <2>2, <2>6, <3>2
      <4>2. /\ pending[v] = NoPending /\ used[v] = 0 /\ rule[v] = NoRule /\ derived[v] = {}
            /\ \A k \in Messages : tx[k].owner # v /\ receipt[k].owner # v
        BY <4>1 DEF ErasedInv, ErasedUserHasNothing
      <4>3. \A k \in Messages : tx'[k].owner # v /\ receipt'[k].owner # v
        BY <2>3, <2>4, <4>1, <4>2
      <4> QED
        BY <2>2, <2>5, <4>1, <4>2, <4>3
    <3> QED
      BY <3>1, <3>2 DEF ErasedUserHasNothing
  <2> QED
    BY <2>2, <2>7 DEF ErasedInv, Mine, Row
<1>10. CASE SendReviewCard \/ UNCHANGED vars
  <2>1. UNCHANGED <<users, cur, pm, who, msg, at>> /\ UNCHANGED <<records, memory>>
    BY <1>10 DEF SendReviewCard, vars, inboundVars, chatVars, local
  <2> QED
    BY <1>a, <2>1 DEF ErasedInv, ErasedUserHasNothing
<1> QED
  BY <1>1, <1>2, <1>3, <1>4, <1>5, <1>6, <1>7, <1>8, <1>9, <1>10, StepKinds,
     PurgeMoves DEF WorkerStep

(* Once an account is deleted, no late attempt, worker or retry leaves rows, *)
(* files or content of that user behind (PurgeAccountData and the check      *)
(* under the lock in route), whatever crashes, lapses or fails.              *)
THEOREM ErasedUserHasNothingSafe == Spec => []ErasedUserHasNothing
<1>1. ChatInit => ErasedInv
  <2> SUFFICES ASSUME ChatInit PROVE ErasedInv
    OBVIOUS
  <2>1. \A u \in Users : users[u] # "deleted"
    BY InboundSettings DEF ChatInit, InboundInit
  <2>2. \A h \in Attempts : at[h] = "idle"
    BY DEF ChatInit, InboundInit
  <2> QED
    BY <2>1, <2>2 DEF ErasedInv, ErasedUserHasNothing
<1>2. CoreInv /\ CoreInv' /\ ErasedInv /\ [Next]_vars => ErasedInv'
  BY ErasedStep
<1>3. ErasedInv => ErasedUserHasNothing
  BY DEF ErasedInv
<1> QED
  BY <1>1, <1>2, <1>3, ChatCoreSafe, PTL DEF Spec

-----------------------------------------------------------------------------
(* Claims of a message. *)

Working(h) == at[h] \notin {"idle", "claim"}

(* While no attempt outlives its lease, a row is worked on by one attempt,   *)
(* and leased to it until the attempt has deleted the account.               *)
ClaimInv ==
  lapses = 0 =>
    /\ \A h \in Attempts : Working(h) /\ Mine(h) =>
         \/ msg[cur[h]].status = "received" /\ msg[cur[h]].leased
         \/ at[h] \in {"farewell", "mark"} /\ msg[cur[h]].raw = "none" /\ msg[cur[h]].status = "processed"
    /\ \A g, h \in Attempts : Working(g) /\ Working(h) /\ Mine(g) /\ Mine(h) /\ cur[g] = cur[h] => g = h

LEMMA ClaimOutside ==
  ASSUME CoreInv, ClaimInv, NEW h \in Attempts, OutsideStep(h)
  PROVE  ClaimInv'
<1>0. /\ msg \in [Messages -> MessageRow] /\ at \in [Attempts -> ChatSteps] /\ cur \in [Attempts -> Messages]
      /\ pm \in [Attempts -> Nat]
  BY DEF CoreInv, ChatTypeOK, InboundTypeOK
<1>1. Outside(h) /\ lapses' = lapses /\ (at'[h] \notin {"idle", "claim"} => cur'[h] = cur[h])
  BY OutsideMoves, OutsideRows
<1>2. \A g \in Attempts : g # h => at'[g] = at[g] /\ cur'[g] = cur[g] /\ pm'[g] = pm[g]
  BY <1>0, <1>1 DEF Outside, Goto
<1>3. \A m \in Messages : m # cur[h] => msg'[m] = msg[m]
  BY <1>1 DEF Outside
<1>4. \A g \in Attempts : Working(g) => pm[g] <= msg[cur[g]].id
  BY DEF CoreInv, HandInv, Working
<1> SUFFICES ASSUME lapses = 0
             PROVE  /\ \A g \in Attempts : Working(g)' /\ Mine(g)' =>
                         \/ msg'[cur'[g]].status = "received" /\ msg'[cur'[g]].leased
                         \/ at'[g] \in {"farewell", "mark"} /\ msg'[cur'[g]].raw = "none"
                            /\ msg'[cur'[g]].status = "processed"
                    /\ \A f, g \in Attempts : Working(f)' /\ Working(g)' /\ Mine(f)' /\ Mine(g)' /\ cur'[f] = cur'[g]
                                              => f = g
  BY <1>1 DEF ClaimInv
<1>5. ASSUME NEW g \in Attempts, g # h, Working(g)', Mine(g)'
      PROVE  /\ Working(g) /\ Mine(g) /\ msg'[cur[g]] = msg[cur[g]] /\ at'[g] = at[g] /\ cur'[g] = cur[g]
             /\ cur[g] = cur[h] => LeavesRow(h)
  <2>1. /\ at'[g] = at[g] /\ cur'[g] = cur[g] /\ Working(g) /\ msg'[cur[g]].id = pm[g]
        /\ msg'[cur[g]].status # "none" /\ pm[g] <= msg[cur[g]].id
    BY <1>2, <1>4, <1>5 DEF Working, Mine, Row
  <2>2. CASE cur[g] # cur[h] \/ LeavesRow(h)
    <3>1. msg'[cur[g]] = msg[cur[g]]
      BY <1>0, <1>3, <2>2 DEF LeavesRow
    <3> QED
      BY <2>1, <2>2, <3>1 DEF Mine, Row
  <2>3. CASE cur[g] = cur[h] /\ Inserts(h)
    BY <1>0, <2>1, <2>3 DEF Inserts, MessageRow
  <2>4. CASE cur[g] = cur[h] /\ Reclaims(h)
    <3>1. Mine(g)
      BY <2>1, <2>4 DEF Reclaims, Mine
    <3>2. msg[cur[h]].status = "processed" \/ (msg[cur[h]].status = "received" /\ msg[cur[h]].leased)
      BY <2>1, <2>4, <3>1 DEF ClaimInv
    <3> QED
      BY <2>4, <3>2 DEF Reclaims, Claimable
  <2>5. CASE cur[g] = cur[h] /\ (Owns(h) \/ Marks(h))
    <3>1. Mine(h) /\ Working(h) /\ Mine(g)
      BY <2>1, <2>5 DEF Owns, Marks, Working, Mine, Row
    <3> QED
      BY <1>5, <2>1, <2>5, <3>1 DEF ClaimInv
  <2> QED
    BY <2>2, <2>3, <2>4, <2>5, OutsideRows
<1>6. ASSUME Working(h)', Mine(h)'
      PROVE  /\ msg'[cur[h]].status = "received" /\ msg'[cur[h]].leased /\ cur'[h] = cur[h]
             /\ LeavesRow(h) => Working(h) /\ Mine(h)
  <2>0. cur'[h] = cur[h]
    BY <1>1, <1>6 DEF Working
  <2>1. CASE Inserts(h) \/ Reclaims(h)
    <3>1. ~LeavesRow(h)
      BY <2>1 DEF Inserts, Reclaims, LeavesRow
    <3> QED
      BY <2>0, <2>1, <3>1 DEF Inserts, Reclaims
  <2>2. CASE Owns(h)
    <3>1. Working(h) /\ Mine(h) /\ at[h] = "own"
      BY <2>2 DEF Owns, Working
    <3> QED
      BY <2>0, <2>2, <3>1 DEF Owns, ClaimInv
  <2>3. CASE Marks(h)
    BY <1>6, <2>3 DEF Marks, Working
  <2>4. CASE LeavesRow(h)
    <3>1. at[h] \in {"resolve", "create", "own", "enter"} /\ pm'[h] = pm[h] /\ UNCHANGED msg
      BY <1>6, <2>4 DEF LeavesRow, Working
    <3>2. Working(h) /\ Mine(h)
      BY <1>6, <2>0, <3>1 DEF Working, Mine, Row
    <3> QED
      BY <2>0, <3>1, <3>2 DEF ClaimInv
  <2> QED
    BY <2>1, <2>2, <2>3, <2>4, OutsideRows
<1>7. \A g \in Attempts : Working(g)' /\ Mine(g)' =>
         \/ msg'[cur'[g]].status = "received" /\ msg'[cur'[g]].leased
         \/ at'[g] \in {"farewell", "mark"} /\ msg'[cur'[g]].raw = "none" /\ msg'[cur'[g]].status = "processed"
  BY <1>5, <1>6 DEF ClaimInv
<1>8. ASSUME NEW f \in Attempts, NEW g \in Attempts, Working(f)', Working(g)', Mine(f)', Mine(g)', cur'[f] = cur'[g]
      PROVE  f = g
  <2>1. CASE f # h /\ g # h
    BY <1>5, <1>8, <2>1 DEF ClaimInv
  <2>2. CASE f = h /\ g # h
    <3>1. Working(g) /\ Mine(g) /\ cur[g] = cur[h]
      BY <1>5, <1>6, <1>8, <2>2
    <3>2. Working(h) /\ Mine(h)
      BY <1>5, <1>6, <1>8, <2>2, <3>1
    <3> QED
      BY <2>2, <3>1, <3>2 DEF ClaimInv
  <2>3. CASE f # h /\ g = h
    <3>1. Working(f) /\ Mine(f) /\ cur[f] = cur[h]
      BY <1>5, <1>6, <1>8, <2>3
    <3>2. Working(h) /\ Mine(h)
      BY <1>5, <1>6, <1>8, <2>3, <3>1
    <3> QED
      BY <2>3, <3>1, <3>2 DEF ClaimInv
  <2> QED
    BY <2>1, <2>2, <2>3
<1> QED
  BY <1>7, <1>8

(* A step that writes no status, lease or content and lets attempts that do  *)
(* not work on a row stay away from it.                                      *)
LEMMA ClaimKept ==
  ASSUME CoreInv, ClaimInv, lapses' = lapses, UNCHANGED <<msg, cur, pm>>,
         \A g \in Attempts : Working(g)' => Working(g) /\ (at'[g] = at[g] \/ at'[g] = "mark" \/ at[g] \notin {"farewell", "mark"})
  PROVE  ClaimInv'
<1>1. \A g \in Attempts : Mine(g)' = Mine(g)
  BY DEF Mine, Row
<1> QED
  BY <1>1 DEF ClaimInv

LEMMA ClaimStep ==
  ASSUME CoreInv, ClaimInv, [Next]_vars
  PROVE  ClaimInv'
<1>0. /\ msg \in [Messages -> MessageRow] /\ at \in [Attempts -> ChatSteps] /\ cur \in [Attempts -> Messages]
      /\ pm \in [Attempts -> Nat] /\ lapses \in Nat
  BY DEF CoreInv, ChatTypeOK, InboundTypeOK
<1>1. ASSUME NEW m \in Messages, Quarantine(m) \/ ClaimExpires(m) \/ ClaimOutlived(m) \/ DeleteExpiredTombstone(m)
      PROVE  ClaimInv'
  <2>1. UNCHANGED <<at, cur, pm>>
    BY <1>1 DEF Quarantine, ClaimExpires, ClaimOutlived, DeleteExpiredTombstone, local
  <2>2. CASE Quarantine(m)
    BY <2>1, <2>2, ClaimKept DEF Quarantine, faults, Working
  <2>3. CASE ClaimExpires(m)
    <3>1. msg' = [msg EXCEPT ![m].leased = FALSE] /\ ~AtWork(m) /\ lapses' = lapses
      BY <2>3 DEF ClaimExpires, faults
    <3>2. \A k \in Messages : msg'[k].id = msg[k].id /\ msg'[k].status = msg[k].status /\ (k # m => msg'[k] = msg[k])
      BY <1>0, <3>1 DEF MessageRow
    <3>3. \A g \in Attempts : Mine(g)' = Mine(g)
      BY <1>0, <2>1, <3>2 DEF Mine, Row
    <3>4. \A g \in Attempts : Working(g) /\ Mine(g) => cur[g] # m
      BY <3>1 DEF AtWork, Working, Mine
    <3> QED
      BY <1>0, <2>1, <3>1, <3>2, <3>3, <3>4 DEF ClaimInv, Working
  <2>4. CASE ClaimOutlived(m) \/ DeleteExpiredTombstone(m)
    BY <1>0, <2>4 DEF ClaimOutlived, DeleteExpiredTombstone, ClaimInv
  <2> QED
    BY <1>1, <2>2, <2>3, <2>4
<1>2. ASSUME NEW h \in Attempts, OutsideStep(h)
      PROVE  ClaimInv'
  BY <1>2, ClaimOutside
<1>3. ASSUME NEW h \in Attempts, Enter(h)
      PROVE  ClaimInv'
  <2>1. at[h] = "enter" /\ UNCHANGED <<cur, pm>> /\ lapses' = lapses
    BY <1>3 DEF Enter, faults
  <2>2. \A g \in Attempts : g # h => at'[g] = at[g]
    BY <1>0, <1>3, EnterMoves DEF Enters, PassesBy, Goto
  <2>3. \A g \in Attempts : Working(g)' => Working(g) /\ (at'[g] = at[g] \/ at[g] \notin {"farewell", "mark"})
    BY <2>1, <2>2 DEF Working
  <2>4. CASE UNCHANGED msg
    BY <2>1, <2>3, <2>4, ClaimKept
  <2>5. CASE Mine(h) /\ msg' = [msg EXCEPT ![cur[h]].raw = "redacted"]
    <3>1. \A k \in Messages : /\ msg'[k].id = msg[k].id /\ msg'[k].status = msg[k].status /\ msg'[k].leased = msg[k].leased
                              /\ k # cur[h] => msg'[k] = msg[k]
      BY <1>0, <2>5 DEF MessageRow
    <3>2. \A g \in Attempts : Mine(g)' = Mine(g)
      BY <1>0, <2>1, <3>1 DEF Mine, Row
    <3>3. lapses = 0 => \A g \in Attempts : Working(g) /\ Mine(g) /\ g # h => cur[g] # cur[h]
      BY <2>1, <2>5 DEF ClaimInv, Working
    <3>4. \A g \in Attempts : g # h /\ Working(g)' => at'[g] = at[g] /\ Working(g)
      BY <2>2 DEF Working
    <3>5. Working(h)
      BY <2>1 DEF Working
    <3> HIDE DEF Working, Mine
    <3>6. ASSUME lapses = 0, NEW g \in Attempts, Working(g)', Mine(g)'
          PROVE  \/ msg'[cur'[g]].status = "received" /\ msg'[cur'[g]].leased
                 \/ at'[g] \in {"farewell", "mark"} /\ msg'[cur'[g]].raw = "none"
                    /\ msg'[cur'[g]].status = "processed"
      <4>0. Mine(g) /\ cur'[g] = cur[g] /\ cur[g] \in Messages
        BY <1>0, <2>1, <3>2, <3>6
      <4>1. CASE g = h
        BY <2>1, <2>5, <3>1, <3>5, <3>6, <4>0, <4>1 DEF ClaimInv
      <4>2. CASE g # h
        <5>1. Working(g) /\ at'[g] = at[g] /\ cur[g] # cur[h]
          BY <3>3, <3>4, <3>6, <4>0, <4>2
        <5> QED
          BY <3>1, <3>6, <4>0, <5>1 DEF ClaimInv
      <4> QED
        BY <4>1, <4>2
    <3>7. lapses = 0 => \A f, g \in Attempts : Working(f)' /\ Working(g)' /\ Mine(f)' /\ Mine(g)' /\ cur'[f] = cur'[g] => f = g
      BY <2>1, <2>3, <3>2 DEF ClaimInv
    <3> QED
      BY <2>1, <3>6, <3>7 DEF ClaimInv
  <2> QED
    BY <1>3, <2>4, <2>5 DEF Enter
<1>4. ASSUME NEW h \in Attempts, Ordinary(h)
      PROVE  ClaimInv'
  <2>1. UNCHANGED <<msg, cur, pm>> /\ lapses' = lapses
    BY <1>4 DEF Ordinary
  <2>2. at[h] \in LockedSteps /\ (at[h] = "farewell" => at'[h] = "mark") /\ \A g \in Attempts : g # h => at'[g] = at[g]
    BY <1>0, <1>4 DEF Ordinary, GoesOn, EndsRoute, Goto, LockedSteps, GoingSteps, ActiveSteps,
       CardSteps, EditSteps
  <2>3. at[h] \notin {"idle", "claim", "mark"}
    BY <2>2 DEF LockedSteps, GoingSteps, ActiveSteps, CardSteps, EditSteps
  <2> QED
    BY <2>1, <2>2, <2>3, ClaimKept DEF Working
<1>5. ASSUME NEW h \in Attempts, SetConsent(h) \/ BeginAccountDeletion(h)
      PROVE  ClaimInv'
  <2>1. NewStatus(h)
    BY <1>5, NewStatusMoves
  <2>2. UNCHANGED <<msg, cur, pm>> /\ lapses' = lapses
    BY <2>1 DEF NewStatus, local, faults
  <2>3. at[h] \in {"consent", "markDeleting"} /\ \A g \in Attempts : g # h => at'[g] = at[g]
    BY <1>0, <2>1 DEF NewStatus, Goto
  <2> QED
    BY <2>2, <2>3, ClaimKept DEF Working
<1>6. ASSUME NEW h \in Attempts, Purges(h)
      PROVE  ClaimInv'
  <2>1. /\ at[h] = "purge" /\ at' = [at EXCEPT ![h] = "farewell"] /\ UNCHANGED <<cur, pm>> /\ lapses' = lapses /\ Mine(h)
    BY <1>6 DEF Purges, Goto, local, faults
  <2>2. Working(h) /\ at'[h] = "farewell" /\ \A g \in Attempts : g # h => at'[g] = at[g]
    BY <1>0, <2>1 DEF Working
  <2>3. ASSUME NEW g \in Attempts, Working(g)', Mine(g)'
        PROVE  Working(g) /\ Mine(g) /\ cur'[g] = cur[g] /\ (cur[g] # cur[h] => msg'[cur[g]] = msg[cur[g]])
    <3>1. cur[g] \in Messages /\ cur'[g] = cur[g] /\ msg'[cur[g]].status # "none" /\ msg'[cur[g]].id = pm[g]
      BY <1>0, <2>1, <2>3 DEF Mine, Row
    <3>2. Working(g)
      BY <2>2, <2>3 DEF Working
    <3>3. msg[cur[g]].id = pm[g]
      BY <1>6, <3>1, PurgedRows
    <3>4. cur[g] # cur[h] => msg'[cur[g]] = msg[cur[g]]
      BY <1>6, <3>1, PurgedRows
    <3>5. Row(cur[g])
      BY <2>1, <3>1, <3>4 DEF Row, Mine
    <3> QED
      BY <3>1, <3>2, <3>3, <3>4, <3>5 DEF Mine
  <2>4. msg'[cur[h]].raw = "none" /\ msg'[cur[h]].status = "processed"
    BY <1>6, PurgedRows
  <2>5. ASSUME lapses = 0, NEW g \in Attempts, Working(g)', Mine(g)'
        PROVE  \/ msg'[cur'[g]].status = "received" /\ msg'[cur'[g]].leased
               \/ at'[g] \in {"farewell", "mark"} /\ msg'[cur'[g]].raw = "none" /\ msg'[cur'[g]].status = "processed"
    <3>1. Working(g) /\ Mine(g) /\ cur'[g] = cur[g] /\ (cur[g] # cur[h] => msg'[cur[g]] = msg[cur[g]])
      BY <2>3, <2>5
    <3>2. CASE g = h
      BY <2>2, <2>4, <3>1, <3>2
    <3>3. CASE g # h
      <4>1. cur[g] # cur[h]
        BY <2>1, <2>2, <2>5, <3>1, <3>3 DEF ClaimInv
      <4> QED
        BY <2>2, <2>5, <3>1, <3>3, <4>1 DEF ClaimInv
    <3> QED
      BY <3>2, <3>3
  <2>6. lapses = 0 => \A f, g \in Attempts : Working(f)' /\ Working(g)' /\ Mine(f)' /\ Mine(g)' /\ cur'[f] = cur'[g] => f = g
    BY <2>3 DEF ClaimInv
  <2> QED
    BY <2>1, <2>5, <2>6 DEF ClaimInv
<1>7. CASE (\E u \in Users : PendingExpires(u)) \/ WorkerStep \/ UNCHANGED vars
  <2>1. UNCHANGED <<msg, cur, pm, at, lapses>>
    BY <1>7 DEF PendingExpires, WorkerStep, FinalizeReceiptReview, SendReviewCard, vars,
       inboundVars, local, faults
  <2> QED
    BY <2>1, ClaimKept DEF Working
<1> QED
  BY <1>1, <1>2, <1>3, <1>4, <1>5, <1>6, <1>7, StepKinds, OrdinaryMoves, PurgeMoves

LEMMA ClaimInit ==
  ASSUME ChatInit
  PROVE  ClaimInv
<1>1. \A h \in Attempts : at[h] = "idle"
  BY DEF ChatInit, InboundInit
<1> QED
  BY <1>1 DEF ClaimInv, Working

(* MarkProviderMessage writes by id, without a claim token: still a message  *)
(* that is processed is never taken up again while every attempt ends within *)
(* its lease, except the tombstone of a deletion.                            *)
THEOREM SettledStaysSafe == Spec => SettledStays
<1> DEFINE Settled == \A m \in Messages :
                        (msg[m].status = "processed" /\ msg[m].raw # "none" /\ lapses = 0)
                          => msg'[m].status \in {"processed", "none"}
<1>1. ASSUME CoreInv, ClaimInv, [Next]_vars
      PROVE  [Settled]_vars
  <2>0. msg \in [Messages -> MessageRow] /\ cur \in [Attempts -> Messages]
    BY <1>1 DEF CoreInv, ChatTypeOK, InboundTypeOK
  <2>a. (\A m \in Messages : msg'[m].status = msg[m].status) => Settled
    OBVIOUS
  <2>1. ASSUME NEW m \in Messages, Quarantine(m) \/ ClaimExpires(m) \/ ClaimOutlived(m) \/ DeleteExpiredTombstone(m)
        PROVE  Settled
    <3>1. CASE DeleteExpiredTombstone(m)
      BY <2>0, <3>1, TombstoneGoes
    <3>2. CASE ~DeleteExpiredTombstone(m)
      <4>1. msg' = msg \/ msg' = [msg EXCEPT ![m].leased = FALSE]
        BY <2>1, <3>2 DEF Quarantine, ClaimExpires, ClaimOutlived
      <4>2. \A k \in Messages : msg'[k].status = msg[k].status
        BY <2>0, <4>1 DEF MessageRow
      <4> QED
        BY <2>a, <4>2
    <3> QED
      BY <3>1, <3>2
  <2>2. ASSUME NEW h \in Attempts, OutsideStep(h)
        PROVE  Settled
    <3>1. \A m \in Messages : m # cur[h] => msg'[m] = msg[m]
      BY <1>1, <2>2, OutsideMoves DEF Outside
    <3>2. ASSUME msg[cur[h]].status = "processed", msg[cur[h]].raw # "none", lapses = 0
          PROVE  msg'[cur[h]].status \in {"processed", "none"}
      <4>1. CASE Inserts(h) \/ Reclaims(h)
        BY <3>2, <4>1 DEF Inserts, Reclaims, Row, Claimable
      <4>2. CASE Owns(h) \/ LeavesRow(h)
        BY <3>2, <4>2 DEF Owns, LeavesRow
      <4>3. CASE Marks(h)
        <5>1. Working(h) /\ Mine(h)
          BY <4>3 DEF Marks, Working
        <5> QED
          BY <1>1, <3>2, <5>1 DEF ClaimInv
      <4> QED
        BY <1>1, <2>2, <4>1, <4>2, <4>3, OutsideRows
    <3> QED
      BY <3>1, <3>2
  <2>3. ASSUME NEW h \in Attempts, Enter(h)
        PROVE  Settled
    <3>1. msg' = msg \/ msg' = [msg EXCEPT ![cur[h]].raw = "redacted"]
      BY <2>3 DEF Enter
    <3>2. \A k \in Messages : msg'[k].status = msg[k].status
      BY <2>0, <3>1 DEF MessageRow
    <3> QED
      BY <2>a, <3>2
  <2>4. ASSUME NEW h \in Attempts, Ordinary(h) \/ NewStatus(h)
        PROVE  Settled
    BY <2>a, <2>4 DEF Ordinary, NewStatus
  <2>5. ASSUME NEW h \in Attempts, Purges(h)
        PROVE  Settled
    <3>1. \A m \in Messages : msg'[m].status \in {msg[m].status, "none", "processed"}
      BY <1>1, <2>5, PurgedRows
    <3> QED
      BY <3>1
  <2>6. CASE (\E u \in Users : PendingExpires(u)) \/ WorkerStep
    <3>1. UNCHANGED msg
      BY <2>6 DEF PendingExpires, WorkerStep, FinalizeReceiptReview, SendReviewCard, inboundVars
    <3> QED
      BY <2>a, <3>1
  <2>7. CASE Next
    <3> HIDE DEF Settled
    <3> QED
      BY <1>1, <2>1, <2>2, <2>3, <2>4, <2>5, <2>6, <2>7, StepKinds, OrdinaryMoves, PurgeMoves,
         NewStatusMoves
  <2> QED
    BY <1>1, <2>7
<1>2. CoreInv /\ ClaimInv /\ [Next]_vars => [Settled]_vars
  BY <1>1
<1>3. ChatInit => ClaimInv
  BY ClaimInit
<1>4. CoreInv /\ ClaimInv /\ [Next]_vars => ClaimInv'
  BY ClaimStep
<1> QED
  BY <1>2, <1>3, <1>4, ChatCoreSafe, PTL DEF Spec, SettledStays

-----------------------------------------------------------------------------
(* The tombstone of a deletion. *)

(* An attempt under the lock works on a row that is its own and carries its  *)
(* user; one that waits for the lock does too, or its user is gone.          *)
OwnedInv ==
  \A h \in Attempts :
    /\ at[h] \in LockedSteps \ {"farewell"} => Mine(h) /\ msg[cur[h]].owner = who[h]
    /\ at[h] = "enter" => Gone(who[h]) \/ (Mine(h) /\ msg[cur[h]].owner = who[h])

LEMMA OwnedStep ==
  ASSUME CoreInv, OwnedInv, [Next]_vars
  PROVE  OwnedInv'
<1> USE DEF Gone
<1>0. /\ msg \in [Messages -> MessageRow] /\ at \in [Attempts -> ChatSteps] /\ cur \in [Attempts -> Messages]
      /\ pm \in [Attempts -> Nat] /\ who \in [Attempts -> Owners] /\ users \in [Users -> UserStatus]
  BY DEF CoreInv, ChatTypeOK, InboundTypeOK
<1>a. /\ "enter" \notin LockedSteps \cup {"mark"} /\ OpenSteps \cap LockedSteps = {}
      /\ "mark" \notin LockedSteps
  BY DEF OpenSteps, LockedSteps, ActiveSteps, GoingSteps, CardSteps, EditSteps
<1>b. \A g \in Attempts : at[g] \in LockedSteps \/ at[g] = "enter" => who[g] \in Users /\ users[who[g]] # "none"
  BY DEF CoreInv, UserInv
<1>c. NoUser \notin Users
  BY DEF NoUser, Users
<1>d. ASSUME UNCHANGED <<cur, pm, who>>,
             \A m \in Messages : msg'[m].id = msg[m].id /\ msg'[m].owner = msg[m].owner /\ msg'[m].status = msg[m].status,
             \A u \in Users : Gone(u) => Gone(u)',
             \A g \in Attempts : \/ at'[g] = at[g]
                                 \/ at'[g] \notin LockedSteps \cup {"enter"}
                                 \/ at[g] \in LockedSteps \ {"farewell"} /\ at'[g] # "enter"
                                 \/ at[g] = "enter" /\ at'[g] # "enter" /\ ~Gone(who[g])
      PROVE  OwnedInv'
  <2>1. \A g \in Attempts : Mine(g)' = Mine(g) /\ msg'[cur'[g]].owner = msg[cur[g]].owner /\ who'[g] = who[g]
    BY <1>0, <1>d DEF Mine, Row
  <2> QED
    BY <1>b, <1>d, <2>1 DEF OwnedInv
<1>1. ASSUME NEW m \in Messages, Quarantine(m) \/ ClaimExpires(m) \/ ClaimOutlived(m) \/ DeleteExpiredTombstone(m)
      PROVE  OwnedInv'
  <2>1. UNCHANGED <<users, at, cur, pm, who>>
    BY <1>1 DEF Quarantine, ClaimExpires, ClaimOutlived, DeleteExpiredTombstone, local, people
  <2>2. CASE DeleteExpiredTombstone(m)
    <3>1. /\ \A k \in Messages : k # m => msg'[k] = msg[k]
          /\ \A g \in Attempts : at[g] \notin {"idle", "claim"} /\ cur[g] = m => ~Mine(g)
      BY <1>0, <2>2, TombstoneGoes
    <3>2. \A g \in Attempts : cur[g] # m => (Mine(g)' <=> Mine(g)) /\ msg'[cur'[g]] = msg[cur[g]]
      BY <1>0, <2>1, <3>1 DEF Mine, Row
    <3>3. \A g \in Attempts : at[g] \in LockedSteps \cup {"enter"} => at[g] \notin {"idle", "claim"}
      BY DEF LockedSteps, ActiveSteps, GoingSteps, CardSteps, EditSteps
    <3>4. \A g \in Attempts : cur[g] = m /\ at[g] \in LockedSteps \cup {"enter"} => ~Mine(g)
      BY <3>1, <3>3
    <3> QED
      BY <2>1, <3>2, <3>4 DEF OwnedInv
  <2>3. CASE ~DeleteExpiredTombstone(m)
    <3>1. msg' = msg \/ msg' = [msg EXCEPT ![m].leased = FALSE]
      BY <1>1, <2>3 DEF Quarantine, ClaimExpires, ClaimOutlived
    <3>2. \A k \in Messages : msg'[k].id = msg[k].id /\ msg'[k].owner = msg[k].owner /\ msg'[k].status = msg[k].status
      BY <1>0, <3>1 DEF MessageRow
    <3> QED
      BY <1>d, <2>1, <3>2
  <2> QED
    BY <2>2, <2>3
<1>2. ASSUME NEW h \in Attempts, OutsideStep(h)
      PROVE  OwnedInv'
  <2>1. Outside(h) /\ (UNCHANGED people \/ FirstContact(h))
    BY <1>2, OutsideMoves, PeopleOutside
  <2>2. \A u \in Users : users[u] # "none" => users'[u] = users[u]
    BY <1>0, <2>1 DEF people, FirstContact
  <2>3. \A g \in Attempts : g # h => at'[g] = at[g] /\ cur'[g] = cur[g] /\ pm'[g] = pm[g] /\ who'[g] = who[g]
    BY <1>0, <2>1 DEF Outside, Goto
  <2>4. ASSUME NEW g \in Attempts, Mine(g), who[g] \in Users, msg[cur[g]].owner = who[g]
        PROVE  msg'[cur[g]].id = pm[g] /\ msg'[cur[g]].status # "none" /\ msg'[cur[g]].owner = who[g]
    <3>1. msg[cur[g]].id = pm[g] /\ msg[cur[g]].status # "none" /\ who[g] # NoUser
      BY <1>c, <2>4 DEF Mine, Row
    <3>2. CASE cur[g] # cur[h] \/ LeavesRow(h)
      <4>1. msg'[cur[g]] = msg[cur[g]]
        BY <1>0, <2>1, <3>2 DEF Outside, LeavesRow
      <4> QED
        BY <2>4, <3>1, <4>1
    <3>3. CASE cur[g] = cur[h] /\ Inserts(h)
      BY <3>1, <3>3 DEF Inserts, Row
    <3>4. CASE cur[g] = cur[h] /\ Reclaims(h)
      BY <2>4, <3>1, <3>4 DEF Reclaims
    <3>5. CASE cur[g] = cur[h] /\ Owns(h)
      BY <2>4, <3>1, <3>5 DEF Owns
    <3>6. CASE cur[g] = cur[h] /\ Marks(h)
      BY <2>4, <3>1, <3>6 DEF Marks
    <3> QED
      BY <1>2, <3>2, <3>3, <3>4, <3>5, <3>6, OutsideRows
  <2>5. ASSUME NEW g \in Attempts, g # h
        PROVE  /\ at'[g] \in LockedSteps \ {"farewell"} => Mine(g)' /\ msg'[cur'[g]].owner = who'[g]
               /\ at'[g] = "enter" => Gone(who[g])' \/ (Mine(g)' /\ msg'[cur'[g]].owner = who'[g])
    BY <1>b, <2>2, <2>3, <2>4, <2>5 DEF OwnedInv, Mine, Row
  <2>6. at'[h] \notin LockedSteps
    BY <1>0, <1>a, <2>1 DEF Outside, Goto
  <2>7. at'[h] = "enter" => Mine(h)' /\ msg'[cur'[h]].owner = who'[h]
    <3>1. CASE at'[h] = "enter"
      <4>1. Owns(h) /\ cur'[h] = cur[h]
        BY <1>2, <3>1, OutsideRows DEF Inserts, Reclaims, Marks, LeavesRow
      <4> QED
        BY <4>1 DEF Owns, Mine, Row
    <3> QED
      BY <3>1
  <2> QED
    BY <2>5, <2>6, <2>7 DEF OwnedInv
<1>3. ASSUME NEW h \in Attempts, Enter(h)
      PROVE  OwnedInv'
  <2>1. msg' = msg \/ msg' = [msg EXCEPT ![cur[h]].raw = "redacted"]
    BY <1>3 DEF Enter
  <2>2. \A k \in Messages : msg'[k].id = msg[k].id /\ msg'[k].owner = msg[k].owner /\ msg'[k].status = msg[k].status
    <3>1. msg \in [Messages -> MessageRow] /\ cur[h] \in Messages
      BY <1>0
    <3>2. CASE msg' = [msg EXCEPT ![cur[h]].raw = "redacted"]
      BY <3>1, <3>2 DEF MessageRow
    <3> QED
      BY <2>1, <3>2
  <2>3. UNCHANGED <<users, cur, pm, who>> /\ at[h] = "enter" /\ (Enters(h) \/ PassesBy(h))
    BY <1>3, EnterMoves DEF people
  <2>4. CASE Enters(h)
    <3>1. \E s \in ActiveSteps \cup {"consent", "reply"} : at' = [at EXCEPT ![h] = s]
      BY <2>4 DEF Enters, Goto
    <3>2. ~Gone(who[h]) /\ "enter" \notin ActiveSteps \cup {"consent", "reply"}
      BY <2>4 DEF Enters, ActiveSteps, CardSteps, EditSteps
    <3> QED
      BY <1>0, <1>d, <2>2, <2>3, <3>1, <3>2
  <2>5. CASE PassesBy(h)
    BY <1>0, <1>a, <1>d, <2>2, <2>3, <2>5 DEF PassesBy
  <2> QED
    BY <2>3, <2>4, <2>5
<1>4. ASSUME NEW h \in Attempts, Ordinary(h)
      PROVE  OwnedInv'
  <2>1. UNCHANGED <<msg, cur, pm, who, users>>
    BY <1>4 DEF Ordinary, people
  <2>2. CASE GoesOn(h)
    <3>1. at[h] \in LockedSteps \ {"farewell"} /\ \E s \in LockedSteps : at' = [at EXCEPT ![h] = s]
      BY <2>2 DEF GoesOn, Goto, LockedSteps, GoingSteps, ActiveSteps, CardSteps, EditSteps
    <3> QED
      BY <1>0, <1>a, <1>d, <2>1, <3>1
  <2>3. CASE EndsRoute(h)
    BY <1>0, <1>a, <1>d, <2>1, <2>3 DEF EndsRoute
  <2> QED
    BY <1>4, <2>2, <2>3 DEF Ordinary
<1>5. ASSUME NEW h \in Attempts, SetConsent(h) \/ BeginAccountDeletion(h)
      PROVE  OwnedInv'
  <2>1. NewStatus(h)
    BY <1>5, NewStatusMoves
  <2>2. UNCHANGED <<msg, cur, pm, who>>
    BY <2>1 DEF NewStatus, local
  <2>3. /\ at[h] \in {"consent", "markDeleting"} /\ \E s \in {"reply", "unexport"} : at' = [at EXCEPT ![h] = s]
        /\ (\E s \in {"active", "deleting"} : users' = [users EXCEPT ![who[h]] = s])
    BY <2>1 DEF NewStatus, Goto
  <2>4. at[h] \in LockedSteps \ {"farewell"}
    BY <2>3 DEF LockedSteps, ActiveSteps
  <2>5. ~Gone(who[h])
    <3>1. at[h] = "consent" => users[who[h]] = "pending"
      BY DEF CoreInv, UserInv
    <3>2. at[h] = "markDeleting" => users[who[h]] = "active"
      BY DEF CoreInv, UserInv, ActiveSteps
    <3> QED
      BY <2>3, <3>1, <3>2
  <2>6. \A u \in Users : Gone(u) => Gone(u)'
    BY <1>0, <2>3, <2>5
  <2> QED
    BY <1>0, <1>d, <2>2, <2>3, <2>4, <2>6
<1>6. ASSUME NEW h \in Attempts, Purges(h)
      PROVE  OwnedInv'
  <2>1. /\ at[h] = "purge" /\ at' = [at EXCEPT ![h] = "farewell"] /\ UNCHANGED who
        /\ users' = [users EXCEPT ![who[h]] = "deleted"]
    BY <1>6 DEF Purges, Goto, local
  <2>2. /\ identity = who[h] /\ who[h] \in Users
        /\ \A g \in Attempts : g # h => at[g] \notin LockedSteps \/ at[g] = "farewell"
    BY <2>1, LoneHolder DEF LockedSteps, GoingSteps
  <2>3. \A g \in Attempts : at'[g] \notin LockedSteps \ {"farewell"}
    BY <1>0, <2>1, <2>2
  <2>4. ASSUME NEW g \in Attempts, at'[g] = "enter"
        PROVE  Gone(who[g])'
    <3>1. g # h /\ at[g] = "enter" /\ who'[g] = who[g] /\ who[g] \in Users /\ users[who[g]] # "none"
      BY <1>0, <1>b, <2>1, <2>4
    <3>2. who[g] # who[h] => users[who[g]] = "deleted"
      BY <2>2, <3>1 DEF CoreInv, UserInv
    <3> QED
      BY <1>0, <2>1, <2>2, <3>1, <3>2
  <2> QED
    BY <2>3, <2>4 DEF OwnedInv
<1>7. CASE (\E u \in Users : PendingExpires(u)) \/ WorkerStep \/ UNCHANGED vars
  <2>1. UNCHANGED <<msg, cur, pm, at, who, users>>
    BY <1>7 DEF PendingExpires, WorkerStep, FinalizeReceiptReview, SendReviewCard, vars,
       inboundVars, local, people
  <2> QED
    BY <1>d, <2>1
<1> QED
  BY <1>1, <1>2, <1>3, <1>4, <1>5, <1>6, <1>7, StepKinds, OrdinaryMoves, PurgeMoves

(* Without failing statements and lapsed leases the message that deleted an  *)
(* account stays a processed row without content, owner or claimant.         *)
TombInv ==
  errors + lapses = 0 =>
    /\ reopenedBy = {}
    /\ \A m \in erasedBy : msg[m].status = "processed" /\ msg[m].raw = "none" /\ msg[m].owner = NoUser
    /\ \A h \in Attempts : Working(h) /\ Mine(h) /\ cur[h] \in erasedBy
                           => at[h] = "farewell" \/ (at[h] = "mark" /\ ~err[h])

LEMMA TombStep ==
  ASSUME CoreInv, ClaimInv, OwnedInv, TombInv, [Next]_vars
  PROVE  TombInv'
<1>0. /\ msg \in [Messages -> MessageRow] /\ at \in [Attempts -> ChatSteps] /\ cur \in [Attempts -> Messages]
      /\ pm \in [Attempts -> Nat] /\ who \in [Attempts -> Owners] /\ err \in [Attempts -> BOOLEAN]
      /\ erasedBy \subseteq Messages /\ errors \in Nat /\ lapses \in Nat
  BY DEF CoreInv, ChatTypeOK, InboundTypeOK, SpeechTypeOK
<1>d. ASSUME UNCHANGED <<cur, pm, erasedBy, reopenedBy>>, errors' \in {errors, errors + 1}, lapses' \in {lapses, lapses + 1},
             \A m \in Messages : /\ msg'[m].id = msg[m].id /\ msg'[m].owner = msg[m].owner /\ msg'[m].status = msg[m].status
                                 /\ msg'[m].raw = msg[m].raw,
             \A g \in Attempts : \/ at'[g] = at[g] /\ err'[g] = err[g]
                                 \/ Working(g) /\ at[g] \notin {"farewell", "mark"}
                                 \/ at[g] = "farewell" /\ at'[g] = "mark" /\ (~err'[g] \/ errors' # errors)
      PROVE  TombInv'
  <2>1. errors' + lapses' = 0 => errors + lapses = 0 /\ errors' = errors
    BY <1>0, <1>d
  <2>2. \A g \in Attempts : Mine(g)' = Mine(g) /\ cur'[g] = cur[g] /\ (at'[g] = at[g] => Working(g)' = Working(g))
    BY <1>0, <1>d DEF Mine, Row, Working
  <2>3. \A g \in Attempts : at[g] = "farewell" => Working(g)
    BY DEF Working
  <2> QED
    BY <1>0, <1>d, <2>1, <2>2, <2>3 DEF TombInv
<1>1. ASSUME NEW m \in Messages, Quarantine(m) \/ ClaimExpires(m) \/ ClaimOutlived(m) \/ DeleteExpiredTombstone(m), UNCHANGED chatVars
      PROVE  TombInv'
  <2>1. CASE DeleteExpiredTombstone(m)
    <3>1. lapses' = lapses + 1 /\ errors' = errors
      BY <2>1 DEF DeleteExpiredTombstone
    <3>2. errors' + lapses' # 0
      BY <1>0, <3>1
    <3> QED
      BY <3>2 DEF TombInv
  <2>2. CASE ~DeleteExpiredTombstone(m)
    <3>1. msg' = msg \/ msg' = [msg EXCEPT ![m].leased = FALSE]
      BY <1>1, <2>2 DEF Quarantine, ClaimExpires, ClaimOutlived
    <3>2. \A k \in Messages : /\ msg'[k].id = msg[k].id /\ msg'[k].owner = msg[k].owner /\ msg'[k].status = msg[k].status
                              /\ msg'[k].raw = msg[k].raw
      BY <1>0, <3>1 DEF MessageRow
    <3>3. UNCHANGED <<at, cur, pm, err, erasedBy, reopenedBy, errors>> /\ lapses' \in {lapses, lapses + 1}
      BY <1>1, <2>2 DEF Quarantine, ClaimExpires, ClaimOutlived, local, faults, chatVars, deeds
    <3> QED
      BY <1>d, <3>2, <3>3
  <2> QED
    BY <2>1, <2>2
<1>2. ASSUME NEW h \in Attempts, OutsideStep(h), UNCHANGED chatVars
      PROVE  TombInv'
  <2>1. /\ Outside(h) /\ lapses' = lapses /\ errors' \in {errors, errors + 1}
        /\ at'[h] \notin {"idle", "claim"} => cur'[h] = cur[h]
    BY <1>2, OutsideMoves, OutsideRows
  <2>2. \A g \in Attempts : g # h => at'[g] = at[g] /\ cur'[g] = cur[g] /\ pm'[g] = pm[g] /\ err'[g] = err[g]
    BY <1>0, <2>1 DEF Outside, Goto
  <2>3. UNCHANGED <<erasedBy, reopenedBy>>
    BY <1>2 DEF chatVars, deeds
  <2> SUFFICES ASSUME errors' + lapses' = 0
               PROVE  /\ reopenedBy' = {}
                      /\ \A m \in erasedBy : msg'[m].status = "processed" /\ msg'[m].raw = "none" /\ msg'[m].owner = NoUser
                      /\ \A g \in Attempts : Working(g)' /\ Mine(g)' /\ cur'[g] \in erasedBy
                                             => at'[g] = "farewell" \/ (at'[g] = "mark" /\ ~err'[g])
    BY <2>3 DEF TombInv
  <2>4. errors + lapses = 0
    <3>1. lapses' = lapses /\ (errors' = errors \/ errors' = errors + 1)
      BY <2>1
    <3> QED
      BY <1>0, <3>1
  <2>5. ASSUME cur[h] \in erasedBy
        PROVE  /\ Marks(h) \/ LeavesRow(h)
               /\ msg'[cur[h]].status = "processed" /\ msg'[cur[h]].raw = "none" /\ msg'[cur[h]].owner = NoUser
               /\ msg'[cur[h]].id = msg[cur[h]].id
    <3>1. msg[cur[h]].status = "processed" /\ msg[cur[h]].raw = "none" /\ msg[cur[h]].owner = NoUser
      BY <2>4, <2>5 DEF TombInv
    <3>2. ~Inserts(h) /\ ~Reclaims(h)
      BY <3>1 DEF Inserts, Reclaims, Row, Claimable
    <3>3. ~Owns(h)
      <4>1. Owns(h) => Working(h) /\ Mine(h) /\ at[h] = "own"
        BY DEF Owns, Working
      <4> QED
        BY <2>4, <2>5, <4>1 DEF TombInv
    <3>4. Marks(h) => ~err[h]
      <4>1. Marks(h) => Working(h) /\ Mine(h) /\ at[h] = "mark"
        BY DEF Marks, Working
      <4> QED
        BY <2>4, <2>5, <4>1 DEF TombInv
    <3>5. Marks(h) \/ LeavesRow(h)
      BY <1>2, <3>2, <3>3, OutsideRows
    <3> QED
      BY <3>1, <3>4, <3>5 DEF Marks, LeavesRow
  <2>6. \A m \in erasedBy : msg'[m].status = "processed" /\ msg'[m].raw = "none" /\ msg'[m].owner = NoUser
    BY <1>0, <2>1, <2>4, <2>5 DEF Outside, TombInv
  <2>7. ASSUME NEW g \in Attempts, Working(g)', Mine(g)', cur'[g] \in erasedBy
        PROVE  at'[g] = "farewell" \/ (at'[g] = "mark" /\ ~err'[g])
    <3>1. CASE g # h
      <4>1. /\ at'[g] = at[g] /\ cur'[g] = cur[g] /\ pm'[g] = pm[g] /\ err'[g] = err[g] /\ Working(g)
            /\ msg'[cur[g]].id = pm[g] /\ cur[g] \in erasedBy
        BY <2>2, <2>7, <3>1 DEF Working, Mine
      <4>2. msg'[cur[g]].id = msg[cur[g]].id
        <5>1. cur[g] # cur[h] => msg'[cur[g]] = msg[cur[g]]
          BY <1>0, <2>1 DEF Outside
        <5> QED
          BY <2>5, <4>1, <5>1
      <4>3. Mine(g)
        BY <2>4, <4>1, <4>2 DEF Mine, Row, TombInv
      <4> QED
        BY <2>4, <4>1, <4>3 DEF TombInv
    <3>2. CASE g = h
      <4>1. cur'[h] = cur[h] /\ cur[h] \in erasedBy /\ at'[h] \notin {"idle", "claim"}
        BY <2>1, <2>7, <3>2 DEF Working
      <4>2. LeavesRow(h)
        BY <2>5, <4>1 DEF Marks
      <4>3. at[h] \in {"resolve", "create", "own", "enter"} /\ pm'[h] = pm[h] /\ UNCHANGED msg
        BY <4>1, <4>2 DEF LeavesRow
      <4>4. Working(h) /\ Mine(h)
        BY <2>7, <3>2, <4>1, <4>3 DEF Working, Mine, Row
      <4> QED
        BY <2>4, <4>1, <4>3, <4>4 DEF TombInv
    <3> QED
      BY <3>1, <3>2
  <2> QED
    BY <2>3, <2>4, <2>6, <2>7 DEF TombInv
<1>3. ASSUME NEW h \in Attempts, Enter(h)
      PROVE  TombInv'
  <2>1. /\ at[h] = "enter" /\ UNCHANGED <<cur, pm, erasedBy, reopenedBy, errors, lapses>>
        /\ msg' = msg \/ (Mine(h) /\ msg' = [msg EXCEPT ![cur[h]].raw = "redacted"])
    BY <1>3 DEF Enter, faults, deeds
  <2>2. \A g \in Attempts : g # h => at'[g] = at[g] /\ err'[g] = err[g]
    BY <1>0, <1>3, EnterMoves DEF Enters, PassesBy, Goto
  <2>3. CASE UNCHANGED msg
    BY <1>d, <2>1, <2>2, <2>3 DEF Working
  <2>4. CASE Mine(h) /\ msg' = [msg EXCEPT ![cur[h]].raw = "redacted"]
    <3>1. \A m \in Messages : /\ msg'[m].id = msg[m].id /\ msg'[m].status = msg[m].status
                              /\ m # cur[h] => msg'[m] = msg[m]
      BY <1>0, <2>4 DEF MessageRow
    <3>2. errors + lapses = 0 => cur[h] \notin erasedBy
      BY <2>1, <2>4 DEF TombInv, Working
    <3>3. \A g \in Attempts : Mine(g)' = Mine(g) /\ cur'[g] = cur[g] /\ (g # h => Working(g)' = Working(g))
      BY <1>0, <2>1, <2>2, <3>1 DEF Mine, Row, Working
    <3> QED
      BY <1>0, <2>1, <2>2, <3>1, <3>2, <3>3 DEF TombInv
  <2> QED
    BY <2>1, <2>3, <2>4
<1>4. ASSUME NEW h \in Attempts, Ordinary(h)
      PROVE  TombInv'
  <2>1. UNCHANGED <<msg, cur, pm, lapses, erasedBy, reopenedBy>> /\ errors' \in {errors, errors + 1} /\ at[h] \in LockedSteps
    BY <1>4 DEF Ordinary, GoesOn, EndsRoute, LockedSteps, GoingSteps
  <2>2. \A g \in Attempts : g # h => at'[g] = at[g] /\ err'[g] = err[g]
    BY <1>0, <1>4 DEF Ordinary, GoesOn, EndsRoute, Goto
  <2>3. at[h] \notin {"idle", "claim", "mark"}
    BY <2>1 DEF LockedSteps, GoingSteps, ActiveSteps, CardSteps, EditSteps
  <2>4. at[h] = "farewell" => at'[h] = "mark" /\ (~err'[h] \/ errors' # errors)
    <3>1. CASE at[h] = "farewell"
      <4>1. EndsRoute(h)
        BY <1>4, <3>1 DEF Ordinary, GoesOn, ActiveSteps, CardSteps, EditSteps
      <4> QED
        BY <1>0, <3>1, <4>1 DEF EndsRoute
    <3> QED
      BY <3>1
  <2> QED
    BY <1>d, <2>1, <2>2, <2>3, <2>4 DEF Working
<1>5. ASSUME NEW h \in Attempts, SetConsent(h) \/ BeginAccountDeletion(h)
      PROVE  TombInv'
  <2>1. NewStatus(h)
    BY <1>5, NewStatusMoves
  <2>2. UNCHANGED <<msg, cur, pm, err, errors, lapses, erasedBy>>
    BY <2>1 DEF NewStatus, local, faults
  <2>3. at[h] \in {"consent", "markDeleting"} /\ \A g \in Attempts : g # h => at'[g] = at[g]
    BY <1>0, <2>1 DEF NewStatus, Goto
  <2>4. CASE UNCHANGED reopenedBy
    BY <1>d, <2>2, <2>3, <2>4 DEF Working
  <2>5. CASE SetConsent(h)
    <3>1. reopenedBy' = reopenedBy \cup ({cur[h]} \cap erasedBy) /\ at[h] = "consent"
      BY <2>5 DEF SetConsent
    <3>2. Working(h) /\ Mine(h)
      BY <3>1 DEF OwnedInv, LockedSteps, Working
    <3>3. errors + lapses = 0 => cur[h] \notin erasedBy
      BY <3>1, <3>2 DEF TombInv
    <3>4. CASE errors + lapses = 0
      BY <2>4, <3>1, <3>3, <3>4
    <3>5. CASE errors + lapses # 0
      BY <2>2, <3>5 DEF TombInv
    <3> QED
      BY <3>4, <3>5
  <2>6. CASE BeginAccountDeletion(h)
    BY <2>4, <2>6 DEF BeginAccountDeletion, Silent, deeds
  <2> QED
    BY <1>5, <2>5, <2>6
<1>6. ASSUME NEW h \in Attempts, Purges(h)
      PROVE  TombInv'
  <2>1. /\ at[h] = "purge" /\ at' = [at EXCEPT ![h] = "farewell"] /\ UNCHANGED <<cur, pm, err, errors, lapses, reopenedBy>>
        /\ Mine(h) /\ erasedBy' = erasedBy \cup {cur[h]}
    BY <1>6 DEF Purges, Goto, local, faults
  <2>2. Working(h) /\ at'[h] = "farewell" /\ (\A g \in Attempts : g # h => at'[g] = at[g]) /\ who[h] \in Users
    <3>1. who[h] \in Users
      BY <2>1 DEF CoreInv, LockInv, LockedSteps, GoingSteps
    <3> QED
      BY <1>0, <2>1, <3>1 DEF Working
  <2>3. ASSUME errors + lapses = 0, NEW m \in erasedBy, m # cur[h]
        PROVE  msg'[m] = msg[m]
    <3>1. ~Purged(m, h)
      BY <2>2, <2>3 DEF TombInv, Purged, Users, NoUser
    <3> QED
      BY <1>0, <1>6, <2>3, <3>1, PurgedRows
  <2>4. ASSUME errors + lapses = 0, NEW g \in Attempts, Working(g)', Mine(g)', cur'[g] \in erasedBy'
        PROVE  at'[g] = "farewell" \/ (at'[g] = "mark" /\ ~err'[g])
    <3>1. cur[g] \in Messages /\ cur'[g] = cur[g] /\ msg'[cur[g]].status # "none" /\ msg'[cur[g]].id = pm[g]
      BY <1>0, <2>1, <2>4 DEF Mine, Row
    <3>2. CASE cur[g] = cur[h]
      <4>1. Mine(g)
        <5>1. msg[cur[g]].id = pm[g]
          BY <1>6, <3>1, PurgedRows
        <5> QED
          BY <2>1, <3>2, <5>1 DEF Mine
      <4>2. Working(g) /\ lapses = 0
        BY <1>0, <2>2, <2>4 DEF Working
      <4>3. g = h
        BY <2>1, <2>2, <3>2, <4>1, <4>2 DEF ClaimInv
      <4> QED
        BY <2>2, <4>3
    <3>3. CASE cur[g] # cur[h]
      <4>1. cur[g] \in erasedBy /\ g # h /\ at'[g] = at[g] /\ Working(g) /\ msg'[cur[g]] = msg[cur[g]] /\ err'[g] = err[g]
        BY <2>1, <2>2, <2>3, <2>4, <3>1, <3>3 DEF Working
      <4>2. Mine(g)
        BY <3>1, <4>1 DEF Mine, Row
      <4> QED
        BY <2>4, <4>1, <4>2 DEF TombInv
    <3> QED
      BY <3>2, <3>3
  <2>5. msg'[cur[h]].status = "processed" /\ msg'[cur[h]].owner = NoUser /\ msg'[cur[h]].raw = "none"
    BY <1>6, PurgedRows
  <2> QED
    BY <2>1, <2>3, <2>4, <2>5 DEF TombInv
<1>7. CASE (\E u \in Users : PendingExpires(u)) \/ WorkerStep \/ UNCHANGED vars
  <2>1. UNCHANGED <<msg, cur, pm, at, err, errors, lapses, erasedBy, reopenedBy>>
    BY <1>7 DEF PendingExpires, WorkerStep, FinalizeReceiptReview, SendReviewCard, vars,
       inboundVars, local, faults,
       chatVars, deeds
  <2> QED
    BY <1>d, <2>1
<1> QED
  BY <1>1, <1>2, <1>3, <1>4, <1>5, <1>6, <1>7, StepKinds, OrdinaryMoves, PurgeMoves

(* However often the provider repeats the message that deleted an account,   *)
(* it never opens a new one (the tombstone of PurgeAccountData), unless a    *)
(* statement fails or an attempt outlives its lease.                         *)
THEOREM ErasureIsFinalSafe == Spec => []ErasureIsFinal
<1>1. ChatInit => ClaimInv /\ OwnedInv /\ TombInv
  <2> SUFFICES ASSUME ChatInit PROVE ClaimInv /\ OwnedInv /\ TombInv
    OBVIOUS
  <2>1. \A h \in Attempts : at[h] = "idle"
    BY DEF ChatInit, InboundInit
  <2>2. "idle" \notin LockedSteps
    BY DEF LockedSteps, ActiveSteps, GoingSteps, CardSteps, EditSteps
  <2>3. erasedBy = {} /\ reopenedBy = {}
    BY DEF ChatInit
  <2> QED
    BY <2>1, <2>2, <2>3, ClaimInit DEF OwnedInv, TombInv, Working
<1>2. CoreInv /\ ClaimInv /\ OwnedInv /\ TombInv /\ [Next]_vars => ClaimInv' /\ OwnedInv' /\ TombInv'
  BY ClaimStep, OwnedStep, TombStep
<1>3. TombInv => ErasureIsFinal
  BY DEF TombInv, ErasureIsFinal
<1> QED
  BY <1>1, <1>2, <1>3, ChatCoreSafe, PTL DEF Spec
=============================================================================
