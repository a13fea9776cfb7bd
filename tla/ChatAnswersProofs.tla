-------------------------- MODULE ChatAnswersProofs --------------------------
(* Proofs about what the sender gets to see: no message that the provider is  *)
(* told to forget is left without an answer, and an answer meets the question *)
(* that was last put.                                                         *)
EXTENDS ChatRecordsProofs

(* The key of the card of an entry as it stands. *)
CardKey(t) == [kind |-> "card", of |-> t, ver |-> tx[t].ver]

(* An outbound row answers the message it names, and names no later version  *)
(* of an entry than there is.                                                *)
KeysInv == \A k \in outbox : k.of \in answered /\ (k.kind = "card" => k.ver <= tx[k.of].ver)

(* A step under the lock has a notice to send until its last statement       *)
(* decides otherwise; a card it is about to send is that of its own message  *)
(* or new, unless it only repeats a card.                                    *)
Prepared(h) ==
  /\ at[h] \in ActiveSteps \cup {"consent"} => say[h].kind = "notice"
  /\ at[h] = "showAgain" => CardKey(pending[who[h]].tx) \notin outbox
  /\ at[h] = "reply" /\ say[h].kind = "card" =>
       say[h].tx = cur[h] \/ script[cur[h]] = "value" \/ CardKey(say[h].tx) \notin outbox

SaidInv == KeysInv /\ \A h \in Attempts : Prepared(h)

(* What a step under the lock that sends nothing says and writes. *)
Quiet(h) ==
  /\ UNCHANGED <<outbox, answered>>
  /\ \A t \in Messages : tx[t].ver <= tx'[t].ver
  /\ at'[h] \in ActiveSteps => say'[h].kind = "notice"
  /\ at'[h] = "reply" /\ say'[h].kind = "card" =>
       \/ say'[h].tx = cur[h]
       \/ at[h] = "showAgain" /\ say'[h].tx = pending[who[h]].tx /\ UNCHANGED tx
  /\ at'[h] = "showAgain" =>
       tx[pending'[who[h]].tx].ver < tx'[pending'[who[h]].tx].ver

LEMMA CardQuiet ==
  ASSUME CoreInv, NEW h \in Attempts, CardStep(h), say[h].kind = "notice"
  PROVE  Quiet(h)
<1> USE DEF Then, Goto, Silent, inboundRows, records, memory, speech, deeds, ReplyWith, Question
<1>0. /\ tx \in [Messages -> Entry] /\ at \in [Attempts -> ChatSteps] /\ say \in [Attempts -> Saying]
      /\ cur[h] \in Messages
  BY DEF CoreInv, ChatTypeOK, InboundTypeOK, RecordsTypeOK, SpeechTypeOK
<1>a. \A m \in Messages : tx[m].ver \in Nat
  BY <1>0 DEF Entry
<1>b. ASSUME UNCHANGED <<outbox, answered, say>>, \A t \in Messages : tx[t].ver <= tx'[t].ver,
             at'[h] # "showAgain"
      PROVE  Quiet(h)
  BY <1>b DEF Quiet
<1>c. UNCHANGED tx => \A t \in Messages : tx[t].ver <= tx'[t].ver
  BY <1>a
<1>1. CASE ConfirmTransaction(h) \/ DiscardTransaction(h)
  <2> DEFINE t == pending[who[h]].tx
  <2>1. PICK s \in {"confirmed", "deleted"} : tx' = [tx EXCEPT ![t].status = s, ![t].ver = @ + 1]
    BY <1>1 DEF ConfirmTransaction, DiscardTransaction, SoftDelete
  <2>2. UNCHANGED <<outbox, answered, say>> /\ \E n \in {"settle", "clear"} : at' = [at EXCEPT ![h] = n]
    BY <1>1 DEF ConfirmTransaction, DiscardTransaction, SoftDelete
  <2> HIDE DEF t
  <2>3. \A m \in Messages : tx[m].ver <= tx'[m].ver
    BY <1>0, <1>a, <2>1 DEF Entry
  <2> QED BY <1>0, <1>b, <2>2, <2>3
<1>2. CASE SettleReceipt(h) \/ DiscardReceipt(h) \/ RejectEdit(h) \/ ResolveMerchant(h)
           \/ AddMerchantAlias(h) \/ Learn(h)
  <2>1. UNCHANGED <<outbox, answered, say, tx>>
    BY <1>2 DEF SettleReceipt, DiscardReceipt, RejectEdit, ResolveMerchant, AddMerchantAlias, Learn
  <2>2. \E s \in {"learn", "clear", "softDelete", "reply", "draft", "alias"} : at' = [at EXCEPT ![h] = s]
    BY <1>2 DEF SettleReceipt, DiscardReceipt, RejectEdit, ResolveMerchant, AddMerchantAlias, Learn
  <2> QED BY <1>0, <1>b, <1>c, <2>1, <2>2
<1>3. CASE AskEdit(h)
  <2>1. /\ UNCHANGED <<outbox, answered, tx>> /\ at' = [at EXCEPT ![h] = "reply"]
        /\ say' = [say EXCEPT ![h] = [kind |-> "edit", tx |-> pending[who[h]].tx]]
    BY <1>3 DEF AskEdit
  <2> QED BY <1>0, <1>c, <2>1 DEF Quiet, ActiveSteps, CardSteps, EditSteps
<1>4. CASE ApplyEdit(h)
  <2> DEFINE t == pending[who[h]].tx
  <2>1. PICK c \in {tx[t].category, "other"} : tx' = [tx EXCEPT ![t].ver = @ + 1, ![t].category = c]
    BY <1>4, Zenon DEF ApplyEdit
  <2>2. UNCHANGED <<outbox, answered, say, pending>> /\ at' = [at EXCEPT ![h] = "showAgain"]
    BY <1>4 DEF ApplyEdit
  <2>3. t \in Messages
    BY <1>4, SubjectKnown DEF ApplyEdit, EditSteps
  <2>4. pending'[who[h]].tx = t
    BY <2>2
  <2> HIDE DEF t
  <2>5. \A m \in Messages : tx[m].ver <= tx'[m].ver
    BY <1>0, <1>a, <2>1 DEF Entry
  <2>6. tx[t].ver < tx'[t].ver
    BY <1>0, <1>a, <2>1, <2>3 DEF Entry
  <2> QED BY <1>0, <2>2, <2>4, <2>5, <2>6 DEF Quiet
<1>5. CASE ShowAgain(h)
  <2>1. /\ UNCHANGED <<outbox, answered, tx>> /\ at' = [at EXCEPT ![h] = "reply"] /\ at[h] = "showAgain"
        /\ say' = [say EXCEPT ![h] = [kind |-> "card", tx |-> pending[who[h]].tx]]
    BY <1>5 DEF ShowAgain
  <2> QED BY <1>0, <1>c, <2>1 DEF Quiet, ActiveSteps, CardSteps, EditSteps
<1>6. CASE CreateManualDraft(h)
  <2>1. /\ tx' = tx \/ tx' = [tx EXCEPT ![cur[h]] = Draft(cur[h], who[h])]
        /\ UNCHANGED <<outbox, answered>> /\ at' = [at EXCEPT ![h] = "reply"]
        /\ say' = [say EXCEPT ![h] = [kind |-> "card", tx |-> cur[h]]]
    BY <1>6 DEF CreateManualDraft
  <2>2. Draft(cur[h], who[h]).ver = tx[cur[h]].ver + 1
    BY DEF Draft
  <2>3. \A m \in Messages : tx[m].ver <= tx'[m].ver
    BY <1>0, <1>a, <2>1, <2>2
  <2> QED BY <1>0, <2>1, <2>3 DEF Quiet, ActiveSteps, CardSteps, EditSteps
<1>7. CASE RejectEntry(h)
  <2>1. UNCHANGED <<outbox, answered, say, tx>> /\ at' = [at EXCEPT ![h] = "mark"]
    BY <1>7 DEF RejectEntry, Leave, EndRoute
  <2> QED BY <1>0, <1>b, <1>c, <2>1
<1> QED BY <1>1, <1>2, <1>3, <1>4, <1>5, <1>6, <1>7 DEF CardStep

(* The other steps under the lock that send nothing. *)
LEMMA OtherQuiet ==
  ASSUME CoreInv, NEW h \in Attempts, OrdinaryStep(h),
         ~(CardStep(h) \/ Reply(h) \/ DeletionConfirmation(h)),
         at[h] \in ActiveSteps => say[h].kind = "notice"
  PROVE  Quiet(h)
<1> USE DEF Then, Goto, Silent, inboundRows, records, memory, speech, deeds, ReplyWith, Question
<1>0. /\ tx \in [Messages -> Entry] /\ at \in [Attempts -> ChatSteps] /\ say \in [Attempts -> Saying]
      /\ cur[h] \in Messages
  BY DEF CoreInv, ChatTypeOK, InboundTypeOK, RecordsTypeOK, SpeechTypeOK
<1>a. \A m \in Messages : tx[m].ver \in Nat
  BY <1>0 DEF Entry
<1>b. UNCHANGED tx => \A t \in Messages : tx[t].ver <= tx'[t].ver
  BY <1>a
<1>c. ASSUME UNCHANGED <<outbox, answered, say>>, \A t \in Messages : tx[t].ver <= tx'[t].ver,
             at'[h] # "showAgain", at'[h] \in ActiveSteps \cup {"reply"} => at[h] \in ActiveSteps
      PROVE  Quiet(h)
  BY <1>c DEF Quiet
<1>1. CASE ImageStep(h)
  <2>1. UNCHANGED <<outbox, answered, say, tx>>
    BY <1>1 DEF ImageStep, RegisterImage, IncrementUsage, RefuseImage, QueueImage, TransitionReceipt,
       EnqueueReceiptJob, DeleteReceivedReceipt
  <2>2. at[h] \in {"register", "charge", "refuse", "queue", "enqueue", "unregister"}
    BY <1>1 DEF ImageStep, RegisterImage, IncrementUsage, RefuseImage, QueueImage, TransitionReceipt,
       EnqueueReceiptJob, DeleteReceivedReceipt
  <2>3. at'[h] # "showAgain"
    BY <1>0, <1>1 DEF ImageStep, RegisterImage, AfterRegister, IncrementUsage, RefuseImage, QueueImage,
       TransitionReceipt, EnqueueReceiptJob, DeleteReceivedReceipt, Leave, EndRoute
  <2> QED BY <1>b, <1>c, <2>1, <2>2, <2>3 DEF ActiveSteps
<1>2. CASE AskDeleteRecent(h)
  <2>1. /\ UNCHANGED <<outbox, answered, tx>> /\ at' = [at EXCEPT ![h] = "reply"]
        /\ at[h] = "askDeleteRecent"
        /\ say' = say \/ \E t : say' = [say EXCEPT ![h] = [kind |-> "delrecent", tx |-> t]]
    BY <1>2 DEF AskDeleteRecent
  <2> QED BY <1>0, <1>b, <2>1 DEF Quiet, ActiveSteps, CardSteps, EditSteps
<1>3. CASE DeleteRecent(h)
  <2> DEFINE t == pending[who[h]].tx
  <2>1. /\ tx' = [tx EXCEPT ![t].status = "deleted", ![t].ver = @ + 1] /\ at[h] = "deleteRecent"
        /\ UNCHANGED <<outbox, answered, say>> /\ at' = [at EXCEPT ![h] = "clear"]
    BY <1>3 DEF DeleteRecent, SoftDelete
  <2> HIDE DEF t
  <2>2. \A m \in Messages : tx[m].ver <= tx'[m].ver
    BY <1>0, <1>a, <2>1 DEF Entry
  <2> QED BY <1>0, <1>c, <2>1, <2>2 DEF ActiveSteps
<1>4. CASE Recategorise(h)
  <2>0. at[h] = "recategorise" /\ UNCHANGED <<outbox, answered>>
    BY <1>4, Zenon DEF Recategorise
  <2>1. CASE UNCHANGED <<tx, say>> /\ at' = [at EXCEPT ![h] = "reply"]
    BY <1>0, <1>b, <1>c, <2>0, <2>1 DEF ActiveSteps
  <2>2. ASSUME NEW t \in Messages, NEW c \in Categories,
               tx' = [tx EXCEPT ![t].status = "amended", ![t].ver = @ + 1, ![t].category = c],
               say' = [say EXCEPT ![h] = [kind |-> "notice", tx |-> t]],
               at' = [at EXCEPT ![h] = "relearn"]
        PROVE  Quiet(h)
    <3>1. \A m \in Messages : tx[m].ver <= tx'[m].ver
      <4> DEFINE f == [tx EXCEPT ![t].status = "amended", ![t].ver = @ + 1]
      <4>1. \A m \in Messages : tx[m].ver <= f[m].ver
        BY <1>0, <1>a DEF Entry
      <4>2. f \in [Messages -> Entry]
        BY <1>0, SettledEntry DEF TxStatus
      <4>3. tx' = [f EXCEPT ![t].category = c]
        BY <2>2
      <4> HIDE DEF f
      <4>4. \A m \in Messages : tx'[m].ver = f[m].ver
        BY <4>2, <4>3 DEF Entry
      <4> QED BY <4>1, <4>4
    <3> QED BY <1>0, <2>0, <2>2, <3>1 DEF Quiet
  <2>3. \/ UNCHANGED <<tx, say>> /\ at' = [at EXCEPT ![h] = "reply"]
        \/ \E t \in Messages, c \in Categories :
             /\ tx' = [tx EXCEPT ![t].status = "amended", ![t].ver = @ + 1, ![t].category = c]
             /\ say' = [say EXCEPT ![h] = [kind |-> "notice", tx |-> t]]
             /\ at' = [at EXCEPT ![h] = "relearn"]
    BY <1>4, Zenon DEF Recategorise, Confirmed
  <2> QED BY <2>1, <2>2, <2>3, Zenon
<1>5. CASE DeleteRecentRefused(h)
  BY <1>0, <1>5, <1>b, <1>c DEF DeleteRecentRefused, Leave, EndRoute, ActiveSteps, CardSteps, EditSteps
<1>6. CASE PersistInsight(h) \/ WriteExport(h) \/ ClearPendingAction(h)
  <2>1. /\ UNCHANGED <<outbox, answered, say, tx>> /\ at[h] \in {"persist", "export", "clear"}
        /\ at' = [at EXCEPT ![h] = "reply"]
    BY <1>6 DEF PersistInsight, WriteExport, ClearPendingAction
  <2> QED BY <1>0, <1>b, <1>c, <2>1 DEF ActiveSteps
<1>7. CASE AskDelete(h)
  <2>1. /\ UNCHANGED <<outbox, answered, tx>> /\ at' = [at EXCEPT ![h] = "reply"]
        /\ say' = [say EXCEPT ![h] = [kind |-> "delaccount", tx |-> 0]]
    BY <1>7 DEF AskDelete
  <2> QED BY <1>0, <1>b, <2>1 DEF Quiet, ActiveSteps, CardSteps, EditSteps
<1>8. CASE RemoveExportArtifacts(h)
  <2>1. UNCHANGED <<outbox, answered, say, tx>> /\ at' = [at EXCEPT ![h] = "purge"]
    BY <1>8 DEF RemoveExportArtifacts
  <2> QED BY <1>0, <1>b, <1>c, <2>1 DEF ActiveSteps, CardSteps, EditSteps
<1>9. CASE LockedStatementFails(h)
  <2>1. UNCHANGED <<outbox, answered, say, tx>>
    BY <1>9 DEF LockedStatementFails
  <2>2. \/ at'[h] = "mark"
        \/ /\ at[h] \in {"charge", "settle", "learn", "relearn", "persist", "clear"}
           /\ at'[h] \in {"unregister", "learn", "clear", "reply"}
    BY <1>0, <1>9 DEF LockedStatementFails, EndRoute
  <2> QED BY <1>b, <1>c, <2>1, <2>2 DEF ActiveSteps, CardSteps, EditSteps
<1> QED BY <1>1, <1>2, <1>3, <1>4, <1>5, <1>6, <1>7, <1>8, <1>9 DEF OrdinaryStep, EntryStep

-----------------------------------------------------------------------------
LEMMA KeyShape ==
  ASSUME NEW q, NEW m
  PROVE  /\ q.kind = "card" => Key(q, m) = CardKey(q.tx)
         /\ q.kind # "card" => Key(q, m) = [kind |-> q.kind, of |-> m, ver |-> 0]
         /\ Key(q, m).kind = q.kind
<1>1. CASE q.kind = "card"
  BY <1>1 DEF Key, CardKey
<1>2. CASE q.kind # "card"
  BY <1>2 DEF Key
<1> QED BY <1>1, <1>2

(* A new outbound row answers the message it names. *)
LEMMA EnqueuedKeys ==
  ASSUME CoreInv, KeysInv, NEW q \in Saying, NEW m \in Messages, Enqueue(q, m), UNCHANGED tx
  PROVE  KeysInv'
<1> DEFINE key == Key(q, m)
<1>1. outbox' = outbox \cup {key} /\ answered \subseteq answered' /\ (key \in outbox \/ key.of \in answered')
  BY DEF Enqueue
<1>2. key.kind = "card" => key.of \in Messages /\ key.ver = tx[key.of].ver /\ key.ver \in Nat
  <2>1. key.kind = "card" => q.kind = "card" /\ key = CardKey(q.tx)
    BY KeyShape
  <2>2. q.kind = "card" => q.tx \in Messages
    BY DEF Saying, About
  <2>3. q.kind = "card" => tx[q.tx].ver \in Nat
    BY <2>2 DEF CoreInv, ChatTypeOK, RecordsTypeOK, Entry
  <2>4. CardKey(q.tx).of = q.tx /\ CardKey(q.tx).ver = tx[q.tx].ver
    BY DEF CardKey
  <2> HIDE DEF key
  <2> QED BY <2>1, <2>2, <2>3, <2>4
<1> HIDE DEF key
<1>3. key \in outbox' => key.of \in answered' /\ (key.kind = "card" => key.ver <= tx'[key.of].ver)
  <2>1. \A n \in Nat : n <= n
    OBVIOUS
  <2>2. key.kind = "card" => key.ver <= tx'[key.of].ver
    BY <1>2, <2>1
  <2>3. key.of \in answered'
    BY <1>1 DEF KeysInv
  <2> QED BY <2>2, <2>3
<1> QED BY <1>1, <1>3 DEF KeysInv

(* Only the value of an edit makes a card be shown again at once, and no     *)
(* message leads straight to the end of an edit.                             *)
LEMMA RoutedReply ==
  ASSUME CoreInv, NEW u \in Users, NEW m \in DOMAIN script, users[u] \in {"pending", "active", "suspended"}
  PROVE  /\ RouteStep(m, u) # "showAgain"
         /\ RouteStep(m, u) = "reshow" => script[m] = "value"
<1>1. script[m] \in Contents
  BY DEF CoreInv, ChatTypeOK, InboundTypeOK
<1>2. Open(u).kind \in About \cup {"none", "delaccount"}
  BY DEF CoreInv, ChatTypeOK, RecordsTypeOK, Open, PendingRow, NoPending, About
<1>3. FreshStep(script[m]) \notin {"showAgain", "reshow"}
  BY <1>1 DEF FreshStep
<1>4. /\ ConfirmStep(script[m], Open(u).tx) # "showAgain"
      /\ ConfirmStep(script[m], Open(u).tx) = "reshow" => script[m] = "value"
  BY <1>1, <1>3 DEF ConfirmStep
<1>5. \/ TextStep(script[m], Open(u)) \in {FreshStep(script[m]), "clear", "markDeleting"}
      \/ TextStep(script[m], Open(u)) = ConfirmStep(script[m], Open(u).tx) /\ Open(u).kind = "card"
      \/ TextStep(script[m], Open(u)) = "applyEdit" /\ Open(u).kind = "edit"
      \/ TextStep(script[m], Open(u)) = "deleteRecent" /\ Open(u).kind = "delrecent"
  BY <1>2, AnsweredStep
<1>6. RouteStep(m, u) \in {"reply", "consent", "register", TextStep(script[m], Open(u))}
  <2>1. CASE ~allowed \/ users[u] = "suspended"
    BY <2>1 DEF RouteStep
  <2>2. CASE allowed /\ users[u] = "pending"
    BY <2>2 DEF RouteStep, ConsentStep
  <2>3. CASE allowed /\ users[u] = "active"
    <3>1. RouteStep(m, u) = ActiveStep(script[m], Open(u))
      BY <2>3 DEF RouteStep
    <3>2. ActiveStep(script[m], Open(u)) \in {"register", "reply", TextStep(script[m], Open(u))}
      BY DEF ActiveStep
    <3> QED BY <3>1, <3>2
  <2> QED BY <2>1, <2>2, <2>3
<1> HIDE DEF RouteStep, TextStep, ConfirmStep, FreshStep, Open
<1> QED BY <1>3, <1>4, <1>5, <1>6

(* A step under the lock concerns no other attempt under a lock, since only  *)
(* a farewell can be.                                                        *)
LEMMA OthersPrepared ==
  ASSUME CoreInv, NEW h \in Attempts, at[h] \in LockedSteps, at[h] # "farewell",
         NEW g \in Attempts, g # h, at'[g] = at[g]
  PROVE  Prepared(g)'
<1>1. at'[g] \notin LockedSteps \/ at'[g] = "farewell"
  BY LoneHolder
<1>2. at'[g] \notin ActiveSteps \cup {"consent", "showAgain", "reply"}
  BY <1>1 DEF LockedSteps, ActiveSteps, CardSteps, EditSteps
<1> QED BY <1>2 DEF Prepared

LEMMA SaidQuiet ==
  ASSUME CoreInv, CoreInv', SaidInv, NEW h \in Attempts, Ordinary(h), at[h] # "farewell", Quiet(h)
  PROVE  SaidInv'
<1>0. /\ at[h] \in LockedSteps /\ at'[h] # "consent"
      /\ \A g \in Attempts : g # h => at'[g] = at[g]
  BY DEF Ordinary, GoesOn, EndsRoute, Goto, CoreInv, ChatTypeOK, InboundTypeOK, LockedSteps, GoingSteps,
     ActiveSteps, CardSteps, EditSteps
<1>1. UNCHANGED <<cur, who, script>>
  BY DEF Ordinary, setting
<1>2. outbox \subseteq OutKey /\ \A t \in Messages : tx[t].ver \in Nat /\ tx'[t].ver \in Nat
  BY DEF CoreInv, ChatTypeOK, RecordsTypeOK, SpeechTypeOK, Entry
<1>3. /\ UNCHANGED <<outbox, answered>>
      /\ \A t \in Messages : tx[t].ver <= tx'[t].ver
  BY DEF Quiet
<1>4. KeysInv'
  <2>1. \A k \in outbox : k.of \in Messages /\ k.ver \in Nat
    BY <1>2 DEF OutKey
  <2>2. \A a, b, c \in Nat : a <= b /\ b <= c => a <= c
    OBVIOUS
  <2>3. \A k \in outbox : k.kind = "card" => k.ver <= tx'[k.of].ver
    BY <1>2, <1>3, <2>1, <2>2 DEF SaidInv, KeysInv
  <2> QED BY <1>3, <2>3 DEF SaidInv, KeysInv
<1>5. Prepared(h)'
  <2>1. at'[h] \in ActiveSteps \cup {"consent"} => say'[h].kind = "notice"
    BY <1>0 DEF Quiet
  <2>2. at'[h] = "showAgain" => CardKey(pending[who[h]].tx)' \notin outbox'
    <3> SUFFICES ASSUME at'[h] = "showAgain", CardKey(pending[who[h]].tx)' \in outbox'
                 PROVE  FALSE
      OBVIOUS
    <3> DEFINE t == pending'[who[h]].tx
               key == CardKey(pending[who[h]].tx)'
    <3>1. key = [kind |-> "card", of |-> t, ver |-> tx'[t].ver] /\ key \in outbox
      BY <1>1, <1>3 DEF CardKey
    <3>2. key.kind = "card" /\ key.of = t /\ key.ver = tx'[t].ver
      BY <3>1
    <3>3. t \in Messages
      BY <1>2, <3>1, <3>2 DEF OutKey
    <3>4. tx[t].ver < tx'[t].ver
      BY DEF Quiet
    <3>5. tx'[t].ver <= tx[t].ver
      BY <3>1, <3>2 DEF SaidInv, KeysInv
    <3>6. tx[t].ver \in Nat /\ tx'[t].ver \in Nat
      BY <1>2, <3>3
    <3> HIDE DEF t
    <3> QED BY <3>4, <3>5, <3>6
  <2>3. at'[h] = "reply" /\ say'[h].kind = "card" =>
          say'[h].tx = cur[h] \/ CardKey(say[h].tx)' \notin outbox'
    <3> SUFFICES ASSUME at'[h] = "reply", say'[h].kind = "card", at[h] = "showAgain",
                        say'[h].tx = pending[who[h]].tx, UNCHANGED tx
                 PROVE  CardKey(say[h].tx)' \notin outbox'
      BY DEF Quiet
    <3>1. CardKey(say[h].tx)' = CardKey(pending[who[h]].tx)
      BY DEF CardKey
    <3>2. CardKey(pending[who[h]].tx) \notin outbox
      BY DEF SaidInv, Prepared
    <3> QED BY <1>3, <3>1, <3>2
  <2> QED BY <1>1, <2>1, <2>2, <2>3 DEF Prepared
<1>6. \A g \in Attempts : g # h => Prepared(g)'
  BY <1>0, OthersPrepared
<1> QED BY <1>4, <1>5, <1>6 DEF SaidInv

(* A step that neither replies nor says farewell is one of these; at a reply *)
(* or a farewell it is a statement that failed.                              *)
LEMMA QuietMoves ==
  ASSUME CoreInv, SaidInv, NEW h \in Attempts, OrdinaryStep(h), ~Reply(h), ~DeletionConfirmation(h)
  PROVE  Quiet(h) /\ (at[h] \in {"reply", "farewell"} => errors' # errors)
<1>1. at[h] \in ActiveSteps => say[h].kind = "notice"
  BY DEF SaidInv, Prepared
<1>2. CardStep(h) => at[h] \in CardSteps \cup EditSteps \cup {"draft", "catalogue", "alias", "relearn", "reject"}
  BY Zenon DEF CardStep, ConfirmTransaction, SettleReceipt, DiscardReceipt, DiscardTransaction, SoftDelete,
     AskEdit, ApplyEdit, RejectEdit, ShowAgain, CreateManualDraft, ResolveMerchant, AddMerchantAlias,
     Learn, RejectEntry, CardSteps, EditSteps
<1>3. CardStep(h) => at[h] \in ActiveSteps
  BY <1>2 DEF ActiveSteps
<1>4. Quiet(h)
  BY <1>1, <1>3, CardQuiet, OtherQuiet
<1>5. ImageStep(h) => at[h] \notin {"reply", "farewell"}
  BY DEF ImageStep, RegisterImage, IncrementUsage, RefuseImage, QueueImage, TransitionReceipt,
     EnqueueReceiptJob, DeleteReceivedReceipt
<1>6. EntryStep(h) \/ ClearPendingAction(h) \/ AskDelete(h) \/ RemoveExportArtifacts(h)
        => at[h] \notin {"reply", "farewell"}
  BY DEF EntryStep, AskDeleteRecent, DeleteRecent, SoftDelete, DeleteRecentRefused, Recategorise,
     PersistInsight, WriteExport, ClearPendingAction, AskDelete, RemoveExportArtifacts
<1>7. LockedStatementFails(h) => errors' # errors
  BY DEF LockedStatementFails, CoreInv, ChatTypeOK, InboundTypeOK
<1>8. CardStep(h) => at[h] \notin {"reply", "farewell"}
  BY <1>2 DEF CardSteps, EditSteps
<1> QED BY <1>4, <1>5, <1>6, <1>7, <1>8 DEF OrdinaryStep

(* Nothing that an attempt relies on has changed. *)
LEMMA StillPrepared ==
  ASSUME NEW g \in Attempts, Prepared(g), UNCHANGED <<tx, outbox, script>>,
         at'[g] = at[g], cur'[g] = cur[g], who'[g] = who[g], say'[g] = say[g],
         at[g] = "showAgain" => pending'[who[g]].tx = pending[who[g]].tx
  PROVE  Prepared(g)'
<1>1. at[g] = "showAgain" => CardKey(pending[who[g]].tx)' = CardKey(pending[who[g]].tx)
  BY DEF CardKey
<1>2. CardKey(say[g].tx)' = CardKey(say[g].tx)
  BY DEF CardKey
<1> QED BY <1>1, <1>2 DEF Prepared

LEMMA SaidStep ==
  ASSUME CoreInv, CoreInv', SaidInv, [Next]_vars
  PROVE  SaidInv'
<1>0. /\ at \in [Attempts -> ChatSteps] /\ say \in [Attempts -> Saying] /\ cur \in [Attempts -> Messages]
      /\ pending \in [Users -> PendingRow]
  BY DEF CoreInv, ChatTypeOK, InboundTypeOK, RecordsTypeOK, SpeechTypeOK
<1>1. ASSUME NEW m \in Messages, Quarantine(m) \/ ClaimExpires(m) \/ ClaimOutlived(m) \/ DeleteExpiredTombstone(m), UNCHANGED chatVars
      PROVE  SaidInv'
  <2>1. UNCHANGED <<tx, outbox, answered, say, pending, at, cur, who, script>>
    BY <1>1 DEF Quarantine, ClaimExpires, ClaimOutlived, DeleteExpiredTombstone, local, setting, chatVars, records, speech, deeds
  <2> QED BY <2>1, StillPrepared DEF SaidInv, KeysInv
<1>2. ASSUME NEW h \in Attempts, OutsideStep(h), UNCHANGED chatVars
      PROVE  SaidInv'
  <2>1. UNCHANGED <<tx, outbox, answered, say, pending>>
    BY <1>2 DEF chatVars, records, speech, deeds
  <2>2. Outside(h)
    BY <1>2, OutsideMoves
  <2>3. /\ UNCHANGED script /\ at'[h] \in OpenSteps
        /\ \A g \in Attempts : g # h => at'[g] = at[g] /\ cur'[g] = cur[g] /\ who'[g] = who[g]
    BY <1>0, <2>2 DEF Outside, Goto, setting
  <2>4. Prepared(h)'
    BY <2>3 DEF Prepared, OpenSteps, ActiveSteps, CardSteps, EditSteps
  <2> QED BY <2>1, <2>3, <2>4, StillPrepared DEF SaidInv, KeysInv
<1>3. ASSUME NEW h \in Attempts, Enter(h)
      PROVE  SaidInv'
  <2>1. /\ at[h] = "enter" /\ who[h] \in Users /\ cur[h] \in DOMAIN script
        /\ Enters(h) \/ PassesBy(h)
        /\ UNCHANGED <<script, cur, who, tx, outbox, answered>>
    BY <1>3, EnterMoves DEF setting, speech, deeds
  <2>2. /\ \A g \in Attempts : g # h => at'[g] = at[g] /\ say'[g] = say[g]
        /\ \A u \in Users : u # who[h] => pending'[u] = pending[u]
    BY <1>0, <2>1 DEF Enters, PassesBy, Goto
  <2>3. ASSUME NEW g \in Attempts, g # h, at[g] = "showAgain" PROVE pending'[who[g]] = pending[who[g]]
    <3>1. who[g] \in Users /\ lock[who[g]] = g
      BY <2>3 DEF CoreInv, LockInv, LockedSteps, ActiveSteps, EditSteps
    <3>2. who[g] # who[h] \/ pending' = pending
      BY <2>1, <3>1, NobodyIsNoAttempt DEF Enters, PassesBy
    <3> QED BY <2>2, <3>1, <3>2
  <2>4. Prepared(h)'
    <3>1. CASE PassesBy(h)
      BY <1>0, <3>1 DEF PassesBy, Prepared, ActiveSteps, CardSteps, EditSteps
    <3>2. CASE Enters(h)
      <4> DEFINE step == RouteStep(cur[h], who[h])
      <4>1. users[who[h]] \in {"pending", "active", "suspended"}
        BY <3>2 DEF Enters
      <4>2. /\ at' = [at EXCEPT ![h] = IF step = "reshow" THEN "reply" ELSE step]
            /\ say' = [say EXCEPT ![h] = IF step = "reshow" THEN Question("card", pending[who[h]].tx)
                                         ELSE Notice]
        BY <1>3, <4>1 DEF Enter, Gone, Goto
      <4>3. step # "showAgain" /\ (step = "reshow" => script[cur[h]] = "value")
        BY <2>1, <4>1, RoutedReply
      <4> HIDE DEF step
      <4>4. CASE step = "reshow"
        BY <1>0, <2>1, <4>2, <4>3, <4>4 DEF Prepared, ActiveSteps, CardSteps, EditSteps
      <4>5. CASE step # "reshow"
        <5>1. at'[h] = step /\ say'[h].kind = "notice"
          BY <1>0, <4>2, <4>5 DEF Notice
        <5> QED BY <4>3, <5>1 DEF Prepared
      <4> QED BY <4>4, <4>5
    <3> QED BY <2>1, <3>1, <3>2
  <2> QED BY <2>1, <2>2, <2>3, <2>4, StillPrepared DEF SaidInv, KeysInv
<1>4. ASSUME NEW h \in Attempts, OrdinaryStep(h)
      PROVE  SaidInv'
  <2>0. Ordinary(h)
    BY <1>4, OrdinaryMoves
  <2>1. /\ UNCHANGED <<cur, who, script>>
        /\ \A g \in Attempts : g # h => at'[g] = at[g] /\ say'[g] = say[g]
    BY <1>0, <2>0 DEF Ordinary, GoesOn, EndsRoute, Goto, OwnRowsOnly, setting
  <2>2. CASE Reply(h)
    <3>1. at[h] = "reply" /\ at'[h] = "mark" /\ Enqueue(say[h], cur[h]) /\ UNCHANGED tx
      BY <1>0, <2>2 DEF Reply, Leave, EndRoute, Goto, records
    <3>2. KeysInv'
      BY <1>0, <3>1, EnqueuedKeys DEF SaidInv
    <3>3. Prepared(h)'
      BY <3>1 DEF Prepared, ActiveSteps, CardSteps, EditSteps
    <3>4. \A g \in Attempts : g # h => Prepared(g)'
      BY <2>1, <3>1, OthersPrepared DEF LockedSteps
    <3> QED BY <3>2, <3>3, <3>4 DEF SaidInv
  <2>3. CASE DeletionConfirmation(h)
    <3>1. at[h] = "farewell" /\ at'[h] = "mark" /\ Enqueue(Notice, cur[h]) /\ UNCHANGED <<tx, pending>>
      BY <1>0, <2>3 DEF DeletionConfirmation, Leave, EndRoute, Goto, records
    <3>2. KeysInv'
      <4>1. Notice \in Saying
        BY DEF Notice, Saying, Subjects
      <4> QED BY <1>0, <3>1, <4>1, EnqueuedKeys DEF SaidInv
    <3>3. Prepared(h)'
      BY <3>1 DEF Prepared, ActiveSteps, CardSteps, EditSteps
    <3>4. \A t : CardKey(t)' = CardKey(t) /\ (CardKey(t) \in outbox' => CardKey(t) \in outbox)
      <4>1. outbox' = outbox \cup {Key(Notice, cur[h])} /\ Key(Notice, cur[h]).kind = "notice"
        BY <3>1, KeyShape DEF Enqueue, Notice
      <4>2. \A t : CardKey(t).kind = "card"
        BY DEF CardKey
      <4>3. \A t : CardKey(t)' = CardKey(t)
        BY <3>1 DEF CardKey
      <4> HIDE DEF CardKey, Key
      <4> QED BY <4>1, <4>2, <4>3
    <3>5. ASSUME NEW g \in Attempts, g # h PROVE Prepared(g)'
      <4>1. CardKey(pending[who[g]].tx)' = CardKey(pending[who[g]].tx) /\ CardKey(say[g].tx)' = CardKey(say[g].tx)
        BY <2>1, <3>1, <3>5 DEF CardKey
      <4>2. Prepared(g)
        BY DEF SaidInv
      <4>3. at'[g] = at[g] /\ say'[g] = say[g]
        BY <2>1, <3>5
      <4> HIDE DEF CardKey
      <4> QED BY <2>1, <3>4, <4>1, <4>2, <4>3 DEF Prepared
    <3> QED BY <3>2, <3>3, <3>5 DEF SaidInv
  <2>4. CASE ~Reply(h) /\ ~DeletionConfirmation(h)
    <3>3. Quiet(h)
      BY <1>4, <2>4, QuietMoves
    <3>4. CASE at[h] # "farewell"
      BY <2>0, <3>3, <3>4, SaidQuiet
    <3>5. CASE at[h] = "farewell"
      <4>1. UNCHANGED <<tx, outbox, answered, say, pending>> /\ at'[h] = "mark"
        BY <1>0, <2>0, <3>3, <3>5 DEF Ordinary, records, Quiet, GoesOn, EndsRoute, ActiveSteps, CardSteps, EditSteps
      <4>2. Prepared(h)'
        BY <4>1 DEF Prepared, ActiveSteps, CardSteps, EditSteps
      <4> QED BY <2>1, <4>1, <4>2, StillPrepared DEF SaidInv, KeysInv
    <3> QED BY <3>4, <3>5
  <2> QED BY <2>2, <2>3, <2>4
<1>5. ASSUME NEW h \in Attempts, SetConsent(h) \/ BeginAccountDeletion(h)
      PROVE  SaidInv'
  <2>1. NewStatus(h)
    BY <1>5, NewStatusMoves
  <2>2. UNCHANGED <<tx, outbox, answered, say, pending, cur, who, script>>
    BY <2>1 DEF NewStatus, setting, local, records, speech
  <2>3. /\ \/ at[h] = "consent" /\ at'[h] = "reply"
           \/ at[h] = "markDeleting" /\ at'[h] = "unexport"
        /\ \A g \in Attempts : g # h => at'[g] = at[g]
    BY <1>0, <2>1 DEF NewStatus, Goto
  <2>4. Prepared(h)'
    BY <2>2, <2>3 DEF SaidInv, Prepared, ActiveSteps, CardSteps, EditSteps
  <2> QED BY <2>2, <2>3, <2>4, StillPrepared DEF SaidInv, KeysInv
<1>6. ASSUME NEW h \in Attempts, PurgeAccountData(h)
      PROVE  SaidInv'
  <2>1. CASE Purges(h)
    <3>1. /\ outbox' = {} /\ UNCHANGED say /\ at'[h] = "farewell"
          /\ \A g \in Attempts : g # h => at'[g] = at[g]
      BY <1>0, <2>1 DEF Purges, Goto
    <3>2. \A g \in Attempts : Prepared(g)'
      BY <3>1 DEF SaidInv, Prepared, ActiveSteps, CardSteps, EditSteps
    <3> QED BY <3>1, <3>2 DEF SaidInv, KeysInv
  <2>2. CASE Ordinary(h) /\ EndsRoute(h) /\ at[h] = "purge" /\ UNCHANGED <<chatVars, errors>>
    <3>1. /\ UNCHANGED <<tx, outbox, answered, say, pending, cur, who, script>> /\ at'[h] = "mark"
          /\ \A g \in Attempts : g # h => at'[g] = at[g]
      BY <1>0, <2>2 DEF Ordinary, EndsRoute, chatVars, records, speech, deeds, setting
    <3>2. Prepared(h)'
      BY <3>1 DEF Prepared, ActiveSteps, CardSteps, EditSteps
    <3> QED BY <3>1, <3>2, StillPrepared DEF SaidInv, KeysInv
  <2> QED BY <1>6, <2>1, <2>2, PurgeMoves
<1>7. ASSUME NEW u \in Users, PendingExpires(u)
      PROVE  SaidInv'
  <2>1. /\ UNCHANGED <<tx, outbox, answered, say, at, cur, who, script>>
        /\ pending' = [pending EXCEPT ![u].expired = TRUE]
    BY <1>7 DEF PendingExpires, inboundVars, setting, local, speech, deeds
  <2>2. \A v \in Users : pending'[v].tx = pending[v].tx
    BY <1>0, <2>1 DEF PendingRow
  <2>3. \A g \in Attempts : at[g] = "showAgain" => who[g] \in Users
    BY DEF CoreInv, LockInv, LockedSteps, ActiveSteps, EditSteps
  <2> QED BY <2>1, <2>2, <2>3, StillPrepared DEF SaidInv, KeysInv
<1>8. CASE WorkerStep
  <2>0. UNCHANGED <<at, cur, who, script, say>>
    BY <1>8 DEF WorkerStep, FinalizeReceiptReview, SendReviewCard, local, setting
  <2>1. ASSUME \A g \in Attempts : at[g] \notin {"showAgain", "reply"}
        PROVE  \A g \in Attempts : Prepared(g)'
    BY <2>0, <2>1 DEF SaidInv, Prepared
  <2>2. ASSUME NEW m \in Messages, FinalizeReceiptReview(m) PROVE SaidInv'
    <3>1. /\ users[receipt[m].owner] \notin {"none", "deleted"} /\ lock[receipt[m].owner] = Nobody
          /\ receipt[m].status # "none"
          /\ tx' = [tx EXCEPT ![m] = Draft(m, receipt[m].owner)] /\ UNCHANGED <<outbox, answered>>
      BY <2>2 DEF FinalizeReceiptReview, Reviewable, ReviewOf, deeds
    <3>2. receipt[m].owner \in Users
      BY <3>1 DEF CoreInv, ChatTypeOK, RecordsTypeOK, Document
    <3>3. identity = receipt[m].owner
      BY <3>1, <3>2 DEF CoreInv, UserInv
    <3>4. \A g \in Attempts : at[g] \notin {"showAgain", "reply"}
      BY <3>1, <3>3, LoneHolder, NobodyIsNoAttempt DEF LockedSteps, ActiveSteps, EditSteps
    <3>5. KeysInv'
      <4>1. tx \in [Messages -> Entry] /\ outbox \subseteq OutKey
        BY DEF CoreInv, ChatTypeOK, RecordsTypeOK, SpeechTypeOK
      <4>2. Draft(m, receipt[m].owner).ver = tx[m].ver + 1 /\ tx[m].ver \in Nat
        BY <4>1 DEF Draft, Entry
      <4>3. \A k \in outbox : k.of \in Messages /\ k.ver \in Nat
        BY <4>1 DEF OutKey
      <4>4. \A k \in outbox : k.kind = "card" => k.ver <= tx'[k.of].ver
        BY <3>1, <4>1, <4>2, <4>3 DEF SaidInv, KeysInv
      <4> QED BY <3>1, <4>4 DEF SaidInv, KeysInv
    <3> QED BY <2>1, <3>4, <3>5 DEF SaidInv
  <2>3. CASE SendReviewCard
    <3>1. review # 0 /\ review \in Messages /\ Enqueue(Question("card", review), review) /\ UNCHANGED tx
      BY <2>3 DEF SendReviewCard, records, CoreInv, ChatTypeOK, SpeechTypeOK, Subjects
    <3>2. \A g \in Attempts : at[g] \notin {"showAgain", "reply"}
      BY <3>1, LoneHolder DEF LockedSteps, ActiveSteps, EditSteps
    <3>3. KeysInv'
      <4>1. Question("card", review) \in Saying
        BY <3>1 DEF Question, Saying, About
      <4> QED BY <3>1, <4>1, EnqueuedKeys DEF SaidInv
    <3> QED BY <2>1, <3>2, <3>3 DEF SaidInv
  <2> QED BY <1>8, <2>2, <2>3 DEF WorkerStep
<1>9. CASE UNCHANGED vars
  <2>1. UNCHANGED <<tx, outbox, answered, say, pending, at, cur, who, script>>
    BY <1>9 DEF vars, inboundVars, local, setting, chatVars, records, speech, deeds
  <2> QED BY <2>1, StillPrepared DEF SaidInv, KeysInv
<1> QED BY <1>1, <1>2, <1>3, <1>4, <1>5, <1>6, <1>7, <1>8, <1>9, StepKinds

-----------------------------------------------------------------------------
(* A message that was routed to its end has been answered, a row is marked   *)
(* as processed and the provider told to forget it only after that.          *)
SomeGone == \E u \in Users : Gone(u)
Replied(m) == m \in answered \/ script[m] = "value" \/ SomeGone

HandledInv ==
  /\ \A m \in Messages : /\ handled[m] => Replied(m)
                         /\ msg[m].status = "processed" => handled[m]
                         /\ acked[m] => script[m] = "malformed" \/ handled[m]
  /\ \A h \in Attempts : at[h] = "mark" /\ ~err[h] => handled[cur[h]]

LEMMA HandledKept ==
  ASSUME HandledInv, CoreInv, UNCHANGED script, answered \subseteq answered', SomeGone => SomeGone',
         \A m \in Messages : /\ handled[m] => handled'[m]
                             /\ handled'[m] => handled[m] \/ Replied(m)'
                             /\ msg'[m].status = "processed" => msg[m].status = "processed" \/ handled'[m]
                             /\ acked'[m] => acked[m] \/ handled'[m] \/ script[m] = "malformed",
         \A h \in Attempts : at'[h] = "mark" /\ ~err'[h] =>
                               \/ at[h] = "mark" /\ ~err[h] /\ cur'[h] = cur[h]
                               \/ handled'[cur'[h]]
  PROVE  HandledInv'
<1>1. \A m \in Messages : Replied(m) => Replied(m)'
  BY DEF Replied
<1>2. \A h \in Attempts : cur[h] \in Messages
  BY DEF CoreInv, ChatTypeOK, InboundTypeOK
<1> HIDE DEF Replied
<1> QED BY <1>1, <1>2 DEF HandledInv

(* Outside the lock a route only ends in an error, and the provider is told  *)
(* to forget what was handled.                                               *)
LEMMA OutsideHandled ==
  ASSUME CoreInv, HandledInv, NEW h \in Attempts, OutsideStep(h)
  PROVE  UNCHANGED handled /\ \A m \in Messages : acked'[m] => acked[m] \/ handled[m]
<1> USE DEF faults, history
<1>0. /\ handled \in [Messages -> BOOLEAN] /\ acked \in [Messages -> BOOLEAN] /\ cur[h] \in Messages
      /\ err[h] \in BOOLEAN
  BY DEF CoreInv, ChatTypeOK, InboundTypeOK
<1>1. \A f : EndRoute(h, TRUE) => UNCHANGED handled
  BY <1>0 DEF EndRoute
<1>2. ASSUME NEW ok \in BOOLEAN, Return(h, ok), ok => handled[cur[h]]
      PROVE  \A m \in Messages : acked'[m] => acked[m] \/ handled[m]
  BY <1>0, <1>2 DEF Return
<1>3. CASE ClaimProviderMessage(h)
  <2>1. UNCHANGED handled
    BY <1>3 DEF ClaimProviderMessage
  <2>2. CASE InsertMessage(h) \/ ReclaimMessage(h)
    BY <2>1, <2>2 DEF InsertMessage, ReclaimMessage
  <2>3. CASE Absorb(h)
    <3>1. Return(h, msg[cur[h]].status = "processed") /\ (msg[cur[h]].status = "processed" => handled[cur[h]])
      BY <1>0, <2>3 DEF Absorb, HandledInv
    <3>2. (msg[cur[h]].status = "processed") \in BOOLEAN
      OBVIOUS
    <3> QED BY <1>2, <2>1, <3>1, <3>2
  <2>4. CASE RefuseAltered(h)
    BY <1>2, <2>1, <2>4 DEF RefuseAltered
  <2> QED BY <1>3, <2>2, <2>3, <2>4 DEF ClaimProviderMessage
<1>4. CASE ResolveUser(h) \/ CreateUserWithIdentity(h)
  BY <1>4 DEF ResolveUser, CreateUserWithIdentity
<1>5. CASE SetProviderMessageUser(h)
  <2>1. UNCHANGED acked /\ (UNCHANGED history \/ EndRoute(h, TRUE))
    BY <1>5 DEF SetProviderMessageUser
  <2> QED BY <1>1, <2>1
<1>6. CASE MarkProviderMessage(h)
  <2>1. at[h] = "mark" /\ UNCHANGED handled
    BY <1>6 DEF MarkProviderMessage
  <2>2. ~err[h] => handled[cur[h]]
    BY <2>1 DEF HandledInv
  <2>3. PICK ok \in BOOLEAN : Return(h, ok) /\ (ok => ~err[h])
    <3>1. CASE Mine(h)
      <4>1. Return(h, ~err[h]) /\ (~err[h]) \in BOOLEAN
        BY <1>6, <3>1 DEF MarkProviderMessage
      <4> QED BY <4>1, Zenon
    <3>2. CASE ~Mine(h)
      <4>1. /\ Return(h, ~err[h] /\ users[who[h]] = "deleted")
            /\ (~err[h] /\ users[who[h]] = "deleted") \in BOOLEAN
        BY <1>6, <3>2 DEF MarkProviderMessage
      <4> QED BY <4>1, Zenon
    <3> QED BY <3>1, <3>2
  <2> QED BY <1>2, <2>1, <2>2, <2>3
<1>7. CASE Crash(h)
  BY <1>7 DEF Crash
<1>8. CASE AnswerLost(h)
  BY <1>8 DEF AnswerLost, Return
<1>9. CASE StatementFails(h)
  BY <1>1, <1>9 DEF StatementFails, Return
<1>10. ASSUME NEW m \in Messages, Deliver(h, m)
       PROVE  UNCHANGED <<handled, acked>>
  BY <1>10 DEF Deliver
<1> QED BY <1>3, <1>4, <1>5, <1>6, <1>7, <1>8, <1>9, <1>10 DEF OutsideStep, InboundStep

LEMMA HandledStep ==
  ASSUME CoreInv, SaidInv, HandledInv, [Next]_vars
  PROVE  HandledInv'
<1>0. /\ at \in [Attempts -> ChatSteps] /\ cur \in [Attempts -> Messages] /\ err \in [Attempts -> BOOLEAN]
      /\ handled \in [Messages -> BOOLEAN] /\ acked \in [Messages -> BOOLEAN]
      /\ msg \in [Messages -> MessageRow] /\ users \in [Users -> UserStatus]
  BY DEF CoreInv, ChatTypeOK, InboundTypeOK
<1>1. ASSUME NEW m \in Messages, Quarantine(m) \/ ClaimExpires(m) \/ ClaimOutlived(m) \/ DeleteExpiredTombstone(m), UNCHANGED chatVars
      PROVE  HandledInv'
  <2>1. UNCHANGED <<at, cur, err, handled, users, script, answered>>
    BY <1>1 DEF Quarantine, ClaimExpires, ClaimOutlived, DeleteExpiredTombstone, local, history, people, setting, chatVars, deeds
  <2>2. \A k \in Messages : acked'[k] => acked[k] \/ script[k] = "malformed"
    BY <1>0, <1>1 DEF Quarantine, ClaimExpires, ClaimOutlived, DeleteExpiredTombstone
  <2>3. \A k \in Messages : msg'[k].status = "processed" => msg[k].status = "processed"
    <3>1. DeleteExpiredTombstone(m) \/ msg' = msg \/ msg' = [msg EXCEPT ![m].leased = FALSE]
      BY <1>1 DEF Quarantine, ClaimExpires, ClaimOutlived
    <3>2. DeleteExpiredTombstone(m) => \A k \in Messages : msg'[k] = msg[k] \/ msg'[k].status = "none"
      BY <1>0, TombstoneGoes
    <3> QED BY <1>0, <3>1, <3>2 DEF MessageRow
  <2>4. SomeGone' = SomeGone
    BY <2>1 DEF SomeGone, Gone
  <2> QED BY <2>1, <2>2, <2>3, <2>4, HandledKept
<1>2. ASSUME NEW h \in Attempts, OutsideStep(h), UNCHANGED chatVars
      PROVE  HandledInv'
  <2>1. UNCHANGED <<script, answered>> /\ \A g \in Attempts : g # h => at'[g] = at[g] /\ err'[g] = err[g] /\ cur'[g] = cur[g]
    BY <1>0, <1>2, OutsideMoves DEF Outside, Goto, setting, chatVars, deeds
  <2>2. at'[h] = "mark" => err'[h]
    BY <1>2, KnowsOutside
  <2>3. UNCHANGED handled /\ \A m \in Messages : acked'[m] => acked[m] \/ handled[m]
    BY <1>2, OutsideHandled
  <2>4. \A m \in Messages : msg'[m].status = "processed" => msg[m].status = "processed" \/ handled[m]
    <3>1. \A m \in Messages : m # cur[h] => msg'[m] = msg[m]
      BY <1>2, OutsideMoves DEF Outside
    <3>2. msg'[cur[h]].status = "processed" => msg[cur[h]].status = "processed" \/ handled[cur[h]]
      <4>1. CASE Inserts(h) \/ Reclaims(h) \/ Owns(h) \/ LeavesRow(h)
        BY <4>1 DEF Inserts, Reclaims, Owns, LeavesRow
      <4>2. CASE Marks(h)
        BY <4>2 DEF Marks, HandledInv
      <4> QED BY <1>2, <4>1, <4>2, OutsideRows
    <3> QED BY <3>1, <3>2
  <2>5. SomeGone => SomeGone'
    <3>1. \A u \in Users : Gone(u) => Gone(u)'
      BY <1>0, <1>2, PeopleOutside DEF FirstContact, people, Gone
    <3> QED BY <3>1 DEF SomeGone
  <2> QED BY <2>1, <2>2, <2>3, <2>4, <2>5, HandledKept
<1>3. ASSUME NEW h \in Attempts, Enter(h)
      PROVE  HandledInv'
  <2>1. /\ at[h] = "enter" /\ who[h] \in Users
        /\ Enters(h) \/ PassesBy(h)
        /\ UNCHANGED <<script, acked, users, cur, answered>>
    BY <1>3, EnterMoves DEF setting, people, deeds
  <2>2. SomeGone' = SomeGone
    BY <2>1 DEF SomeGone, Gone
  <2>3. CASE PassesBy(h)
    <3>1. /\ SomeGone /\ UNCHANGED msg /\ handled' = [handled EXCEPT ![cur[h]] = TRUE]
          /\ \A g \in Attempts : g # h => at'[g] = at[g] /\ err'[g] = err[g]
      BY <1>0, <2>1, <2>3 DEF PassesBy, SomeGone
    <3>2. \A m \in Messages : (handled[m] => handled'[m]) /\ Replied(m)'
      BY <1>0, <2>2, <3>1 DEF Replied
    <3>3. handled'[cur'[h]]
      BY <1>0, <2>1, <3>1
    <3> QED BY <2>1, <2>2, <3>1, <3>2, <3>3, HandledKept
  <2>4. CASE Enters(h)
    <3>1. UNCHANGED <<handled, err>> /\ at'[h] # "mark" /\ \A g \in Attempts : g # h => at'[g] = at[g]
      BY <1>0, <2>4 DEF Enters, Goto, history, ActiveSteps, CardSteps, EditSteps
    <3>2. \A m \in Messages : msg'[m].status = msg[m].status
      <4>1. msg' = msg \/ msg' = [msg EXCEPT ![cur[h]].raw = "redacted"]
        BY <2>4 DEF Enters
      <4> QED BY <1>0, <4>1 DEF MessageRow
    <3> QED BY <2>1, <2>2, <3>1, <3>2, HandledKept
  <2> QED BY <2>1, <2>3, <2>4
<1>4. ASSUME NEW h \in Attempts, Ordinary(h),
             \/ /\ UNCHANGED handled
                /\ at'[h] = "mark" => err'[h]
             \/ /\ handled' = [handled EXCEPT ![cur[h]] = TRUE]
                /\ cur[h] \in answered' \/ script[cur[h]] = "value" \/ SomeGone,
             answered \subseteq answered'
      PROVE  HandledInv'
  <2>1. UNCHANGED <<script, msg, acked, users, cur>>
    BY <1>4 DEF Ordinary, setting, people
  <2>2. SomeGone' = SomeGone
    BY <2>1 DEF SomeGone, Gone
  <2>3. \A g \in Attempts : g # h => at'[g] = at[g] /\ err'[g] = err[g]
    BY <1>0, <1>4 DEF Ordinary, GoesOn, EndsRoute, Goto
  <2>4. CASE UNCHANGED handled /\ (at'[h] = "mark" => err'[h])
    BY <1>4, <2>1, <2>2, <2>3, <2>4, HandledKept
  <2>5. CASE /\ handled' = [handled EXCEPT ![cur[h]] = TRUE]
             /\ cur[h] \in answered' \/ script[cur[h]] = "value" \/ SomeGone
    <3>1. \A m \in Messages : (handled[m] => handled'[m]) /\ (handled'[m] => handled[m] \/ Replied(m)')
      BY <1>0, <2>1, <2>2, <2>5 DEF Replied
    <3>2. handled'[cur'[h]]
      BY <1>0, <2>1, <2>5
    <3> QED BY <1>4, <2>1, <2>2, <2>3, <3>1, <3>2, HandledKept
  <2> QED BY <1>4, <2>4, <2>5
<1>5. ASSUME NEW h \in Attempts, OrdinaryStep(h)
      PROVE  HandledInv'
  <2>0. Ordinary(h)
    BY <1>5, OrdinaryMoves
  <2>1. CASE Reply(h)
    <3>1. /\ at[h] = "reply" /\ handled' = [handled EXCEPT ![cur[h]] = TRUE] /\ Enqueue(say[h], cur[h])
      BY <1>0, <2>1 DEF Reply, Leave, EndRoute
    <3>2. answered \subseteq answered'
      BY <3>1 DEF Enqueue
    <3>3. cur[h] \in answered' \/ script[cur[h]] = "value"
      <4>1. CASE Key(say[h], cur[h]) \notin outbox
        BY <3>1, <4>1 DEF Enqueue
      <4>2. CASE Key(say[h], cur[h]) \in outbox
        <5>1. Key(say[h], cur[h]).of \in answered
          BY <4>2 DEF SaidInv, KeysInv
        <5>2. CASE say[h].kind = "card"
          <6>1. Key(say[h], cur[h]) = CardKey(say[h].tx) /\ CardKey(say[h].tx).of = say[h].tx
            BY <5>2, KeyShape DEF CardKey
          <6>2. say[h].tx = cur[h] \/ script[cur[h]] = "value"
            BY <3>1, <4>2, <5>2, <6>1 DEF SaidInv, Prepared
          <6> QED BY <3>2, <5>1, <6>1, <6>2
        <5>3. CASE say[h].kind # "card"
          <6>1. Key(say[h], cur[h]).of = cur[h]
            BY <5>3, KeyShape
          <6> QED BY <3>2, <5>1, <6>1
        <5> QED BY <5>2, <5>3
      <4> QED BY <4>1, <4>2
    <3> QED BY <1>4, <2>0, <3>1, <3>2, <3>3
  <2>2. CASE DeletionConfirmation(h)
    <3>1. /\ at[h] = "farewell" /\ handled' = [handled EXCEPT ![cur[h]] = TRUE] /\ Enqueue(Notice, cur[h])
      BY <1>0, <2>2 DEF DeletionConfirmation, Leave, EndRoute
    <3>2. answered \subseteq answered'
      BY <3>1 DEF Enqueue
    <3>3. SomeGone
      BY <3>1 DEF CoreInv, UserInv, LockedSteps, SomeGone, Gone
    <3> QED BY <1>4, <2>0, <3>1, <3>2, <3>3
  <2>3. CASE ~Reply(h) /\ ~DeletionConfirmation(h)
    <3>3. Quiet(h) /\ (at[h] \in {"reply", "farewell"} => errors' # errors)
      BY <1>5, <2>3, QuietMoves
    <3>5. UNCHANGED handled /\ (at'[h] = "mark" => err'[h])
      BY <1>0, <2>0, <3>3 DEF Ordinary, GoesOn, EndsRoute, Goto, ActiveSteps, CardSteps, EditSteps
    <3> QED BY <1>4, <2>0, <3>3, <3>5 DEF Quiet
  <2> QED BY <2>1, <2>2, <2>3
<1>6. ASSUME NEW h \in Attempts, SetConsent(h) \/ BeginAccountDeletion(h)
      PROVE  HandledInv'
  <2>1. NewStatus(h)
    BY <1>6, NewStatusMoves
  <2>2. UNCHANGED <<script, msg, acked, cur, err, handled, answered>>
    BY <2>1 DEF NewStatus, setting, local
  <2>3. \A g \in Attempts : at'[g] = "mark" => at[g] = "mark"
    BY <1>0, <2>1 DEF NewStatus, Goto
  <2>4. SomeGone => SomeGone'
    <3>1. users[who[h]] \in {"pending", "active"} /\ \A u \in Users : u # who[h] => users'[u] = users[u]
      BY <1>0, <2>1 DEF NewStatus, CoreInv, UserInv, ActiveSteps
    <3>2. \A u \in Users : Gone(u) => Gone(u)'
      BY <3>1 DEF Gone
    <3> QED BY <3>2 DEF SomeGone
  <2> QED BY <2>2, <2>3, <2>4, HandledKept
<1>7. ASSUME NEW h \in Attempts, PurgeAccountData(h)
      PROVE  HandledInv'
  <2>1. CASE Purges(h)
    <3>1. /\ handled' = [handled EXCEPT ![cur[h]] = TRUE] /\ at' = [at EXCEPT ![h] = "farewell"]
          /\ users' = [users EXCEPT ![who[h]] = "deleted"] /\ at[h] = "purge"
          /\ UNCHANGED <<script, acked, cur, err, answered>>
      BY <2>1 DEF Purges, Goto, setting, local
    <3>2. SomeGone'
      <4>1. who[h] \in Users
        BY <3>1 DEF CoreInv, LockInv, LockedSteps, GoingSteps
      <4> QED BY <1>0, <3>1, <4>1 DEF SomeGone, Gone
    <3>3. \A m \in Messages : (handled[m] => handled'[m]) /\ Replied(m)'
      BY <1>0, <3>1, <3>2 DEF Replied
    <3>4. \A m \in Messages : msg'[m].status = "processed" => msg[m].status = "processed" \/ handled'[m]
      BY <1>0, <2>1, <3>1, PurgedRows
    <3>5. \A g \in Attempts : at'[g] = "mark" => at[g] = "mark"
      BY <1>0, <3>1
    <3> QED BY <3>1, <3>2, <3>3, <3>4, <3>5, HandledKept
  <2>2. CASE Ordinary(h) /\ EndsRoute(h) /\ at[h] = "purge" /\ UNCHANGED <<chatVars, errors>>
    <3>1. UNCHANGED <<handled, answered>> /\ err'[h]
      BY <1>0, <2>2 DEF EndsRoute, chatVars, deeds
    <3> QED BY <1>4, <2>2, <3>1
  <2> QED BY <1>7, <2>1, <2>2, PurgeMoves
<1>8. CASE (\E u \in Users : PendingExpires(u)) \/ WorkerStep \/ UNCHANGED vars
  <2>1. UNCHANGED <<script, msg, acked, users, at, cur, err, handled>>
    BY <1>8 DEF PendingExpires, WorkerStep, FinalizeReceiptReview, SendReviewCard, vars, inboundVars,
       setting, people, local, history
  <2>2. answered \subseteq answered'
    BY <1>8 DEF PendingExpires, WorkerStep, FinalizeReceiptReview, SendReviewCard, Enqueue, vars, chatVars, deeds
  <2>3. SomeGone' = SomeGone
    BY <2>1 DEF SomeGone, Gone
  <2> QED BY <2>1, <2>2, <2>3, HandledKept
<1> QED BY <1>1, <1>2, <1>3, <1>5, <1>6, <1>7, <1>8, StepKinds

(* bot.go HandleEvent with ClaimProviderMessageOpts and the idempotency keys   *)
(* of the replies: whatever is delivered twice, crashes, fails or outlives its *)
(* lease, a message the provider is told to forget was routed to the end and   *)
(* led to an outbound row; only the value of an edit sent to an unchanged card *)
(* and an account on its way out get none.                                     *)
THEOREM NoMessageLostSafe == Spec => []NoMessageLost
<1>1. ChatInit => SaidInv /\ HandledInv
  <2> SUFFICES ASSUME ChatInit PROVE SaidInv /\ HandledInv
    OBVIOUS
  <2>1. outbox = {} /\ \A h \in Attempts : at[h] = "idle"
    BY DEF ChatInit, InboundInit
  <2>2. \A m \in Messages : ~handled[m] /\ ~acked[m] /\ msg[m].status = "none"
    BY DEF ChatInit, InboundInit, NoRow
  <2>3. SaidInv
    BY <2>1 DEF SaidInv, KeysInv, Prepared, ActiveSteps, CardSteps, EditSteps
  <2> QED BY <2>1, <2>2, <2>3 DEF HandledInv
<1>2. HandledInv => NoMessageLost
  BY DEF HandledInv, NoMessageLost, Replied, SomeGone
<1>3. CoreInv /\ CoreInv' /\ SaidInv /\ [Next]_vars => SaidInv'
  BY SaidStep
<1>4. CoreInv /\ SaidInv /\ HandledInv /\ [Next]_vars => HandledInv'
  BY HandledStep
<1> QED BY <1>1, <1>2, <1>3, <1>4, ChatCoreSafe, PTL DEF Spec

-----------------------------------------------------------------------------
(* The question an answer meets.  Without faults a message is routed to its  *)
(* end once, until the account is deleted.                                   *)
Calm == crashes + lapses + errors = 0

Finished(h) == at[h] = "mark" /\ ~err[h] /\ Mine(h)
Done(m) == msg[m].status = "processed" \/ \E h \in Attempts : Finished(h) /\ cur[h] = m
DoneOrReplying(m) == Done(m) \/ \E h \in Attempts : at[h] = "reply" /\ cur[h] = m

(* An attempt that failed does not find its row processed. *)
MarkInv ==
  Calm => \A h \in Attempts : at[h] = "mark" /\ Mine(h) /\ msg[cur[h]].status = "processed" => ~err[h]

(* What was sent for a message, or can be asked about its entry, comes from  *)
(* that one run.                                                             *)
DoneInv ==
  Calm =>
    /\ \A k \in outbox : k.kind # "card" \/ script[k.of] = "entry" => Done(k.of)
    /\ \A u \in Users : pending[u].kind \in {"card", "edit"} /\ script[pending[u].tx] = "entry"
                          => DoneOrReplying(pending[u].tx)

FarewellInv == \A h \in Attempts : at[h] = "farewell" => cur[h] \in erasedBy

Asks(u) == Question(pending[u].kind, pending[u].tx)

(* A reply puts the open question, and puts it to the sender unless it is    *)
(* the one last put.                                                         *)
Speaks(h) ==
  at[h] = "reply" /\ say[h].kind # "notice" =>
    say[h] = Asks(who[h]) /\ (asked = say[h] \/ Key(say[h], cur[h]) \notin outbox)

(* The open question has been put to the sender, or is about to be.          *)
Put(u) ==
  pending[u].kind # "none" =>
    \/ asked = Asks(u)
    \/ \E h \in Attempts : at[h] = "reply" /\ who[h] = u /\ say[h] = Asks(u)
    \/ review # 0 /\ Asks(u) = Question("card", review)

ReviewAsks ==
  review # 0 => Asks(receipt[review].owner) = Question("card", review) /\ CardKey(review) \notin outbox

MeetInv ==
  Calm =>
    /\ \A h \in Attempts : Speaks(h) /\ (at[h] = "markDeleting" => pending[who[h]].kind # "none")
    /\ \A u \in Users : Put(u)
    /\ ReviewAsks

LEMMA CalmSteps ==
  ASSUME CoreInv, [Next]_vars, Calm'
  PROVE  Calm /\ UNCHANGED faults
<1>0. crashes \in Nat /\ lapses \in Nat /\ errors \in Nat
  BY DEF CoreInv, ChatTypeOK, InboundTypeOK
<1>1. crashes' \in {crashes, crashes + 1} /\ lapses' \in {lapses, lapses + 1} /\ errors' \in {errors, errors + 1}
  <2>1. ASSUME NEW m \in Messages, Quarantine(m) \/ ClaimExpires(m) \/ ClaimOutlived(m) \/ DeleteExpiredTombstone(m)
        PROVE  crashes' = crashes /\ lapses' \in {lapses, lapses + 1} /\ errors' = errors
    BY <2>1 DEF Quarantine, ClaimExpires, ClaimOutlived, DeleteExpiredTombstone, faults
  <2>2. ASSUME NEW h \in Attempts, OutsideStep(h)
        PROVE  crashes' \in {crashes, crashes + 1} /\ lapses' = lapses /\ errors' \in {errors, errors + 1}
    BY <2>2, OutsideRows
  <2>3. ASSUME NEW h \in Attempts, Enter(h) \/ NewStatus(h) \/ Purges(h)
        PROVE  UNCHANGED faults
    BY <2>3 DEF Enter, NewStatus, Purges
  <2>4. ASSUME NEW h \in Attempts, Ordinary(h)
        PROVE  crashes' = crashes /\ lapses' = lapses /\ errors' \in {errors, errors + 1}
    BY <2>4 DEF Ordinary
  <2>5. CASE (\E u \in Users : PendingExpires(u)) \/ WorkerStep \/ UNCHANGED vars
    BY <2>5 DEF PendingExpires, WorkerStep, FinalizeReceiptReview, SendReviewCard, vars, inboundVars, faults
  <2> QED BY <2>1, <2>2, <2>3, <2>4, <2>5, StepKinds, OrdinaryMoves, PurgeMoves, NewStatusMoves DEF faults
<1>2. \A x, y, z \in Nat : x + y + z = 0 => x = 0 /\ y = 0 /\ z = 0
  OBVIOUS
<1>3. /\ crashes' \in Nat /\ lapses' \in Nat /\ errors' \in Nat
      /\ crashes' = crashes \/ crashes' = crashes + 1
      /\ lapses' = lapses \/ lapses' = lapses + 1
      /\ errors' = errors \/ errors' = errors + 1
  BY <1>0, <1>1
<1>4. crashes' + lapses' + errors' = 0
  BY Zenon DEF Calm
<1>5. crashes' = 0 /\ lapses' = 0 /\ errors' = 0
  BY <1>2, <1>3, <1>4, Zenon
<1>6. crashes = 0 /\ lapses = 0 /\ errors = 0
  BY <1>0, <1>3, <1>5
<1> QED BY <1>5, <1>6 DEF Calm, faults

LEMMA CalmFaults ==
  ASSUME CoreInv, Calm
  PROVE  crashes = 0 /\ lapses = 0 /\ errors = 0 /\ errors + lapses = 0
<1>1. crashes \in Nat /\ lapses \in Nat /\ errors \in Nat
  BY DEF CoreInv, ChatTypeOK, InboundTypeOK
<1> QED BY <1>1 DEF Calm

(* An attempt under the lock works on a message that is not done. *)
LEMMA NotDone ==
  ASSUME CoreInv, ClaimInv, OwnedInv, Calm, NEW h \in Attempts, at[h] \in LockedSteps, at[h] # "farewell"
  PROVE  ~Done(cur[h]) /\ Mine(h)
<1>1. lapses = 0
  BY CalmFaults
<1>2. Mine(h)
  BY DEF OwnedInv
<1>3. Working(h) /\ at[h] # "mark"
  BY DEF Working, LockedSteps, ActiveSteps, GoingSteps, CardSteps, EditSteps
<1>4. msg[cur[h]].status = "received"
  BY <1>1, <1>2, <1>3 DEF ClaimInv
<1>5. \A g \in Attempts : Finished(g) /\ cur[g] = cur[h] => g = h
  BY <1>1, <1>2, <1>3 DEF Finished, ClaimInv, Working
<1> QED BY <1>2, <1>3, <1>4, <1>5 DEF Done, Finished

(* Outside the lock, and without faults, an attempt at its end marks the row *)
(* it has.                                                                   *)
LEMMA CalmMark ==
  ASSUME CoreInv, NEW h \in Attempts, OutsideStep(h), UNCHANGED faults
  PROVE  /\ at[h] \notin LockedSteps
         /\ at[h] = "mark" /\ Mine(h) => Marks(h)
<1>0. /\ crashes \in Nat /\ errors \in Nat /\ at \in [Attempts -> ChatSteps] /\ msg \in [Messages -> MessageRow]
      /\ cur \in [Attempts -> Messages]
  BY DEF CoreInv, ChatTypeOK, InboundTypeOK
<1>1. ~Crash(h) /\ ~AnswerLost(h) /\ ~StatementFails(h)
  <2>1. Crash(h) \/ AnswerLost(h) => crashes' = crashes + 1
    BY DEF Crash, AnswerLost
  <2>2. StatementFails(h) => errors' = errors + 1
    BY DEF StatementFails
  <2>3. UNCHANGED <<crashes, errors>> /\ crashes # crashes + 1 /\ errors # errors + 1
    BY <1>0 DEF faults
  <2> QED BY <2>1, <2>2, <2>3
<1>2. (\E m \in Messages : Deliver(h, m)) \/ InboundStep(h)
  BY <1>1 DEF OutsideStep
<1>3. at[h] \in OpenSteps
  <2>1. (\E m \in Messages : Deliver(h, m)) => at[h] = "idle"
    BY DEF Deliver
  <2>2. InboundStep(h) => at[h] \in {"claim", "resolve", "create", "own", "mark"}
    BY Zenon DEF InboundStep, ClaimProviderMessage, ResolveUser, CreateUserWithIdentity,
       SetProviderMessageUser, MarkProviderMessage
  <2> QED BY <1>2, <2>1, <2>2 DEF OpenSteps
<1>4. at[h] \notin LockedSteps
  BY <1>3 DEF OpenSteps, LockedSteps, ActiveSteps, GoingSteps, CardSteps, EditSteps
<1>5. ASSUME at[h] = "mark", Mine(h)
      PROVE  Marks(h)
  <2>1. MarkProviderMessage(h)
    BY <1>2, <1>5 DEF Deliver, InboundStep, ClaimProviderMessage, ResolveUser, CreateUserWithIdentity,
       SetProviderMessageUser
  <2> DEFINE s == IF err[h] THEN "failed" ELSE "processed"
  <2>2. msg' = [msg EXCEPT ![cur[h]].status = s, ![cur[h]].leased = FALSE] /\ at'[h] = "idle"
    BY <1>0, <1>5, <2>1 DEF MarkProviderMessage, Return, Goto
  <2> HIDE DEF s
  <2>3. /\ msg'[cur[h]].status = s /\ msg'[cur[h]].id = msg[cur[h]].id /\ ~msg'[cur[h]].leased
        /\ msg'[cur[h]].owner = msg[cur[h]].owner /\ msg'[cur[h]].raw = msg[cur[h]].raw
    BY <1>0, <2>2 DEF MessageRow
  <2> QED BY <1>5, <2>2, <2>3 DEF Marks, s
<1> QED BY <1>4, <1>5

(* A step that leaves the rows as they are, but for the lease and content. *)
SameRows ==
  UNCHANGED <<cur, pm>> /\ \A m \in Messages : msg'[m].id = msg[m].id /\ msg'[m].status = msg[m].status

LEMMA SameMine ==
  ASSUME CoreInv, SameRows, NEW g \in Attempts
  PROVE  Mine(g)' = Mine(g) /\ msg'[cur'[g]].status = msg[cur[g]].status
<1>1. cur[g] \in Messages
  BY DEF CoreInv, ChatTypeOK, InboundTypeOK
<1> QED BY <1>1 DEF SameRows, Mine, Row

(* A step other than a delivery, claim, mark or purge. *)
PlainStep ==
  \/ \E m \in Messages : Quarantine(m) \/ ClaimExpires(m) \/ ClaimOutlived(m) \/ DeleteExpiredTombstone(m)
  \/ \E h \in Attempts : Enter(h) \/ Ordinary(h) \/ NewStatus(h)
  \/ \E u \in Users : PendingExpires(u)
  \/ WorkerStep \/ UNCHANGED vars

LEMMA StepShapes ==
  ASSUME CoreInv, [Next]_vars
  PROVE  \/ PlainStep
         \/ \E h \in Attempts : OutsideStep(h) /\ UNCHANGED chatVars
         \/ \E h \in Attempts : Purges(h)
  BY StepKinds, OrdinaryMoves, NewStatusMoves, PurgeMoves DEF PlainStep

(* Without faults it changes the status of no row. *)
LEMMA PlainRows ==
  ASSUME CoreInv, PlainStep, UNCHANGED faults
  PROVE  SameRows
<1>0. msg \in [Messages -> MessageRow] /\ cur \in [Attempts -> Messages] /\ lapses \in Nat
  BY DEF CoreInv, ChatTypeOK, InboundTypeOK
<1>1. ASSUME NEW m \in Messages, Quarantine(m) \/ ClaimExpires(m) \/ ClaimOutlived(m) \/ DeleteExpiredTombstone(m)
      PROVE  SameRows
  <2>0. ~DeleteExpiredTombstone(m)
    BY <1>0 DEF DeleteExpiredTombstone, faults
  <2>1. UNCHANGED <<cur, pm>> /\ (msg' = msg \/ msg' = [msg EXCEPT ![m].leased = FALSE])
    BY <1>1, <2>0 DEF Quarantine, ClaimExpires, ClaimOutlived, local
  <2> QED BY <1>0, <2>1 DEF SameRows, MessageRow
<1>2. ASSUME NEW h \in Attempts, Enter(h)
      PROVE  SameRows
  <2>1. UNCHANGED <<cur, pm>> /\ (msg' = msg \/ msg' = [msg EXCEPT ![cur[h]].raw = "redacted"])
    BY <1>2 DEF Enter
  <2> QED BY <1>0, <2>1 DEF SameRows, MessageRow
<1>3. ASSUME UNCHANGED <<msg, cur, pm>>
      PROVE  SameRows
  BY <1>3 DEF SameRows
<1>4. ASSUME NEW h \in Attempts, Ordinary(h) \/ NewStatus(h)
      PROVE  UNCHANGED <<msg, cur, pm>>
  BY <1>4 DEF Ordinary, NewStatus, local
<1>5. CASE (\E u \in Users : PendingExpires(u)) \/ WorkerStep \/ UNCHANGED vars
  BY <1>3, <1>5 DEF PendingExpires, WorkerStep, FinalizeReceiptReview, SendReviewCard, vars, inboundVars, local
<1> QED BY <1>1, <1>2, <1>3, <1>4, <1>5 DEF PlainStep

(* How it brings an attempt to its end. *)
LEMMA PlainEnds ==
  ASSUME CoreInv, PlainStep, UNCHANGED faults, NEW g \in Attempts
  PROVE  /\ at[g] = "mark" => at'[g] = "mark" /\ err'[g] = err[g]
         /\ at'[g] = "mark" => at[g] = "mark" \/ ~err'[g] \/ (Working(g) /\ at[g] \notin {"farewell", "mark"})
         /\ at[g] = "reply" => at'[g] = "reply" \/ (at'[g] = "mark" /\ ~err'[g])
<1>0. at \in [Attempts -> ChatSteps] /\ err \in [Attempts -> BOOLEAN]
  BY DEF CoreInv, ChatTypeOK, InboundTypeOK
<1>1. CASE \/ \E m \in Messages : Quarantine(m) \/ ClaimExpires(m) \/ ClaimOutlived(m) \/ DeleteExpiredTombstone(m)
           \/ \E u \in Users : PendingExpires(u)
           \/ WorkerStep \/ UNCHANGED vars
  <2>1. UNCHANGED <<at, err>>
    BY <1>1 DEF Quarantine, ClaimExpires, ClaimOutlived, DeleteExpiredTombstone, PendingExpires, WorkerStep, FinalizeReceiptReview,
       SendReviewCard, vars, inboundVars, local
  <2> QED BY <2>1
<1>2. ASSUME NEW h \in Attempts, Enter(h)
      PROVE  /\ g # h => at'[g] = at[g] /\ err'[g] = err[g]
             /\ at[h] = "enter" /\ (at'[h] = "mark" => ~err'[h])
  <2>1. at[h] = "enter" /\ (Enters(h) \/ PassesBy(h))
    BY <1>2, EnterMoves
  <2>2. CASE Enters(h)
    BY <1>0, <2>1, <2>2 DEF Enters, Goto, ActiveSteps, CardSteps, EditSteps
  <2>3. CASE PassesBy(h)
    BY <1>0, <2>1, <2>3 DEF PassesBy
  <2> QED BY <2>1, <2>2, <2>3
<1>3. ASSUME NEW h \in Attempts, Ordinary(h)
      PROVE  /\ g # h => at'[g] = at[g] /\ err'[g] = err[g]
             /\ at[h] \in LockedSteps /\ (at[h] \in {"reply", "farewell"} => at'[h] = "mark" /\ ~err'[h])
  <2>1. at[h] \in LockedSteps /\ (g # h => at'[g] = at[g] /\ err'[g] = err[g])
    BY <1>0, <1>3 DEF Ordinary, GoesOn, EndsRoute, Goto, LockedSteps, GoingSteps
  <2>2. ASSUME at[h] \in {"reply", "farewell"}
        PROVE  at'[h] = "mark" /\ ~err'[h]
    <3>1. EndsRoute(h)
      BY <1>3, <2>2 DEF Ordinary, GoesOn, ActiveSteps, CardSteps, EditSteps
    <3>2. PICK f \in BOOLEAN : err' = [err EXCEPT ![h] = f] /\ (f => at[h] # "reply" \/ errors' # errors)
                               /\ (f => at[h] # "farewell" \/ errors' # errors)
      BY <3>1 DEF EndsRoute
    <3>3. errors' = errors
      BY DEF faults
    <3> QED BY <1>0, <2>2, <3>1, <3>2, <3>3 DEF EndsRoute
  <2> QED BY <2>1, <2>2
<1>4. ASSUME NEW h \in Attempts, NewStatus(h)
      PROVE  /\ g # h => at'[g] = at[g]
             /\ UNCHANGED err /\ at[h] \in {"consent", "markDeleting"} /\ at'[h] \in {"reply", "unexport"}
  BY <1>0, <1>4 DEF NewStatus, Goto, local
<1>5. \A h \in Attempts : at[h] \in LockedSteps => at[h] \notin {"idle", "claim", "mark"}
  BY DEF LockedSteps, GoingSteps, ActiveSteps, CardSteps, EditSteps
<1>6. ASSUME NEW h \in Attempts, Enter(h) \/ NewStatus(h)
      PROVE  /\ at[g] = "mark" => at'[g] = "mark" /\ err'[g] = err[g]
             /\ at'[g] = "mark" => at[g] = "mark" \/ ~err'[g]
             /\ at[g] = "reply" => at'[g] = "reply"
  BY <1>2, <1>4, <1>6
<1>7. ASSUME NEW h \in Attempts, Ordinary(h)
      PROVE  /\ at[g] = "mark" => at'[g] = "mark" /\ err'[g] = err[g]
             /\ at'[g] = "mark" => at[g] = "mark" \/ ~err'[g] \/ (Working(g) /\ at[g] \notin {"farewell", "mark"})
             /\ at[g] = "reply" => at'[g] = "reply" \/ (at'[g] = "mark" /\ ~err'[g])
  BY <1>3, <1>5, <1>7 DEF Working
<1> QED BY <1>1, <1>6, <1>7 DEF PlainStep

LEMMA ErasedGrows ==
  ASSUME CoreInv, [Next]_vars
  PROVE  erasedBy \subseteq erasedBy'
<1>1. ASSUME NEW h \in Attempts, Enter(h) \/ Ordinary(h) \/ NewStatus(h) \/ Purges(h)
      PROVE  erasedBy \subseteq erasedBy'
  BY <1>1 DEF Enter, Ordinary, NewStatus, Purges, deeds
<1>2. CASE (\E u \in Users : PendingExpires(u)) \/ WorkerStep \/ UNCHANGED vars \/ UNCHANGED chatVars
  BY <1>2 DEF PendingExpires, WorkerStep, FinalizeReceiptReview, SendReviewCard, vars, chatVars, deeds
<1> QED BY <1>1, <1>2, StepKinds, OrdinaryMoves, NewStatusMoves, PurgeMoves

LEMMA MarkStep ==
  ASSUME CoreInv, ClaimInv, MarkInv, [Next]_vars
  PROVE  MarkInv'
<1> SUFFICES ASSUME Calm', NEW g \in Attempts, at'[g] = "mark", Mine(g)', msg'[cur'[g]].status = "processed"
             PROVE  ~err'[g]
  BY DEF MarkInv
<1>0. Calm /\ UNCHANGED faults /\ lapses = 0
  BY CalmSteps, CalmFaults
<1>a. /\ at \in [Attempts -> ChatSteps] /\ err \in [Attempts -> BOOLEAN] /\ cur \in [Attempts -> Messages]
  BY DEF CoreInv, ChatTypeOK, InboundTypeOK
<1>b. at[g] = "mark" /\ Mine(g) /\ msg[cur[g]].status = "processed" => ~err[g]
  BY <1>0 DEF MarkInv
<1>c. Working(g) /\ Mine(g) /\ at[g] \notin {"farewell", "mark"} => msg[cur[g]].status = "received"
  BY <1>0 DEF ClaimInv
<1>1. CASE PlainStep
  <2>1. Mine(g) /\ msg[cur[g]].status = "processed"
    BY <1>0, <1>1, PlainRows, SameMine
  <2> QED BY <1>0, <1>1, <1>b, <1>c, <2>1, PlainEnds
<1>2. ASSUME NEW h \in Attempts, OutsideStep(h)
      PROVE  ~err'[g]
  <2>1. /\ Inserts(h) \/ Reclaims(h) \/ Owns(h) \/ Marks(h) \/ LeavesRow(h)
        /\ at'[h] \notin {"idle", "claim"} => cur'[h] = cur[h]
    BY <1>2, OutsideRows
  <2>2. /\ \A m \in Messages : m # cur[h] => msg'[m] = msg[m]
        /\ g # h => at'[g] = at[g] /\ cur'[g] = cur[g] /\ pm'[g] = pm[g] /\ err'[g] = err[g]
    BY <1>2, <1>a, OutsideMoves DEF Outside, Goto
  <2>3. CASE g = h
    <3>1. /\ LeavesRow(h) /\ UNCHANGED msg /\ pm'[h] = pm[h] /\ cur'[h] = cur[h]
          /\ at[h] \in {"resolve", "create", "own", "enter"}
      BY <2>1, <2>3 DEF Inserts, Reclaims, Owns, Marks, LeavesRow
    <3>2. Working(g) /\ Mine(g) /\ msg[cur[g]].status = "processed"
      BY <2>3, <3>1 DEF Working, Mine, Row
    <3> QED BY <1>c, <2>3, <3>1, <3>2
  <2>4. CASE g # h /\ (cur[g] # cur[h] \/ LeavesRow(h))
    <3>1. msg'[cur[g]] = msg[cur[g]]
      BY <1>a, <2>2, <2>4 DEF LeavesRow
    <3>2. Mine(g) /\ msg[cur[g]].status = "processed"
      BY <2>2, <2>4, <3>1 DEF Mine, Row
    <3> QED BY <1>b, <2>2, <2>4, <3>2
  <2>5. CASE g # h /\ cur[g] = cur[h] /\ (Inserts(h) \/ Reclaims(h))
    BY <2>2, <2>5 DEF Inserts, Reclaims
  <2>6. CASE g # h /\ cur[g] = cur[h] /\ (Owns(h) \/ Marks(h))
    <3>1. Working(g) /\ Mine(g) /\ Working(h) /\ Mine(h)
      BY <2>2, <2>6 DEF Owns, Marks, Working, Mine, Row
    <3> QED BY <1>0, <2>6, <3>1 DEF ClaimInv
  <2> QED BY <2>1, <2>3, <2>4, <2>5, <2>6
<1>3. ASSUME NEW h \in Attempts, Purges(h)
      PROVE  ~err'[g]
  <2>1. /\ at[h] = "purge" /\ at' = [at EXCEPT ![h] = "farewell"] /\ UNCHANGED <<cur, pm, err>> /\ Mine(h)
    BY <1>3 DEF Purges, Goto, local
  <2>2. g # h /\ at[g] = "mark" /\ err'[g] = err[g] /\ cur'[g] = cur[g] /\ cur[g] \in Messages
    BY <1>a, <2>1
  <2>3. CASE cur[g] = cur[h]
    <3>1. msg[cur[g]].id = pm[g]
      BY <1>3, <2>1, <2>2, PurgedRows DEF Mine
    <3>2. Mine(g) /\ Working(g) /\ Working(h)
      BY <2>1, <2>2, <2>3, <3>1 DEF Mine, Working
    <3> QED BY <1>0, <2>1, <2>2, <2>3, <3>2 DEF ClaimInv
  <2>4. CASE cur[g] # cur[h]
    <3>1. msg'[cur[g]] = msg[cur[g]]
      BY <1>3, <2>2, <2>4, PurgedRows
    <3>2. Mine(g) /\ msg[cur[g]].status = "processed"
      BY <2>1, <2>2, <3>1 DEF Mine, Row
    <3> QED BY <1>b, <2>2, <3>2
  <2> QED BY <2>3, <2>4
<1> QED BY <1>1, <1>2, <1>3, StepShapes

LEMMA FarewellStep ==
  ASSUME CoreInv, FarewellInv, [Next]_vars
  PROVE  FarewellInv'
<1>0. at \in [Attempts -> ChatSteps]
  BY DEF CoreInv, ChatTypeOK, InboundTypeOK
<1>1. ASSUME NEW h \in Attempts, Enter(h) \/ Ordinary(h) \/ NewStatus(h)
      PROVE  FarewellInv'
  <2>1. UNCHANGED <<cur, erasedBy>>
    BY <1>1 DEF Enter, Ordinary, NewStatus, local, deeds
  <2>2. at'[h] # "farewell" /\ \A g \in Attempts : g # h => at'[g] = at[g]
    <3>1. CASE Enter(h)
      BY <1>0, <3>1, EnterMoves DEF Enters, PassesBy, Goto, ActiveSteps, CardSteps, EditSteps
    <3>2. CASE Ordinary(h)
      BY <1>0, <3>2 DEF Ordinary, GoesOn, EndsRoute, Goto, ActiveSteps, CardSteps, EditSteps
    <3>3. CASE NewStatus(h)
      BY <1>0, <3>3 DEF NewStatus, Goto
    <3> QED BY <1>1, <3>1, <3>2, <3>3
  <2> QED BY <2>1, <2>2 DEF FarewellInv
<1>2. CASE \/ \E m \in Messages : Quarantine(m) \/ ClaimExpires(m) \/ ClaimOutlived(m) \/ DeleteExpiredTombstone(m)
           \/ \E u \in Users : PendingExpires(u)
           \/ WorkerStep \/ UNCHANGED vars
  <2>1. UNCHANGED <<at, cur>>
    BY <1>2 DEF Quarantine, ClaimExpires, ClaimOutlived, DeleteExpiredTombstone, PendingExpires, WorkerStep, FinalizeReceiptReview,
       SendReviewCard, vars, inboundVars, local
  <2>2. erasedBy \subseteq erasedBy'
    BY ErasedGrows
  <2> QED BY <2>1, <2>2 DEF FarewellInv
<1>3. ASSUME NEW h \in Attempts, OutsideStep(h)
      PROVE  FarewellInv'
  <2>1. /\ at'[h] # "farewell"
        /\ \A g \in Attempts : g # h => at'[g] = at[g] /\ cur'[g] = cur[g]
    BY <1>0, <1>3, OutsideMoves DEF Outside, Goto, OpenSteps
  <2>2. erasedBy \subseteq erasedBy'
    BY ErasedGrows
  <2> QED BY <2>1, <2>2 DEF FarewellInv
<1>4. ASSUME NEW h \in Attempts, Purges(h)
      PROVE  FarewellInv'
  BY <1>0, <1>4 DEF Purges, Goto, local, FarewellInv
<1> QED BY <1>1, <1>2, <1>3, <1>4, StepShapes DEF PlainStep

(* What is done stays done until an account is deleted. *)
LEMMA DoneStays ==
  ASSUME CoreInv, ClaimInv, OwnedInv, MarkInv, [Next]_vars, Calm', \A h \in Attempts : ~Purges(h), NEW m \in Messages
  PROVE  /\ Done(m) => Done(m)'
         /\ DoneOrReplying(m) => DoneOrReplying(m)'
<1>0. Calm /\ UNCHANGED faults /\ lapses = 0
  BY CalmSteps, CalmFaults
<1>a. /\ at \in [Attempts -> ChatSteps] /\ err \in [Attempts -> BOOLEAN] /\ cur \in [Attempts -> Messages]
  BY DEF CoreInv, ChatTypeOK, InboundTypeOK
<1>1. CASE PlainStep
  <2>1. /\ msg'[m].status = msg[m].status /\ UNCHANGED cur
        /\ \A g \in Attempts : Mine(g)' = Mine(g)
    BY <1>0, <1>1, PlainRows, SameMine DEF SameRows
  <2>2. \A g \in Attempts : Finished(g) => Finished(g)'
    BY <1>0, <1>1, <2>1, PlainEnds DEF Finished
  <2>3. \A g \in Attempts : at[g] = "reply" => at'[g] = "reply" \/ Finished(g)'
    <3> SUFFICES ASSUME NEW g \in Attempts, at[g] = "reply"
                 PROVE  at'[g] = "reply" \/ Finished(g)'
      OBVIOUS
    <3>1. Mine(g)
      BY <1>0, NotDone DEF LockedSteps
    <3> QED BY <1>0, <1>1, <2>1, <3>1, PlainEnds DEF Finished
  <2> QED BY <2>1, <2>2, <2>3 DEF Done, DoneOrReplying
<1>2. ASSUME NEW h \in Attempts, OutsideStep(h)
      PROVE  /\ Done(m) => Done(m)'
             /\ DoneOrReplying(m) => DoneOrReplying(m)'
  <2>1. /\ Inserts(h) \/ Reclaims(h) \/ Owns(h) \/ Marks(h) \/ LeavesRow(h)
        /\ at'[h] \notin {"idle", "claim"} => cur'[h] = cur[h]
        /\ at[h] \notin LockedSteps
        /\ at[h] = "mark" /\ Mine(h) => Marks(h)
    BY <1>0, <1>2, OutsideRows, CalmMark
  <2>2. /\ \A k \in Messages : k # cur[h] => msg'[k] = msg[k]
        /\ \A g \in Attempts : g # h => at'[g] = at[g] /\ cur'[g] = cur[g] /\ pm'[g] = pm[g] /\ err'[g] = err[g]
    BY <1>2, <1>a, OutsideMoves DEF Outside, Goto
  <2>3. ASSUME msg[m].status = "processed"
        PROVE  msg'[m].status = "processed"
    <3>1. CASE cur[h] # m \/ LeavesRow(h)
      BY <2>2, <2>3, <3>1 DEF LeavesRow
    <3>2. CASE cur[h] = m /\ (Inserts(h) \/ Reclaims(h))
      BY <2>3, <3>2 DEF Inserts, Reclaims, Row, Claimable
    <3>3. CASE cur[h] = m /\ Owns(h)
      BY <2>3, <3>3 DEF Owns
    <3>4. CASE cur[h] = m /\ Marks(h)
      <4>1. ~err[h]
        BY <1>0, <2>3, <3>4 DEF Marks, MarkInv
      <4> QED BY <3>4, <4>1 DEF Marks
    <3> QED BY <2>1, <3>1, <3>2, <3>3, <3>4
  <2>4. ASSUME NEW g \in Attempts, Finished(g), cur[g] = m
        PROVE  Done(m)'
    <3>1. CASE g = h
      BY <2>1, <2>4, <3>1 DEF Finished, Marks, Done
    <3>2. CASE g # h
      <4>1. Working(g) /\ Mine(g) /\ at[g] = "mark" /\ ~err[g]
        BY <2>4 DEF Finished, Working
      <4>2. CASE cur[h] # m \/ LeavesRow(h)
        <5>1. msg'[m] = msg[m]
          BY <2>2, <4>2 DEF LeavesRow
        <5> QED BY <2>2, <2>4, <3>2, <4>1, <5>1 DEF Done, Finished, Mine, Row
      <4>3. CASE cur[h] = m /\ (Inserts(h) \/ Reclaims(h))
        <5>1. msg[m].status = "processed" \/ (msg[m].status = "received" /\ msg[m].leased)
          BY <1>0, <2>4, <4>1 DEF ClaimInv
        <5> QED BY <4>3, <5>1 DEF Inserts, Reclaims, Row, Claimable
      <4>4. CASE cur[h] = m /\ (Owns(h) \/ Marks(h))
        <5>1. Working(h) /\ Mine(h)
          BY <4>4 DEF Owns, Marks, Working
        <5> QED BY <1>0, <2>4, <3>2, <4>1, <4>4, <5>1 DEF ClaimInv
      <4> QED BY <2>1, <4>2, <4>3, <4>4
    <3> QED BY <3>1, <3>2
  <2>5. ASSUME NEW g \in Attempts, at[g] = "reply", cur[g] = m
        PROVE  at'[g] = "reply" /\ cur'[g] = m
    BY <2>1, <2>2, <2>5 DEF LockedSteps
  <2>6. Done(m) => Done(m)'
    BY <2>3, <2>4 DEF Done
  <2> QED BY <2>5, <2>6 DEF DoneOrReplying
<1> QED BY <1>1, <1>2, StepShapes

LEMMA ScriptFixed ==
  ASSUME CoreInv, [Next]_vars
  PROVE  UNCHANGED script
<1>1. ASSUME NEW h \in Attempts, Enter(h) \/ Ordinary(h) \/ NewStatus(h) \/ Purges(h)
      PROVE  UNCHANGED script
  BY <1>1 DEF Enter, Ordinary, NewStatus, Purges, setting
<1>2. ASSUME NEW h \in Attempts, OutsideStep(h)
      PROVE  UNCHANGED script
  BY <1>2, OutsideMoves DEF Outside, setting
<1>3. CASE \/ \E m \in Messages : Quarantine(m) \/ ClaimExpires(m) \/ ClaimOutlived(m) \/ DeleteExpiredTombstone(m)
           \/ \E u \in Users : PendingExpires(u)
           \/ WorkerStep \/ UNCHANGED vars
  BY <1>3 DEF Quarantine, ClaimExpires, ClaimOutlived, DeleteExpiredTombstone, PendingExpires, WorkerStep, FinalizeReceiptReview,
     SendReviewCard, vars, inboundVars, setting
<1> QED BY <1>1, <1>2, <1>3, StepShapes DEF PlainStep

(* What a step under the lock that sends nothing does to the open question:  *)
(* it keeps it, or closes it ...                                             *)
KeepsQuestion(h) ==
  /\ pending' = pending \/ pending' = [pending EXCEPT ![who[h]] = NoPending]
  /\ at'[h] = "reply" => say'[h].kind = "notice"
  /\ at'[h] # "markDeleting"

(* ... or poses one, with a reply that is new.                               *)
PosesQuestion(h) ==
  /\ at'[h] = "reply" /\ say'[h] = Asks(who[h])' /\ pending'[who[h]].kind # "none"
  /\ Key(say[h], cur[h])' \notin outbox'
  /\ \/ at[h] \in {"askEdit", "showAgain"} /\ pending'[who[h]].tx = pending[who[h]].tx
     \/ at[h] = "draft" /\ pending'[who[h]].tx = cur[h]
     \/ pending'[who[h]].kind \in {"delrecent", "delaccount"}

(* A reply that is not a card is new for a message that is not done. *)
LEMMA NewReply ==
  ASSUME CoreInv, ClaimInv, OwnedInv, DoneInv, Calm, NEW h \in Attempts, at[h] \in LockedSteps, at[h] # "farewell",
         NEW k \in outbox, k.kind # "card" \/ script[k.of] = "entry"
  PROVE  k.of # cur[h]
<1>1. Done(k.of)
  BY DEF DoneInv
<1> QED BY <1>1, NotDone

LEMMA PosedReply ==
  ASSUME CoreInv, ClaimInv, OwnedInv, DoneInv, Calm, NEW h \in Attempts, at[h] \in LockedSteps, at[h] # "farewell",
         UNCHANGED <<cur, outbox>>, say'[h].kind # "card"
  PROVE  Key(say[h], cur[h])' \notin outbox'
<1>1. Key(say[h], cur[h])' = [kind |-> say'[h].kind, of |-> cur[h], ver |-> 0]
  BY DEF Key
<1> DEFINE k == [kind |-> say'[h].kind, of |-> cur[h], ver |-> 0]
<1>2. k.kind # "card" /\ k.of = cur[h]
  OBVIOUS
<1> HIDE DEF k
<1>3. k \notin outbox
  BY <1>2, NewReply
<1> QED BY <1>1, <1>3 DEF k

LEMMA QuietAsks ==
  ASSUME CoreInv, ClaimInv, OwnedInv, SaidInv, FitInv, DoneInv, Calm, NEW h \in Attempts, OrdinaryStep(h),
         ~Reply(h), ~DeletionConfirmation(h), UNCHANGED errors
  PROVE  KeepsQuestion(h) \/ PosesQuestion(h)
<1> USE DEF Then, Goto, Silent, inboundRows, records, speech, deeds
<1>0. /\ pending \in [Users -> PendingRow] /\ say \in [Attempts -> Saying] /\ at \in [Attempts -> ChatSteps]
      /\ cur \in [Attempts -> Messages]
  BY DEF CoreInv, ChatTypeOK, InboundTypeOK, RecordsTypeOK, SpeechTypeOK
<1>a. at[h] \in LockedSteps /\ UNCHANGED <<cur, who>>
  BY OrdinaryMoves DEF Ordinary, GoesOn, EndsRoute, LockedSteps, GoingSteps
<1>b. who[h] \in Users
  BY <1>a DEF CoreInv, LockInv
<1>c. at[h] \in ActiveSteps => say[h].kind = "notice"
  BY DEF SaidInv, Prepared
<1>d. at[h] \notin {"reply", "farewell"} /\ UNCHANGED outbox
  BY QuietMoves DEF Quiet
<1>e. ASSUME NEW k, NEW t, OpenQuestion(who[h], k, t), ReplyWith(h, Question(k, t)), at' = [at EXCEPT ![h] = "reply"]
      PROVE  /\ at'[h] = "reply" /\ say'[h] = Asks(who[h])' /\ say'[h].kind = k /\ say'[h].tx = t
             /\ pending'[who[h]].kind = k /\ pending'[who[h]].tx = t
  <2>1. pending'[who[h]].kind = k /\ pending'[who[h]].tx = t
    BY <1>0, <1>b, <1>e DEF OpenQuestion
  <2>2. say'[h] = Question(k, t) /\ at'[h] = "reply"
    BY <1>0, <1>e DEF ReplyWith
  <2>3. Asks(who[h])' = Question(pending'[who[h]].kind, pending'[who[h]].tx)
    BY <1>a DEF Asks
  <2> QED BY <2>1, <2>2, <2>3 DEF Question
<1>f. ASSUME NEW k, NEW t, k # "card", k # "none", OpenQuestion(who[h], k, t), ReplyWith(h, Question(k, t)),
             at' = [at EXCEPT ![h] = "reply"],
             k \in {"delrecent", "delaccount"} \/ (at[h] = "askEdit" /\ t = pending[who[h]].tx)
      PROVE  PosesQuestion(h)
  <2>1. /\ at'[h] = "reply" /\ say'[h] = Asks(who[h])' /\ say'[h].kind = k
        /\ pending'[who[h]].kind = k /\ pending'[who[h]].tx = t
    BY <1>e, <1>f
  <2>2. Key(say[h], cur[h])' \notin outbox'
    BY <1>a, <1>d, <1>f, <2>1, PosedReply
  <2> QED BY <1>f, <2>1, <2>2 DEF PosesQuestion
<1>1. CASE AskEdit(h)
  BY <1>f, <1>1 DEF AskEdit
<1>2. CASE AskDelete(h)
  BY <1>f, <1>2 DEF AskDelete
<1>3. CASE AskDeleteRecent(h)
  <2>1. at[h] = "askDeleteRecent" /\ at' = [at EXCEPT ![h] = "reply"]
    BY <1>3 DEF AskDeleteRecent
  <2>2. CASE UNCHANGED <<pending, say>>
    BY <1>0, <1>c, <2>1, <2>2 DEF KeepsQuestion, ActiveSteps
  <2>3. ASSUME NEW t, OpenQuestion(who[h], "delrecent", t), ReplyWith(h, Question("delrecent", t))
        PROVE  PosesQuestion(h)
    BY <1>f, <2>1, <2>3
  <2> QED BY <1>3, <2>2, <2>3 DEF AskDeleteRecent
<1>4. CASE ShowAgain(h)
  <2> DEFINE t == pending[who[h]].tx
  <2>1. /\ OpenQuestion(who[h], "card", t) /\ ReplyWith(h, Question("card", t)) /\ at' = [at EXCEPT ![h] = "reply"]
        /\ at[h] = "showAgain" /\ UNCHANGED tx
    BY <1>4 DEF ShowAgain
  <2> HIDE DEF t
  <2>2. /\ at'[h] = "reply" /\ say'[h] = Asks(who[h])' /\ say'[h].kind = "card" /\ say'[h].tx = t
        /\ pending'[who[h]].kind = "card" /\ pending'[who[h]].tx = t
    BY <1>e, <2>1
  <2>3. Key(say[h], cur[h])' = CardKey(t)
    BY <2>1, <2>2 DEF Key, CardKey
  <2>4. CardKey(t) \notin outbox
    BY <2>1 DEF SaidInv, Prepared, t
  <2> QED BY <1>d, <2>1, <2>2, <2>3, <2>4 DEF PosesQuestion, t
<1>5. CASE CreateManualDraft(h)
  <2>1. /\ OpenQuestion(who[h], "card", cur[h]) /\ ReplyWith(h, Question("card", cur[h])) /\ at' = [at EXCEPT ![h] = "reply"]
        /\ at[h] = "draft"
    BY <1>5 DEF CreateManualDraft
  <2>2. /\ at'[h] = "reply" /\ say'[h] = Asks(who[h])' /\ say'[h].kind = "card" /\ say'[h].tx = cur[h]
        /\ pending'[who[h]].kind = "card" /\ pending'[who[h]].tx = cur[h]
    BY <1>e, <2>1
  <2>3. /\ Key(say[h], cur[h])'.of = cur[h]
    BY <2>2 DEF Key
  <2>4. script[cur[h]] = "entry"
    BY <2>1 DEF FitInv, StepFits, DraftSteps
  <2>5. Key(say[h], cur[h])' \notin outbox
    BY <1>a, <1>d, <2>3, <2>4, NewReply
  <2> QED BY <1>d, <2>1, <2>2, <2>5 DEF PosesQuestion
<1>6. CASE ClearPendingAction(h)
  <2>1. at[h] = "clear" /\ at' = [at EXCEPT ![h] = "reply"] /\ pending' = [pending EXCEPT ![who[h]] = NoPending]
        /\ UNCHANGED say
    BY <1>6 DEF ClearPendingAction
  <2> QED BY <1>0, <1>c, <2>1 DEF KeepsQuestion, ActiveSteps
<1>7. CASE ~(AskEdit(h) \/ AskDelete(h) \/ AskDeleteRecent(h) \/ ShowAgain(h) \/ CreateManualDraft(h) \/ ClearPendingAction(h))
  <2>1. UNCHANGED pending
    BY <1>d, <1>7, Zenon DEF OrdinaryStep, CardStep, ConfirmTransaction, SettleReceipt, DiscardReceipt, DiscardTransaction,
       SoftDelete, ApplyEdit, RejectEdit, ResolveMerchant, AddMerchantAlias, Learn, RejectEntry, ImageStep, RegisterImage,
       IncrementUsage, RefuseImage, QueueImage, TransitionReceipt, EnqueueReceiptJob, DeleteReceivedReceipt,
       EntryStep, DeleteRecent, DeleteRecentRefused, Recategorise, PersistInsight, WriteExport, RemoveExportArtifacts,
       LockedStatementFails
  <2>2. ~LockedStatementFails(h)
    <3>1. errors # errors + 1
      BY DEF CoreInv, ChatTypeOK, InboundTypeOK
    <3> QED BY <3>1 DEF LockedStatementFails
  <2>3. at'[h] # "markDeleting"
    <3>1. \A s : AfterRegister(s) \in {"queue", "enqueue", "reply"}
      BY DEF AfterRegister
    <3> HIDE DEF AfterRegister
    <3>2. CASE CardStep(h)
      BY <1>0, <3>2 DEF CardStep, ConfirmTransaction, SettleReceipt, DiscardReceipt, DiscardTransaction, SoftDelete,
         AskEdit, ApplyEdit, RejectEdit, ShowAgain, CreateManualDraft, ResolveMerchant, AddMerchantAlias, Learn,
         RejectEntry, Leave, EndRoute
    <3>3. CASE ImageStep(h)
      BY <1>0, <3>1, <3>3 DEF ImageStep, RegisterImage, IncrementUsage, RefuseImage, QueueImage, TransitionReceipt,
         EnqueueReceiptJob, DeleteReceivedReceipt, Leave, EndRoute
    <3>4. CASE EntryStep(h) \/ RemoveExportArtifacts(h)
      BY <1>0, <3>4 DEF EntryStep, AskDeleteRecent, DeleteRecent, SoftDelete, DeleteRecentRefused, Recategorise,
         PersistInsight, WriteExport, RemoveExportArtifacts, Leave, EndRoute
    <3> QED BY <1>7, <2>2, <3>2, <3>3, <3>4 DEF OrdinaryStep
  <2>4. at'[h] = "reply" => say'[h].kind = "notice"
    <3>1. CASE UNCHANGED say
      <4>1. at'[h] = "reply" => at[h] \in ActiveSteps
        BY <1>0, <1>a, <1>d, OrdinaryMoves DEF Ordinary, GoesOn, EndsRoute
      <4> QED BY <1>c, <3>1, <4>1
    <3>2. CASE Recategorise(h)
      <4>1. UNCHANGED say \/ \E t : say' = [say EXCEPT ![h] = Question("notice", t)]
        BY <3>2 DEF Recategorise, ReplyWith
      <4>2. CASE \E t : say' = [say EXCEPT ![h] = Question("notice", t)]
        BY <1>0, <4>2 DEF Question
      <4> QED BY <3>1, <4>1, <4>2
    <3>3. CASE ~Recategorise(h)
      <4>1. UNCHANGED say
        BY <1>7, <2>2, <3>3, Zenon DEF OrdinaryStep, CardStep, ConfirmTransaction, SettleReceipt, DiscardReceipt, DiscardTransaction,
           SoftDelete, ApplyEdit, RejectEdit, ResolveMerchant, AddMerchantAlias, Learn, RejectEntry, ImageStep, RegisterImage,
           IncrementUsage, RefuseImage, QueueImage, TransitionReceipt, EnqueueReceiptJob, DeleteReceivedReceipt,
           EntryStep, DeleteRecent, DeleteRecentRefused, PersistInsight, WriteExport, RemoveExportArtifacts
      <4> QED BY <3>1, <4>1
    <3> QED BY <3>2, <3>3
  <2> QED BY <2>1, <2>3, <2>4 DEF KeepsQuestion
<1> QED BY <1>1, <1>2, <1>3, <1>4, <1>5, <1>6, <1>7

LEMMA AskedKept ==
  ASSUME NEW h \in Attempts, OrdinaryStep(h), ~Reply(h), ~DeletionConfirmation(h)
  PROVE  UNCHANGED <<asked, review>>
  BY Zenon DEF OrdinaryStep, CardStep, ConfirmTransaction, SettleReceipt, DiscardReceipt, DiscardTransaction,
     SoftDelete, AskEdit, ApplyEdit, RejectEdit, ShowAgain, CreateManualDraft, ResolveMerchant, AddMerchantAlias, Learn,
     RejectEntry, ImageStep, RegisterImage, IncrementUsage, RefuseImage, QueueImage, TransitionReceipt, EnqueueReceiptJob,
     DeleteReceivedReceipt, EntryStep, AskDeleteRecent, DeleteRecent, DeleteRecentRefused, Recategorise, PersistInsight,
     WriteExport, ClearPendingAction, AskDelete, RemoveExportArtifacts, LockedStatementFails, Silent, speech

(* A step that sends only for what is done, and asks only about an entry     *)
(* that is done or about to be.                                              *)
LEMMA DoneKept ==
  ASSUME CoreInv, ClaimInv, OwnedInv, MarkInv, DoneInv, [Next]_vars, Calm', \A h \in Attempts : ~Purges(h),
         \A k \in outbox' : k \in outbox \/ (k.kind # "card" \/ script[k.of] = "entry" => Done(k.of)'),
         \A u \in Users : \/ pending'[u].kind \notin {"card", "edit"}
                          \/ pending[u].kind \in {"card", "edit"} /\ pending'[u].tx = pending[u].tx
                          \/ script[pending'[u].tx] # "entry"
                          \/ DoneOrReplying(pending[u].tx)'
  PROVE  DoneInv'
<1>0. Calm /\ UNCHANGED script
  BY CalmSteps, ScriptFixed
<1>1. ASSUME NEW k \in outbox', k.kind # "card" \/ script[k.of] = "entry"
      PROVE  Done(k.of)'
  <2>1. CASE k \in outbox
    <3>1. Done(k.of) /\ k.of \in Messages
      BY <1>0, <1>1, <2>1 DEF DoneInv, CoreInv, ChatTypeOK, SpeechTypeOK, OutKey
    <3> QED BY <3>1, DoneStays
  <2> QED BY <1>1, <2>1
<1>2. ASSUME NEW u \in Users, pending'[u].kind \in {"card", "edit"}, script[pending'[u].tx] = "entry"
      PROVE  DoneOrReplying(pending[u].tx)'
  <2>1. CASE pending[u].kind \in {"card", "edit"} /\ pending'[u].tx = pending[u].tx
    <3>1. PICK t \in Messages : pending[u].tx = t
      BY <2>1 DEF CoreInv, ChatTypeOK, RecordsTypeOK, PendingRow, About
    <3>2. DoneOrReplying(t)
      BY <1>0, <1>2, <2>1, <3>1 DEF DoneInv
    <3>3. DoneOrReplying(t)'
      BY <3>2, DoneStays
    <3>4. pending'[u].tx = t
      BY <2>1, <3>1
    <3> QED BY <3>3, <3>4 DEF DoneOrReplying, Done
  <2> QED BY <1>2, <2>1
<1> QED BY <1>0, <1>1, <1>2 DEF DoneInv

LEMMA DoneStep ==
  ASSUME CoreInv, ClaimInv, OwnedInv, TombInv, SaidInv, FitInv, MarkInv, FarewellInv, DoneInv, MeetInv, [Next]_vars
  PROVE  DoneInv'
<1> SUFFICES ASSUME Calm'
             PROVE  DoneInv'
  BY DEF DoneInv
<1>0. Calm /\ UNCHANGED faults /\ errors + lapses = 0
  BY CalmSteps, CalmFaults
<1>a. /\ at \in [Attempts -> ChatSteps] /\ cur \in [Attempts -> Messages] /\ pending \in [Users -> PendingRow]
      /\ say \in [Attempts -> Saying]
  BY DEF CoreInv, ChatTypeOK, InboundTypeOK, RecordsTypeOK, SpeechTypeOK
<1>1. ASSUME NEW h \in Attempts, Purges(h)
      PROVE  DoneInv'
  <2>1. outbox' = {} /\ pending' = [pending EXCEPT ![who[h]] = NoPending] /\ at[h] = "purge"
    BY <1>1 DEF Purges, EraseRecords
  <2>2. identity = who[h] /\ who[h] \in Users
    BY <2>1, LoneHolder DEF LockedSteps, GoingSteps
  <2>3. \A u \in Users : pending'[u].kind = "none"
    BY <1>a, <2>1, <2>2 DEF FitInv, NoPending
  <2> QED BY <2>1, <2>3 DEF DoneInv
<1> SUFFICES ASSUME \A h \in Attempts : ~Purges(h)
             PROVE  DoneInv'
  BY <1>1
<1>b. ASSUME UNCHANGED outbox,
             \A u \in Users : \/ pending'[u].kind \notin {"card", "edit"}
                              \/ pending[u].kind \in {"card", "edit"} /\ pending'[u].tx = pending[u].tx
      PROVE  DoneInv'
  BY <1>b, DoneKept
<1>c. ASSUME UNCHANGED pending, \A k \in outbox' : k \in outbox \/ (k.kind # "card" \/ script[k.of] = "entry" => Done(k.of)')
      PROVE  DoneInv'
  BY <1>c, DoneKept
<1>2. CASE UNCHANGED chatVars
  BY <1>b, <1>2 DEF chatVars, records, speech
<1>3. ASSUME NEW h \in Attempts, Enter(h)
      PROVE  DoneInv'
  <2>1. UNCHANGED outbox /\ (pending' = pending \/ pending' = [pending EXCEPT ![who[h]] = Open(who[h])])
    BY <1>3, EnterMoves DEF Enters, PassesBy, speech
  <2>2. \A u \in Users : pending'[u] = pending[u] \/ pending'[u].kind = "none"
    BY <1>a, <2>1 DEF Open, NoPending
  <2> QED BY <1>b, <2>1, <2>2
<1>4. ASSUME NEW h \in Attempts, OrdinaryStep(h)
      PROVE  DoneInv'
  <2>0. Ordinary(h) /\ PlainStep
    BY <1>4, OrdinaryMoves DEF PlainStep
  <2>1. CASE Reply(h)
    <3>1. /\ at[h] = "reply" /\ UNCHANGED <<pending, cur>> /\ outbox' = outbox \cup {Key(say[h], cur[h])} /\ at'[h] = "mark"
      BY <1>a, <2>1 DEF Reply, Leave, EndRoute, Goto, records, Enqueue
    <3>2. Finished(h)'
      <4>1. at'[h] = "mark" /\ ~err'[h]
        BY <1>0, <2>0, <3>1, PlainEnds
      <4>2. Mine(h)
        BY <1>0, <3>1, NotDone DEF LockedSteps
      <4>3. Mine(h)'
        BY <1>0, <2>0, <4>2, PlainRows, SameMine
      <4> QED BY <4>1, <4>3 DEF Finished
    <3>a. PICK k : k = Key(say[h], cur[h])
      OBVIOUS
    <3>b. PICK m : m = cur[h]
      OBVIOUS
    <3>c. Done(m)'
      BY <3>1, <3>2, <3>b DEF Done
    <3>3. ASSUME k.kind # "card"
          PROVE  Done(k.of)'
      <4>1. k.of = m
        BY <3>3, <3>a, <3>b, KeyShape
      <4> QED BY <3>c, <4>1
    <3>4. ASSUME k.kind = "card", script[k.of] = "entry"
          PROVE  Done(k.of)'
      <4>0. PICK t : t = say[h].tx
        OBVIOUS
      <4>1. say[h].kind = "card" /\ k = CardKey(t)
        BY <3>4, <3>a, <4>0, KeyShape
      <4>2. k.of = t
        BY <4>1 DEF CardKey
      <4>3. t \in Messages
        BY <1>a, <4>0, <4>1 DEF Saying, About
      <4>4. say[h] = Asks(who[h])
        BY <1>0, <3>1, <4>1 DEF MeetInv, Speaks
      <4>5. who[h] \in Users /\ \A g \in Attempts : at[g] = "reply" => g = h
        BY <3>1, LoneHolder DEF LockedSteps
      <4>6. pending[who[h]].kind = "card" /\ pending[who[h]].tx = t
        BY <4>0, <4>1, <4>4 DEF Asks, Question
      <4>7. DoneOrReplying(t)
        BY <1>0, <3>4, <4>2, <4>5, <4>6 DEF DoneInv
      <4>8. Done(t)'
        <5>1. CASE Done(t)
          BY <4>3, <5>1, DoneStays
        <5>2. CASE cur[h] = t
          BY <3>b, <3>c, <5>2
        <5> QED BY <4>5, <4>7, <5>1, <5>2 DEF DoneOrReplying
      <4> QED BY <4>2, <4>8
    <3>5. \A j \in outbox' : j \in outbox \/ (j.kind # "card" \/ script[j.of] = "entry" => Done(j.of)')
      <4>1. \A j \in outbox' : j \in outbox \/ j = k
        BY <3>1, <3>a
      <4>2. k.kind # "card" \/ script[k.of] = "entry" => Done(k.of)'
        BY <3>3, <3>4
      <4> QED BY <4>1, <4>2, Zenon
    <3> QED BY <1>c, <3>1, <3>5
  <2>2. CASE DeletionConfirmation(h)
    <3>1. /\ at[h] = "farewell" /\ UNCHANGED pending /\ outbox' = outbox \cup {Key(Notice, cur[h])}
      BY <2>2 DEF DeletionConfirmation, records, Enqueue
    <3>2. Done(cur[h])
      BY <1>0, <3>1 DEF FarewellInv, TombInv, Done
    <3> DEFINE k == Key(Notice, cur[h])
    <3>3. k.of = cur[h]
      BY KeyShape DEF Notice
    <3> HIDE DEF k
    <3>4. PICK m \in Messages : m = cur[h]
      BY <1>a
    <3>5. Done(m)'
      BY <3>2, <3>4, DoneStays
    <3>6. \A j \in outbox' : j \in outbox \/ j.of = m
      BY <3>1, <3>3, <3>4 DEF k
    <3> QED BY <1>c, <3>1, <3>5, <3>6, Zenon
  <2>3. CASE ~Reply(h) /\ ~DeletionConfirmation(h)
    <3>1. UNCHANGED outbox
      BY <1>4, <2>3, QuietMoves DEF Quiet
    <3>2. KeepsQuestion(h) \/ PosesQuestion(h)
      BY <1>0, <1>4, <2>3, QuietAsks DEF faults
    <3>3. CASE KeepsQuestion(h)
      <4>1. \A u \in Users : pending'[u] = pending[u] \/ pending'[u].kind = "none"
        BY <1>a, <3>3 DEF KeepsQuestion, NoPending
      <4> QED BY <1>b, <3>1, <4>1
    <3>4. CASE PosesQuestion(h)
      <4>0. /\ UNCHANGED cur /\ at'[h] = "reply" /\ who[h] \in Users
            /\ \A u \in Users : u # who[h] => pending'[u] = pending[u]
        <5>1. at[h] \in LockedSteps
          BY <2>0 DEF Ordinary, GoesOn, EndsRoute, LockedSteps, GoingSteps
        <5> QED BY <2>0, <3>4, <5>1 DEF Ordinary, OwnRowsOnly, PosesQuestion, CoreInv, LockInv
      <4>1. CASE at[h] \in {"askEdit", "showAgain"} /\ pending'[who[h]].tx = pending[who[h]].tx
        <5>1. pending[who[h]].kind \in {"card", "edit"}
          BY <4>1 DEF CoreInv, QuestionInv, CardSteps, EditSteps
        <5> QED BY <1>b, <3>1, <4>0, <4>1, <5>1
      <4>2. CASE pending'[who[h]].kind \in {"delrecent", "delaccount"}
        BY <1>b, <3>1, <4>0, <4>2
      <4>3. CASE pending'[who[h]].tx = cur[h]
        <5>1. \A u \in Users : pending'[u] = pending[u] \/ (\E g \in Attempts : at'[g] = "reply" /\ cur'[g] = pending'[u].tx)
          BY <4>0, <4>3
        <5>2. \A u \in Users : \/ pending'[u].kind \notin {"card", "edit"}
                               \/ pending[u].kind \in {"card", "edit"} /\ pending'[u].tx = pending[u].tx
                               \/ DoneOrReplying(pending[u].tx)'
          BY <5>1 DEF DoneOrReplying
        <5> QED BY <3>1, <5>2, DoneKept
      <4> QED BY <3>4, <4>1, <4>2, <4>3 DEF PosesQuestion
    <3> QED BY <3>2, <3>3, <3>4
  <2> QED BY <2>1, <2>2, <2>3
<1>5. ASSUME NEW h \in Attempts, NewStatus(h)
      PROVE  DoneInv'
  BY <1>b, <1>5 DEF NewStatus, records, speech
<1>6. ASSUME NEW u \in Users, PendingExpires(u)
      PROVE  DoneInv'
  <2>1. UNCHANGED outbox /\ pending' = [pending EXCEPT ![u].expired = TRUE]
    BY <1>6 DEF PendingExpires, speech
  <2>2. \A w \in Users : pending'[w].kind = pending[w].kind /\ pending'[w].tx = pending[w].tx
    BY <1>a, <2>1 DEF PendingRow
  <2> QED BY <1>b, <2>1, <2>2
<1>7. CASE SendReviewCard
  <2>1. /\ UNCHANGED pending /\ review # 0 /\ review \in Messages
        /\ outbox' = outbox \cup {Key(Question("card", review), review)}
    BY <1>7 DEF SendReviewCard, records, Enqueue, CoreInv, ChatTypeOK, SpeechTypeOK, Subjects
  <2>2. script[review] # "entry"
    <3>1. receipt[review].status # "none"
      <4>1. receipt[review].owner \in Users /\ receipt[review] \in Document
        BY <2>1 DEF CoreInv, LockInv, ChatTypeOK, RecordsTypeOK
      <4>2. NoUser \notin Users
        BY DEF NoUser, Users
      <4> QED BY <4>1, <4>2 DEF Document, ReceiptStatus
    <3> QED BY <2>1, <3>1 DEF FitInv
  <2> DEFINE k == Key(Question("card", review), review)
  <2>3. k.kind = "card" /\ k.of = review
    BY DEF Key, Question
  <2> HIDE DEF k
  <2>4. \A j \in outbox' : j \in outbox \/ (j.kind = "card" /\ script[j.of] # "entry")
    BY <2>1, <2>2, <2>3 DEF k
  <2> QED BY <1>c, <2>1, <2>4
<1>8. ASSUME NEW n \in Messages, FinalizeReceiptReview(n)
      PROVE  DoneInv'
  <2>1. UNCHANGED outbox /\ receipt[n].status = "queued" /\ OpenQuestion(receipt[n].owner, "card", n)
    BY <1>8 DEF FinalizeReceiptReview, Reviewable, ReviewOf
  <2>2. script[n] # "entry"
    BY <2>1 DEF FitInv
  <2>3. \A u \in Users : pending'[u] = pending[u] \/ pending'[u].tx = n
    BY <1>a, <2>1 DEF OpenQuestion
  <2>4. \A u \in Users : \/ pending'[u].kind \notin {"card", "edit"}
                         \/ pending[u].kind \in {"card", "edit"} /\ pending'[u].tx = pending[u].tx
                         \/ script[pending'[u].tx] # "entry"
    BY <2>2, <2>3
  <2> QED BY <2>1, <2>4, DoneKept
<1>9. CASE UNCHANGED vars
  BY <1>2, <1>9 DEF vars
<1>10. ASSUME NEW h \in Attempts, PurgeAccountData(h)
       PROVE  DoneInv'
  BY <1>2, <1>10, PurgeMoves
<1>11. CASE Next
  BY <1>2, <1>3, <1>4, <1>5, <1>6, <1>7, <1>8, <1>10, <1>11, StepKinds, NewStatusMoves DEF WorkerStep
<1> QED BY <1>9, <1>11

LEMMA MeetKept ==
  ASSUME CoreInv, MeetInv, Calm, UNCHANGED <<tx, receipt, outbox, asked, say, review>>,
         \A u \in Users : pending'[u].kind = pending[u].kind /\ pending'[u].tx = pending[u].tx,
         \A g \in Attempts : \/ at[g] # "reply" /\ at'[g] \notin {"reply", "markDeleting"}
                             \/ at'[g] = at[g] /\ cur'[g] = cur[g] /\ who'[g] = who[g]
  PROVE  MeetInv'
<1>1. \A u \in Users : Asks(u)' = Asks(u)
  BY DEF Asks
<1>2. \A g \in Attempts : at[g] \in {"reply", "markDeleting"} => who[g] \in Users
  BY DEF CoreInv, LockInv, LockedSteps, ActiveSteps
<1>3. ASSUME NEW g \in Attempts
      PROVE  Speaks(g)' /\ (at'[g] = "markDeleting" => pending'[who'[g]].kind # "none")
  <2>1. CASE at'[g] \notin {"reply", "markDeleting"}
    BY <2>1 DEF Speaks
  <2>2. CASE at'[g] \in {"reply", "markDeleting"}
    <3>1. at'[g] = at[g] /\ cur'[g] = cur[g] /\ who'[g] = who[g] /\ who[g] \in Users
      BY <1>2, <2>2
    <3>2. Speaks(g) /\ (at[g] = "markDeleting" => pending[who[g]].kind # "none")
      BY DEF MeetInv
    <3>3. Key(say[g], cur[g])' = Key(say[g], cur[g])
      BY <3>1 DEF Key
    <3>4. Asks(who[g])' = Asks(who[g])
      BY <1>1, <3>1 DEF Asks
    <3>5. at'[g] = "markDeleting" => pending'[who'[g]].kind # "none"
      BY <3>1, <3>2
    <3> HIDE DEF Key, Asks
    <3> QED BY <3>1, <3>2, <3>3, <3>4, <3>5 DEF Speaks
  <2> QED BY <2>1, <2>2
<1>4. ASSUME NEW u \in Users
      PROVE  Put(u)'
  <2>1. Put(u)
    BY DEF MeetInv
  <2> QED BY <1>1, <2>1 DEF Put
<1>5. ReviewAsks'
  <2>1. ReviewAsks
    BY DEF MeetInv
  <2>2. review # 0 => receipt[review].owner \in Users
    BY DEF CoreInv, LockInv
  <2>3. CardKey(review)' = CardKey(review)
    BY DEF CardKey
  <2>4. review # 0 => Asks(receipt[review].owner)' = Asks(receipt[review].owner)
    BY <1>1, <2>2 DEF Asks
  <2> HIDE DEF Asks, CardKey
  <2> QED BY <2>1, <2>3, <2>4 DEF ReviewAsks
<1> QED BY <1>3, <1>4, <1>5 DEF MeetInv

(* An attempt under the lock that goes on: no other one has a reply to send, *)
(* and the open question has been put.                                       *)
LEMMA AloneMeets ==
  ASSUME CoreInv, FitInv, MeetInv, Calm, NEW h \in Attempts, at[h] \in LockedSteps, at[h] \notin {"reply", "farewell"}
  PROVE  /\ review = 0 /\ \A g \in Attempts : g # h => at[g] \notin {"reply", "markDeleting"}
         /\ \A u \in Users : pending[u].kind # "none" => u = who[h] /\ asked = Asks(u)
<1>1. /\ identity = who[h] /\ review = 0 /\ \A g \in Attempts : g # h => at[g] \notin LockedSteps \/ at[g] = "farewell"
  BY LoneHolder
<1>2. \A g \in Attempts : g # h => at[g] \notin {"reply", "markDeleting"}
  BY <1>1 DEF LockedSteps, ActiveSteps
<1>3. ASSUME NEW u \in Users, pending[u].kind # "none"
      PROVE  u = who[h] /\ asked = Asks(u)
  <2>1. u = who[h]
    BY <1>1, <1>3 DEF FitInv
  <2>2. Put(u)
    BY DEF MeetInv
  <2> QED BY <1>1, <1>2, <1>3, <2>1, <2>2 DEF Put
<1> QED BY <1>1, <1>2, <1>3

LEMMA ReplyMeets ==
  ASSUME CoreInv, FitInv, MeetInv, Calm, NEW h \in Attempts, Reply(h)
  PROVE  MeetInv'
<1>0. at \in [Attempts -> ChatSteps] /\ pending \in [Users -> PendingRow]
  BY DEF CoreInv, ChatTypeOK, InboundTypeOK, RecordsTypeOK
<1>1. /\ at[h] = "reply" /\ at' = [at EXCEPT ![h] = "mark"] /\ Enqueue(say[h], cur[h]) /\ UNCHANGED <<pending, review, who>>
  BY DEF Reply, Leave, EndRoute, Goto, records
<1>2. /\ identity = who[h] /\ review = 0 /\ \A g \in Attempts : g # h => at[g] \notin LockedSteps \/ at[g] = "farewell"
      /\ who[h] \in Users
  BY <1>1, LoneHolder DEF LockedSteps
<1>3. \A g \in Attempts : at'[g] \notin {"reply", "markDeleting"}
  BY <1>0, <1>1, <1>2 DEF LockedSteps, ActiveSteps
<1>4. ASSUME pending[who[h]].kind # "none"
      PROVE  asked' = Asks(who[h])
  <2>1. Put(who[h]) /\ Speaks(h)
    BY <1>2 DEF MeetInv
  <2>2. CASE say[h].kind = "notice"
    <3>1. asked' = asked
      BY <1>1, <2>2 DEF Enqueue
    <3>2. Asks(who[h]).kind # "notice"
      BY <1>0, <1>2 DEF Asks, Question, PendingRow, About
    <3>3. \A g \in Attempts : at[g] = "reply" => g = h
      BY <1>2 DEF LockedSteps
    <3> HIDE DEF Asks
    <3> QED BY <1>2, <1>4, <2>1, <2>2, <3>1, <3>2, <3>3 DEF Put
  <2>3. CASE say[h].kind # "notice"
    <3>1. say[h] = Asks(who[h]) /\ (asked = say[h] \/ Key(say[h], cur[h]) \notin outbox)
      BY <1>1, <2>1, <2>3 DEF Speaks
    <3>2. asked' = IF Key(say[h], cur[h]) \in outbox THEN asked ELSE say[h]
      BY <1>1, <2>3 DEF Enqueue
    <3> HIDE DEF Asks, Key
    <3> QED BY <3>1, <3>2
  <2> QED BY <2>2, <2>3
<1>5. ASSUME NEW u \in Users
      PROVE  Put(u)'
  <2>1. Asks(u)' = Asks(u)
    BY <1>1 DEF Asks
  <2>2. pending'[u].kind # "none" => u = who[h]
    BY <1>1, <1>2 DEF FitInv
  <2> HIDE DEF Asks
  <2> QED BY <1>1, <1>4, <2>1, <2>2 DEF Put
<1> QED BY <1>1, <1>2, <1>3, <1>5 DEF MeetInv, Speaks, ReviewAsks

LEMMA FarewellMeets ==
  ASSUME CoreInv, MeetInv, Calm, NEW h \in Attempts, DeletionConfirmation(h)
  PROVE  MeetInv'
<1>0. at \in [Attempts -> ChatSteps]
  BY DEF CoreInv, ChatTypeOK, InboundTypeOK
<1>1. /\ at[h] = "farewell" /\ at' = [at EXCEPT ![h] = "mark"] /\ Enqueue(Notice, cur[h])
      /\ UNCHANGED <<pending, review, who, cur, say, tx, receipt>>
  BY DEF DeletionConfirmation, Leave, EndRoute, Goto, records
<1>2. UNCHANGED asked /\ \A k \in outbox' : k \in outbox \/ k.kind = "notice"
  BY <1>1, KeyShape DEF Enqueue, Notice
<1>3. \A g \in Attempts : at'[g] = at[g] \/ (at[g] = "farewell" /\ at'[g] = "mark")
  BY <1>0, <1>1
<1>4. \A u : Asks(u)' = Asks(u)
  BY <1>1 DEF Asks
<1>5. ASSUME NEW g \in Attempts
      PROVE  Speaks(g)' /\ (at'[g] = "markDeleting" => pending'[who'[g]].kind # "none")
  <2>1. Speaks(g) /\ (at[g] = "markDeleting" => pending[who[g]].kind # "none")
    BY DEF MeetInv
  <2>2. Key(say[g], cur[g])' = Key(say[g], cur[g]) /\ Key(say[g], cur[g]).kind = say[g].kind
    BY <1>1, KeyShape DEF Key
  <2>3. Asks(who[g])' = Asks(who[g])
    BY <1>1 DEF Asks
  <2> HIDE DEF Key, Asks
  <2> QED BY <1>1, <1>2, <1>3, <2>1, <2>2, <2>3 DEF Speaks
<1>6. ASSUME NEW u \in Users
      PROVE  Put(u)'
  <2>1. Put(u)
    BY DEF MeetInv
  <2> QED BY <1>1, <1>2, <1>3, <1>4, <2>1 DEF Put
<1>7. ReviewAsks'
  <2>1. ReviewAsks
    BY DEF MeetInv
  <2>2. CardKey(review)' = CardKey(review) /\ CardKey(review).kind = "card"
    BY <1>1 DEF CardKey
  <2>3. Asks(receipt[review].owner)' = Asks(receipt[review].owner)
    BY <1>1 DEF Asks
  <2> HIDE DEF Asks, CardKey
  <2> QED BY <1>1, <1>2, <2>1, <2>2, <2>3 DEF ReviewAsks
<1> QED BY <1>5, <1>6, <1>7 DEF MeetInv

LEMMA QuietMeets ==
  ASSUME CoreInv, ClaimInv, OwnedInv, SaidInv, FitInv, DoneInv, MeetInv, Calm, NEW h \in Attempts, OrdinaryStep(h),
         ~Reply(h), ~DeletionConfirmation(h), UNCHANGED errors
  PROVE  MeetInv'
<1>0. at \in [Attempts -> ChatSteps] /\ pending \in [Users -> PendingRow]
  BY DEF CoreInv, ChatTypeOK, InboundTypeOK, RecordsTypeOK
<1>1. at[h] \notin {"reply", "farewell"}
  BY QuietMoves
<1>2. /\ at[h] \in LockedSteps /\ UNCHANGED who
      /\ \A g \in Attempts : g # h => at'[g] = at[g]
      /\ \A u \in Users : u # who[h] => pending'[u] = pending[u]
  BY <1>0, OrdinaryMoves DEF Ordinary, OwnRowsOnly, GoesOn, EndsRoute, Goto, LockedSteps, GoingSteps
<1>3. /\ review = 0 /\ \A g \in Attempts : g # h => at[g] \notin {"reply", "markDeleting"}
      /\ \A u \in Users : pending[u].kind # "none" => u = who[h] /\ asked = Asks(u)
  BY <1>1, <1>2, AloneMeets
<1>4. UNCHANGED <<asked, review>>
  BY AskedKept
<1>5. \A g \in Attempts : g # h => at'[g] \notin {"reply", "markDeleting"}
  BY <1>2, <1>3
<1>6. CASE KeepsQuestion(h)
  <2>1. \A u \in Users : pending'[u] = pending[u] \/ pending'[u].kind = "none"
    BY <1>0, <1>6 DEF KeepsQuestion, NoPending
  <2>2. \A g \in Attempts : at'[g] # "markDeleting" /\ (at'[g] = "reply" => say'[g].kind = "notice")
    BY <1>5, <1>6 DEF KeepsQuestion
  <2>3. ASSUME NEW u \in Users
        PROVE  Put(u)'
    <3>1. pending'[u].kind # "none" => asked' = Asks(u)'
      BY <1>3, <1>4, <2>1 DEF Asks
    <3> QED BY <3>1 DEF Put
  <2> QED BY <1>3, <1>4, <2>2, <2>3 DEF MeetInv, Speaks, ReviewAsks
<1>7. CASE PosesQuestion(h)
  <2>1. at'[h] = "reply" /\ say'[h] = Asks(who[h])' /\ Key(say[h], cur[h])' \notin outbox'
    BY <1>7 DEF PosesQuestion
  <2>2. Speaks(h)'
    BY <2>1 DEF Speaks
  <2>3. \A g \in Attempts : at'[g] # "markDeleting" /\ (g # h => at'[g] # "reply")
    BY <1>5, <2>1
  <2>4. ASSUME NEW u \in Users
        PROVE  Put(u)'
    <3>1. CASE u = who[h]
      <4>1. Asks(u)' = Asks(who[h])' /\ who'[h] = u
        BY <1>2, <3>1 DEF Asks
      <4> HIDE DEF Asks
      <4> QED BY <2>1, <4>1 DEF Put
    <3>2. CASE u # who[h]
      BY <1>2, <1>3, <3>2 DEF Put
    <3> QED BY <3>1, <3>2
  <2>5. \A g \in Attempts : Speaks(g)'
    BY <2>2, <2>3 DEF Speaks
  <2> QED BY <1>3, <1>4, <2>3, <2>4, <2>5 DEF MeetInv, ReviewAsks
<1> QED BY <1>6, <1>7, QuietAsks

LEMMA StatusMeets ==
  ASSUME CoreInv, SaidInv, FitInv, MeetInv, Calm, NEW h \in Attempts, NewStatus(h)
  PROVE  MeetInv'
<1>1. /\ \/ at[h] = "consent" /\ at' = [at EXCEPT ![h] = "reply"]
         \/ at[h] = "markDeleting" /\ at' = [at EXCEPT ![h] = "unexport"]
      /\ UNCHANGED <<pending, say, asked, review, who>> /\ at \in [Attempts -> ChatSteps]
  BY DEF NewStatus, Goto, local, records, speech, CoreInv, ChatTypeOK, InboundTypeOK
<1>2. /\ review = 0 /\ \A g \in Attempts : g # h => at[g] \notin {"reply", "markDeleting"}
      /\ \A u \in Users : pending[u].kind # "none" => u = who[h] /\ asked = Asks(u)
  BY <1>1, AloneMeets DEF LockedSteps, ActiveSteps
<1>3. at[h] = "consent" => say[h].kind = "notice"
  BY DEF SaidInv, Prepared
<1>4. \A g \in Attempts : at'[g] # "markDeleting" /\ (at'[g] = "reply" => say'[g].kind = "notice")
  BY <1>1, <1>2, <1>3
<1>5. ASSUME NEW u \in Users
      PROVE  Put(u)'
  <2>1. pending'[u].kind # "none" => asked' = Asks(u)'
    BY <1>1, <1>2 DEF Asks
  <2> QED BY <2>1 DEF Put
<1> QED BY <1>1, <1>2, <1>4, <1>5 DEF MeetInv, Speaks, ReviewAsks

(* The request is confirmed, and a card shown again, as the answer to the    *)
(* open question.                                                            *)
LEMMA RoutedAnswer ==
  ASSUME CoreInv, NEW u \in Users, NEW m \in DOMAIN script, users[u] \in {"pending", "active", "suspended"},
         RouteStep(m, u) \in {"markDeleting", "reshow"}
  PROVE  /\ allowed /\ users[u] = "active" /\ script[m] \in Texts /\ Open(u).kind # "none"
         /\ RouteStep(m, u) = "reshow" => Open(u).kind = "card"
<1>1. script[m] \in Contents
  BY DEF CoreInv, ChatTypeOK, InboundTypeOK
<1>2. Open(u).kind \in About \cup {"none", "delaccount"}
  BY DEF CoreInv, ChatTypeOK, RecordsTypeOK, Open, PendingRow, NoPending, About
<1>3. FreshStep(script[m]) \notin {"markDeleting", "reshow"}
  BY <1>1 DEF FreshStep
<1>4. allowed /\ users[u] = "active"
  <2>1. CASE ~allowed \/ users[u] = "suspended"
    BY <2>1 DEF RouteStep
  <2>2. CASE allowed /\ users[u] = "pending"
    BY <2>2 DEF RouteStep, ConsentStep
  <2> QED BY <2>1, <2>2
<1>5. RouteStep(m, u) = ActiveStep(script[m], Open(u))
  BY <1>4 DEF RouteStep
<1>6. script[m] \notin {"image", "unsupported"} /\ RouteStep(m, u) = TextStep(script[m], Open(u))
  BY <1>5 DEF ActiveStep
<1>7. script[m] # "malformed"
  <2> SUFFICES ASSUME script[m] = "malformed"
               PROVE  FALSE
    OBVIOUS
  <2>1. ConfirmStep("malformed", Open(u).tx) = "reply"
    BY DEF ConfirmStep, FreshStep
  <2>2. TextStep("malformed", Open(u)) \notin {"markDeleting", "reshow"}
    BY <1>2, <2>1 DEF TextStep, FreshStep, About, Slash
  <2> QED BY <1>6, <2>2
<1>8. script[m] \notin Slash /\ Open(u).kind # "none"
  BY <1>3, <1>6 DEF TextStep
<1>9. RouteStep(m, u) = "reshow" => Open(u).kind = "card"
  BY <1>2, <1>6, <1>8 DEF TextStep, About
<1> QED BY <1>1, <1>4, <1>6, <1>7, <1>8, <1>9 DEF Contents

LEMMA EnterMeets ==
  ASSUME CoreInv, FitInv, MeetInv, Calm, NEW h \in Attempts, Enter(h)
  PROVE  MeetInv'
<1>0. at \in [Attempts -> ChatSteps] /\ pending \in [Users -> PendingRow] /\ say \in [Attempts -> Saying]
  BY DEF CoreInv, ChatTypeOK, InboundTypeOK, RecordsTypeOK, SpeechTypeOK
<1>1. /\ at[h] = "enter" /\ who[h] \in Users /\ cur[h] \in DOMAIN script
      /\ Enters(h) \/ PassesBy(h)
      /\ UNCHANGED <<cur, who, tx, receipt, outbox, asked, review>>
  BY EnterMoves DEF speech
<1>2. CASE PassesBy(h)
  <2>1. UNCHANGED <<pending, say>> /\ at'[h] = "mark" /\ \A g \in Attempts : g # h => at'[g] = at[g]
    BY <1>0, <1>2 DEF PassesBy
  <2> QED BY <1>1, <2>1, MeetKept
<1>3. CASE Enters(h)
  <2>0. PICK v \in Users : v = who[h]
    BY <1>1
  <2>1. users[v] \in {"pending", "active", "suspended"} /\ ~Gone(v) /\ lock[v] = Nobody
    BY <1>3, <2>0 DEF Enters, Gone
  <2>2. PICK step : step = RouteStep(cur[h], who[h])
    OBVIOUS
  <2>3. /\ at' = [at EXCEPT ![h] = IF step = "reshow" THEN "reply" ELSE step]
        /\ say' = [say EXCEPT ![h] = IF step = "reshow" THEN Question("card", pending[v].tx) ELSE Notice]
        /\ pending' = IF allowed /\ users[v] = "active" /\ script[cur[h]] \in Texts
                      THEN [pending EXCEPT ![v] = Open(v)] ELSE pending
    BY <2>0, <2>1, <2>2 DEF Enter, Goto
  <2>4. /\ \A g \in Attempts : g # h => at'[g] = at[g] /\ say'[g] = say[g]
        /\ \A u \in Users : u # v => pending'[u] = pending[u]
        /\ \A u \in Users : pending'[u] = pending[u] \/ pending'[u].kind = "none"
    BY <1>0, <2>3 DEF Open, NoPending
  <2>5. \A g \in Attempts : at[g] \in {"reply", "markDeleting"} => who[g] \in Users /\ who[g] # v /\ g # h
    BY <1>1, <2>1, NobodyIsNoAttempt DEF CoreInv, LockInv, LockedSteps, ActiveSteps
  <2>6. review # 0 => receipt[review].owner \in Users /\ receipt[review].owner # v /\ identity = receipt[review].owner
    <3>1. review # 0 => /\ receipt[review].owner \in Users /\ lock[receipt[review].owner] = Worker
                        /\ users[receipt[review].owner] \notin {"none", "deleted"}
      BY DEF CoreInv, LockInv
    <3> QED BY <2>1, <3>1, ChatSettings DEF CoreInv, UserInv
  <2>7. pending[v].kind # "none" => asked = Asks(v)
    <3> SUFFICES ASSUME pending[v].kind # "none"
                 PROVE  asked = Asks(v)
      OBVIOUS
    <3>1. identity = v
      BY DEF FitInv
    <3>2. Put(v)
      BY DEF MeetInv
    <3> QED BY <2>5, <2>6, <3>1, <3>2 DEF Put
  <2>8. /\ step = "markDeleting" => pending'[v].kind # "none"
        /\ step = "reshow" => pending'[v] = pending[v] /\ pending[v].kind = "card"
    <3> SUFFICES ASSUME step \in {"markDeleting", "reshow"}
                 PROVE  pending'[v].kind # "none" /\ (step = "reshow" => pending'[v] = pending[v] /\ pending[v].kind = "card")
      OBVIOUS
    <3>1. /\ allowed /\ users[v] = "active" /\ script[cur[h]] \in Texts /\ Open(v).kind # "none"
          /\ step = "reshow" => Open(v).kind = "card"
      BY <1>1, <2>0, <2>1, <2>2, RoutedAnswer
    <3>2. pending'[v] = Open(v)
      BY <1>0, <2>3, <3>1
    <3>3. Open(v) = pending[v]
      BY <3>1 DEF Open, NoPending
    <3> QED BY <3>1, <3>2, <3>3
  <2>9. Speaks(h)' /\ (at'[h] = "markDeleting" => pending'[who'[h]].kind # "none")
    <3>1. CASE step = "reshow"
      <4>1. at'[h] = "reply" /\ say'[h] = Question("card", pending[v].tx)
        BY <1>0, <2>3, <3>1
      <4>2. Asks(v) = Question("card", pending[v].tx) /\ asked = Asks(v)
        BY <2>7, <2>8, <3>1 DEF Asks
      <4>3. Asks(who[h])' = Asks(v)
        BY <1>1, <2>0, <2>8, <3>1 DEF Asks
      <4> HIDE DEF Asks
      <4> QED BY <1>1, <4>1, <4>2, <4>3 DEF Speaks
    <3>2. CASE step # "reshow"
      <4>1. at'[h] = step /\ say'[h].kind = "notice"
        BY <1>0, <2>3, <3>2 DEF Notice
      <4> QED BY <1>1, <2>0, <2>8, <4>1 DEF Speaks
    <3> QED BY <3>1, <3>2
  <2>10. ASSUME NEW g \in Attempts, g # h
         PROVE  Speaks(g)' /\ (at'[g] = "markDeleting" => pending'[who'[g]].kind # "none")
    <3>1. CASE at'[g] \notin {"reply", "markDeleting"}
      BY <3>1 DEF Speaks
    <3>2. CASE at'[g] \in {"reply", "markDeleting"}
      <4>1. at'[g] = at[g] /\ say'[g] = say[g] /\ who'[g] = who[g] /\ pending'[who[g]] = pending[who[g]]
        BY <1>1, <2>4, <2>5, <2>10, <3>2
      <4>2. Speaks(g) /\ (at[g] = "markDeleting" => pending[who[g]].kind # "none")
        BY DEF MeetInv
      <4>3. Key(say[g], cur[g])' = Key(say[g], cur[g])
        BY <1>1, <4>1 DEF Key
      <4>4. Asks(who[g])' = Asks(who[g])
        BY <4>1 DEF Asks
      <4>5. at'[g] = "markDeleting" => pending'[who'[g]].kind # "none"
        BY <4>1, <4>2
      <4> HIDE DEF Key, Asks
      <4> QED BY <1>1, <4>1, <4>2, <4>3, <4>4, <4>5 DEF Speaks
    <3> QED BY <3>1, <3>2
  <2>11. ASSUME NEW u \in Users
         PROVE  Put(u)'
    <3> SUFFICES ASSUME pending'[u].kind # "none"
                 PROVE  Put(u)'
      BY DEF Put
    <3>1. pending'[u] = pending[u]
      BY <2>4
    <3>2. Asks(u)' = Asks(u)
      BY <3>1 DEF Asks
    <3>3. Put(u)
      BY DEF MeetInv
    <3>4. \A g \in Attempts : at[g] = "reply" => at'[g] = "reply" /\ say'[g] = say[g]
      BY <2>4, <2>5
    <3> HIDE DEF Asks
    <3> QED BY <1>1, <3>1, <3>2, <3>3, <3>4 DEF Put
  <2>12. ReviewAsks'
    <3>1. ReviewAsks
      BY DEF MeetInv
    <3>2. CardKey(review)' = CardKey(review)
      BY <1>1 DEF CardKey
    <3>3. review # 0 => Asks(receipt[review].owner)' = Asks(receipt[review].owner)
      BY <1>1, <2>4, <2>6 DEF Asks
    <3> HIDE DEF Asks, CardKey
    <3> QED BY <1>1, <3>1, <3>2, <3>3 DEF ReviewAsks
  <2> QED BY <2>9, <2>10, <2>11, <2>12 DEF MeetInv
<1> QED BY <1>1, <1>2, <1>3

LEMMA WorkerMeets ==
  ASSUME CoreInv, SaidInv, FitInv, MeetInv, Calm, WorkerStep
  PROVE  MeetInv'
<1>0. /\ pending \in [Users -> PendingRow] /\ receipt \in [Messages -> Document] /\ tx \in [Messages -> Entry]
      /\ outbox \subseteq OutKey /\ review \in Subjects
  BY DEF CoreInv, ChatTypeOK, InboundTypeOK, RecordsTypeOK, SpeechTypeOK
<1>a. UNCHANGED <<at, who, cur, say>>
  BY DEF WorkerStep, FinalizeReceiptReview, SendReviewCard, local
<1>1. ASSUME NEW m \in Messages, FinalizeReceiptReview(m)
      PROVE  MeetInv'
  <2>0. PICK v : v = receipt[m].owner
    OBVIOUS
  <2>1. /\ users[v] \notin {"none", "deleted"} /\ lock[v] = Nobody /\ receipt[m].status = "queued" /\ review' = m
        /\ tx' = [tx EXCEPT ![m] = Draft(m, receipt[m].owner)] /\ UNCHANGED outbox
        /\ receipt' = [receipt EXCEPT ![m].status = "review", ![m].job = FALSE]
        /\ OpenQuestion(v, "card", m)
    BY <1>1, <2>0 DEF FinalizeReceiptReview, Reviewable, ReviewOf
  <2>2. v \in Users
    BY <1>0, <2>0, <2>1 DEF Document
  <2>3. identity = v
    BY <2>1, <2>2 DEF CoreInv, UserInv
  <2>4. \A g \in Attempts : at'[g] \notin {"reply", "markDeleting"}
    BY <1>a, <2>1, <2>3, LoneHolder, NobodyIsNoAttempt DEF LockedSteps, ActiveSteps
  <2>5. pending'[v].kind = "card" /\ pending'[v].tx = m /\ \A u \in Users : u # v => pending'[u].kind = "none"
    BY <1>0, <2>1, <2>2, <2>3 DEF OpenQuestion, FitInv
  <2>6. receipt'[m].owner = v /\ m # 0
    <3>1. receipt[m] \in [status : ReceiptStatus \cup {"none"}, owner : Owners, job : BOOLEAN]
      BY <1>0 DEF Document, Owners
    <3>2. [receipt[m] EXCEPT !.status = "review", !.job = FALSE].owner = receipt[m].owner
      BY <3>1
    <3> QED BY <1>0, <2>0, <2>1, <3>2 DEF Messages
  <2>7. Asks(v)' = Question("card", m)
    BY <2>5 DEF Asks
  <2>8. \A u \in Users : Put(u)'
    BY <2>1, <2>5, <2>6, <2>7 DEF Put
  <2>9. ReviewAsks'
    <3>1. CardKey(review)' = [kind |-> "card", of |-> m, ver |-> tx[m].ver + 1]
      BY <1>0, <2>1 DEF CardKey, Draft
    <3>2. ASSUME NEW k \in outbox, k.kind = "card", k.of = m, k.ver = tx[m].ver + 1
          PROVE  FALSE
      <4>1. tx[m].ver \in Nat /\ k.ver <= tx[m].ver
        BY <1>0, <3>2 DEF SaidInv, KeysInv, Entry
      <4> QED BY <3>2, <4>1
    <3>3. CardKey(review)' \notin outbox'
      BY <2>1, <3>1, <3>2
    <3>4. Asks(receipt[review].owner)' = Asks(v)'
      BY <2>1, <2>6 DEF Asks
    <3> HIDE DEF Asks, CardKey
    <3> QED BY <2>1, <2>7, <3>3, <3>4 DEF ReviewAsks
  <2> QED BY <2>4, <2>8, <2>9 DEF MeetInv, Speaks
<1>2. CASE SendReviewCard
  <2>1. /\ review # 0 /\ Enqueue(Question("card", review), review) /\ review' = 0 /\ UNCHANGED pending
    BY <1>2 DEF SendReviewCard, records
  <2>2. PICK v \in Users : v = receipt[review].owner
    BY <2>1 DEF CoreInv, LockInv
  <2>3. identity = v
    BY <2>1, <2>2 DEF CoreInv, LockInv, UserInv
  <2>4. \A g \in Attempts : at'[g] \notin {"reply", "markDeleting"}
    BY <1>a, <2>1, LoneHolder DEF LockedSteps, ActiveSteps
  <2>5. Asks(v) = Question("card", review) /\ CardKey(review) \notin outbox
    BY <2>1, <2>2 DEF MeetInv, ReviewAsks
  <2>6. asked' = Question("card", review)
    <3>1. Key(Question("card", review), review) = CardKey(review)
      BY DEF Key, CardKey, Question
    <3> QED BY <2>1, <2>5, <3>1 DEF Enqueue, Question
  <2>7. ASSUME NEW u \in Users
        PROVE  Put(u)'
    <3>1. Asks(u)' = Asks(u)
      BY <2>1 DEF Asks
    <3>2. pending'[u].kind # "none" => u = v
      BY <2>1, <2>3 DEF FitInv
    <3> HIDE DEF Asks
    <3> QED BY <2>5, <2>6, <3>1, <3>2 DEF Put
  <2> QED BY <2>1, <2>4, <2>7 DEF MeetInv, Speaks, ReviewAsks
<1> QED BY <1>1, <1>2 DEF WorkerStep

LEMMA MeetStep ==
  ASSUME CoreInv, ClaimInv, OwnedInv, SaidInv, FitInv, DoneInv, MeetInv, [Next]_vars
  PROVE  MeetInv'
<1> SUFFICES ASSUME Calm'
             PROVE  MeetInv'
  BY DEF MeetInv
<1>0. Calm /\ UNCHANGED faults
  BY CalmSteps
<1>a. /\ at \in [Attempts -> ChatSteps] /\ pending \in [Users -> PendingRow]
  BY DEF CoreInv, ChatTypeOK, InboundTypeOK, RecordsTypeOK
<1>b. ASSUME UNCHANGED chatVars,
             \A g \in Attempts : \/ at[g] # "reply" /\ at'[g] \notin {"reply", "markDeleting"}
                                 \/ at'[g] = at[g] /\ cur'[g] = cur[g] /\ who'[g] = who[g]
      PROVE  MeetInv'
  BY <1>0, <1>b, MeetKept DEF chatVars, records, speech
<1>1. ASSUME NEW m \in Messages, Quarantine(m) \/ ClaimExpires(m) \/ ClaimOutlived(m) \/ DeleteExpiredTombstone(m), UNCHANGED chatVars
      PROVE  MeetInv'
  <2>1. UNCHANGED <<at, cur, who>>
    BY <1>1 DEF Quarantine, ClaimExpires, ClaimOutlived, DeleteExpiredTombstone, local
  <2> QED BY <1>b, <1>1, <2>1
<1>2. ASSUME NEW h \in Attempts, OutsideStep(h), UNCHANGED chatVars
      PROVE  MeetInv'
  <2>1. at[h] \notin LockedSteps
    BY <1>0, <1>2, CalmMark
  <2>2. at'[h] \in OpenSteps /\ \A g \in Attempts : g # h => at'[g] = at[g] /\ cur'[g] = cur[g] /\ who'[g] = who[g]
    BY <1>a, <1>2, OutsideMoves DEF Outside, Goto
  <2>3. at[h] # "reply" /\ at'[h] \notin {"reply", "markDeleting"}
    BY <2>1, <2>2 DEF LockedSteps, OpenSteps
  <2> QED BY <1>b, <1>2, <2>2, <2>3
<1>3. ASSUME NEW h \in Attempts, OrdinaryStep(h)
      PROVE  MeetInv'
  BY <1>0, <1>3, ReplyMeets, FarewellMeets, QuietMeets DEF faults
<1>4. ASSUME NEW h \in Attempts, PurgeAccountData(h)
      PROVE  MeetInv'
  <2>1. CASE Purges(h)
    <3>1. /\ at[h] = "purge" /\ at' = [at EXCEPT ![h] = "farewell"] /\ UNCHANGED review
          /\ pending' = [pending EXCEPT ![who[h]] = NoPending]
      BY <2>1 DEF Purges, EraseRecords, Goto
    <3>2. /\ identity = who[h] /\ who[h] \in Users /\ review = 0
          /\ \A g \in Attempts : g # h => at[g] \notin LockedSteps \/ at[g] = "farewell"
      BY <3>1, LoneHolder DEF LockedSteps, GoingSteps
    <3>3. \A u \in Users : pending'[u].kind = "none"
      BY <1>a, <3>1, <3>2 DEF FitInv, NoPending
    <3>4. \A g \in Attempts : at'[g] \notin {"reply", "markDeleting"}
      BY <1>a, <3>1, <3>2 DEF LockedSteps, ActiveSteps
    <3> QED BY <3>1, <3>2, <3>3, <3>4 DEF MeetInv, Speaks, Put, ReviewAsks
  <2>2. CASE Ordinary(h) /\ EndsRoute(h) /\ at[h] = "purge" /\ UNCHANGED <<chatVars, errors>>
    <3>1. /\ at[h] # "reply" /\ at'[h] = "mark" /\ UNCHANGED <<cur, who>>
          /\ \A g \in Attempts : g # h => at'[g] = at[g]
      BY <1>a, <2>2 DEF Ordinary, EndsRoute
    <3> QED BY <1>b, <2>2, <3>1
  <2> QED BY <1>4, <2>1, <2>2, PurgeMoves
<1>5. ASSUME NEW u \in Users, PendingExpires(u)
      PROVE  MeetInv'
  <2>1. /\ UNCHANGED <<at, cur, who, tx, receipt, outbox, asked, say, review>>
        /\ pending' = [pending EXCEPT ![u].expired = TRUE]
    BY <1>5 DEF PendingExpires, inboundVars, local, speech
  <2>2. \A w \in Users : pending'[w].kind = pending[w].kind /\ pending'[w].tx = pending[w].tx
    BY <1>a, <2>1 DEF PendingRow
  <2> QED BY <1>0, <2>1, <2>2, MeetKept
<1>6. CASE UNCHANGED vars
  <2>1. UNCHANGED <<chatVars, at, cur, who>>
    BY <1>6 DEF vars, inboundVars, local
  <2> QED BY <1>b, <2>1
<1>7. CASE Next
  BY <1>0, <1>1, <1>2, <1>3, <1>4, <1>5, <1>7, StepKinds, NewStatusMoves, StatusMeets, EnterMeets, WorkerMeets
<1> QED BY <1>6, <1>7

LEMMA MeetInit ==
  ASSUME ChatInit
  PROVE  SaidInv /\ ClaimInv /\ OwnedInv /\ TombInv /\ MarkInv /\ FarewellInv /\ DoneInv /\ MeetInv
<1>1. /\ \A h \in Attempts : at[h] = "idle"
      /\ \A u \in Users : pending[u].kind = "none"
      /\ outbox = {} /\ review = 0 /\ erasedBy = {} /\ reopenedBy = {}
  BY DEF ChatInit, InboundInit, NoPending
<1>2. SaidInv
  BY <1>1 DEF SaidInv, KeysInv, Prepared, ActiveSteps, CardSteps, EditSteps
<1>3. OwnedInv /\ TombInv
  BY <1>1 DEF OwnedInv, TombInv, Working, LockedSteps, ActiveSteps, GoingSteps, CardSteps, EditSteps
<1>4. MarkInv /\ FarewellInv /\ DoneInv
  BY <1>1 DEF MarkInv, FarewellInv, DoneInv
<1>5. MeetInv
  BY <1>1 DEF MeetInv, Speaks, Put, ReviewAsks
<1> QED BY <1>2, <1>3, <1>4, <1>5, ClaimInit

(* resolvePending: without faults the answer of the sender meets the question *)
(* last put, for every conversation and any number of attempts at once: the   *)
(* receipt worker and other messages replace the pending action only together *)
(* with the card or prompt that asks the new question.                        *)
THEOREM AnswerMeetsQuestionSafe == Spec => []AnswerMeetsQuestion
<1> DEFINE Inv == /\ CoreInv /\ SaidInv /\ FitInv /\ ClaimInv /\ OwnedInv /\ TombInv
                  /\ MarkInv /\ FarewellInv /\ DoneInv /\ MeetInv
<1>1. ChatInit => Inv
  BY CoreInit, TalkInit, MeetInit
<1>2. Inv /\ [Next]_vars => Inv'
  <2> SUFFICES ASSUME Inv, [Next]_vars
               PROVE  Inv'
    OBVIOUS
  <2>1. CoreInv'
    BY CoreStep
  <2>2. SaidInv' /\ FitInv' /\ ClaimInv' /\ OwnedInv' /\ TombInv'
    BY <2>1, SaidStep, FitStep, ClaimStep, OwnedStep, TombStep
  <2>3. MarkInv' /\ FarewellInv' /\ DoneInv' /\ MeetInv'
    BY MarkStep, FarewellStep, DoneStep, MeetStep
  <2> QED BY <2>1, <2>2, <2>3
<1>3. Inv => AnswerMeetsQuestion
  <2> SUFFICES ASSUME Inv, Calm, NEW h \in Attempts, at[h] \in {"confirm", "discard", "deleteRecent", "markDeleting"}
               PROVE  Asks(who[h]) = asked
    BY DEF AnswerMeetsQuestion, Calm, Asks
  <2>1. at[h] \in LockedSteps /\ at[h] \notin {"reply", "farewell"}
    BY DEF LockedSteps, ActiveSteps, CardSteps
  <2>2. who[h] \in Users
    BY <2>1 DEF CoreInv, LockInv
  <2>3. pending[who[h]].kind # "none"
    <3>1. at[h] # "markDeleting" => pending[who[h]].kind \in {"card", "delrecent"}
      BY DEF CoreInv, QuestionInv, CardSteps
    <3>2. at[h] = "markDeleting" => pending[who[h]].kind # "none"
      BY DEF MeetInv
    <3> QED BY <3>1, <3>2
  <2> QED BY <2>1, <2>2, <2>3, AloneMeets
<1> QED BY <1>1, <1>2, <1>3, PTL DEF Spec
=============================================================================
