--------------------------- MODULE RecoveryProofs ---------------------------
(***************************************************************************)
(* Proofs about restart detection and recovery, for any keys and budgets:  *)
(* no re-send brings back what a user has dropped, nothing the box drops   *)
(* goes unnoticed, and what the crate says of the clip is so.              *)
(***************************************************************************)
EXTENDS Recovery, TLAPS

\* Without a clone the box holds nothing; whoever sends again has the lock, and sends only what
\* the host still holds, since a user who drops a key waits for the lock.
OnlyTheDesired ==
  /\ ~box.up => box.held = {}
  /\ ka.pc \in {"tickSend", "resend"} => lock = "keepalive" /\ ka.todo \subseteq desired
  /\ lock = "keepalive" => ka.pc \in {"tickSend", "resend"}

GhostInv == TypeOK /\ OnlyTheDesired /\ NoGhostState

-----------------------------------------------------------------------------
(* The helpers keep their types.                                            *)

LEMMA BoxTypes ==
  ASSUME NEW b \in Box
  PROVE  /\ Released(b) \in Box /\ TornDown(b) \in Box /\ Booted(b) \in Box
         /\ Commanded(b) \in Box /\ Reset(b) \in Box
         /\ \A k \in Keys : WithKey(b, k) \in Box /\ WithoutKey(b, k) \in Box
<1>1. b.session + 1 \in Nat BY DEF Box
<1>2. Released(b) \in Box BY <1>1 DEF Box, Released
<1>3. TornDown(b) \in Box BY <1>2 DEF Box, TornDown
<1>4. Booted(b) \in Box /\ Commanded(b) \in Box BY DEF Box, Booted, Commanded
<1>5. Reset(b) \in Box BY <1>1 DEF Box, Reset
<1>6. ASSUME NEW k \in Keys PROVE WithKey(b, k) \in Box /\ WithoutKey(b, k) \in Box
  BY DEF Box, WithKey, WithoutKey
<1> QED BY <1>2, <1>3, <1>4, <1>5, <1>6

LEMMA BoxHolds ==
  ASSUME NEW b \in Box
  PROVE  /\ Released(b).held = {} /\ Released(b).up = b.up
         /\ TornDown(b).held = {} /\ Booted(b).held = {}
         /\ Commanded(b).held = b.held /\ Commanded(b).up = b.up
         /\ Reset(b).held = {} /\ Reset(b).up = b.up
<1>1. Released(b).held = {} /\ Released(b).up = b.up BY DEF Box, Released
<1>2. TornDown(b).held = {}
  <2>1. Released(b) \in Box BY BoxTypes
  <2> QED BY <1>1, <2>1 DEF Box, TornDown
<1>3. Booted(b).held = {} /\ Commanded(b).held = b.held /\ Commanded(b).up = b.up
  BY DEF Box, Booted, Commanded
<1>4. Reset(b).held = {} /\ Reset(b).up = b.up BY DEF Box, Reset
<1> QED BY <1>1, <1>2, <1>3, <1>4

LEMMA WithHolds ==
  ASSUME NEW b \in Box, NEW k \in Keys
  PROVE  /\ WithKey(b, k).held \subseteq b.held \cup {k} /\ WithKey(b, k).up = b.up
         /\ ~b.up => WithKey(b, k).held = b.held
         /\ WithoutKey(b, k).up = b.up
         /\ b.up => WithoutKey(b, k).held = b.held \ {k}
         /\ ~b.up => WithoutKey(b, k).held = b.held
  BY DEF Box, WithKey, WithoutKey

LEMMA SaidTypes ==
  /\ Hello \in Heard
  /\ \A b \in Box : Greeting(b) \in Seq(Heard)
  /\ \A b \in Box, q \in {"caps", "stats", "clip"} : AnswerOf(q, b) \in Heard
<1>1. Hello \in Heard BY DEF Hello, Heard
<1>2. <<Hello>> \in Seq(Heard) BY <1>1
<1>3. \A b \in Box : Greeting(b) \in Seq(Heard) BY <1>2 DEF Greeting
<1>4. ASSUME NEW b \in Box, NEW q \in {"caps", "stats", "clip"} PROVE AnswerOf(q, b) \in Heard
  BY DEF AnswerOf, Heard, Box
<1> QED BY <1>1, <1>3, <1>4

\* Where the keepalive goes next, with nothing read.
LEMMA ToType ==
  ASSUME ka \in Keepalive, NEW pc \in Pcs
  PROVE  /\ To(pc) \in Keepalive
         /\ To(pc).pc = pc
         /\ To(pc).wait = "unasked"
         /\ pc # "top" => To(pc).todo = ka.todo
<1>1. Hello \in Heard BY SaidTypes
<1>2. CASE pc = "top"
  <2>1. Rest \in Keepalive /\ Rest.pc = "top" /\ Rest.wait = "unasked"
    BY <1>1 DEF Rest, Keepalive, Pcs
  <2> QED BY <1>2, <2>1 DEF To, Keepalive
<1>3. CASE pc # "top" BY <1>1, <1>3 DEF To, Keepalive
<1> QED BY <1>2, <1>3

-----------------------------------------------------------------------------
(* Every state has its type.                                                *)

LEMMA InitType == Init => TypeOK
<1> SUFFICES ASSUME Init PROVE TypeOK OBVIOUS
<1>1. box \in Box BY DEF Init, Box
<1>2. heard \in Seq(Heard) BY DEF Init
<1>3. watch \in Watch BY DEF Init, Watch
<1>4. clip \in Clip BY DEF Init, Clip
<1>5. ka \in Keepalive
  <2>1. Rest \in Keepalive BY SaidTypes DEF Rest, Keepalive, Pcs
  <2> QED BY <2>1 DEF Init
<1>6. left \in Budget BY BudgetAssumption DEF Init
<1>7. /\ desired \in SUBSET Keys /\ lock \in {"free", "keepalive", "append", "clear"}
      /\ restarts \in Nat /\ fate \in {"none", "kept", "played", "dropped"} /\ blurred \in BOOLEAN
  BY DEF Init
<1> QED BY <1>1, <1>2, <1>3, <1>4, <1>5, <1>6, <1>7 DEF TypeOK

LEMMA SpendType ==
  ASSUME left \in Budget, Spend("boots") \/ Spend("releases") \/ Spend("keyOps") \/ Spend("clipOps")
                          \/ Spend("resets") \/ Spend("timeouts")
  PROVE  left' \in Budget
<1> USE DEF Budget, Spend
<1>1. ASSUME NEW f \in {"boots", "releases", "keyOps", "clipOps", "resets", "timeouts"}, Spend(f)
      PROVE  left' \in Budget
  <2>1. left[f] \in Nat /\ left[f] > 0 BY <1>1
  <2>2. left[f] - 1 \in Nat BY <2>1
  <2> QED BY <1>1, <2>2
<1> QED BY <1>1

LEMMA BoxStepType ==
  ASSUME TypeOK, BoxStep
  PROVE  TypeOK'
<1> USE DEF TypeOK
<1>1. box' \in Box
  <2>1. CASE \E said \in BOOLEAN : Boot(said) BY <2>1, BoxTypes DEF Boot
  <2>2. CASE Release BY <2>2, BoxTypes DEF Release
  <2>3. CASE Detach
    <3>1. Released(box) \in Box BY BoxTypes
    <3> QED BY <2>3, <3>1 DEF Detach, Box
  <2>4. CASE GraceEnds
    <3>1. TornDown(box) \in Box BY BoxTypes
    <3> QED BY <2>4, <3>1 DEF GraceEnds, Box
  <2>5. CASE ComeBack \/ CloneUp \/ PlayOut BY <2>5 DEF ComeBack, CloneUp, PlayOut, Box
  <2> QED BY <2>1, <2>2, <2>3, <2>4, <2>5 DEF BoxStep
<1>2. heard' \in Seq(Heard)
  BY SaidTypes DEF BoxStep, Boot, Release, Detach, ComeBack, GraceEnds, CloneUp, PlayOut
<1>3. left' \in Budget
  BY SpendType DEF BoxStep, Boot, Release, Detach, ComeBack, GraceEnds, CloneUp, PlayOut
<1>4. fate' \in {"none", "kept", "played", "dropped"}
  BY DEF BoxStep, Boot, Release, Detach, ComeBack, GraceEnds, CloneUp, PlayOut, FateIfReleased
<1>5. UNCHANGED <<watch, desired, clip, lock, ka, restarts, blurred>>
  BY DEF BoxStep, Boot, Release, Detach, ComeBack, GraceEnds, CloneUp, PlayOut
<1> QED BY <1>1, <1>2, <1>3, <1>4, <1>5

LEMMA UserStepType ==
  ASSUME TypeOK, UserStep
  PROVE  TypeOK'
<1> USE DEF TypeOK
<1>1. box' \in Box /\ desired' \in SUBSET Keys
  <2>1. ASSUME NEW k \in left.keys, SetKey(k) \/ UnsetKey(k) PROVE box' \in Box /\ desired' \in SUBSET Keys
    <3>1. k \in Keys BY DEF Budget
    <3>2. Commanded(box) \in Box BY <3>1, BoxTypes
    <3>3. WithKey(Commanded(box), k) \in Box /\ WithoutKey(Commanded(box), k) \in Box
      BY <3>1, <3>2, BoxTypes
    <3> QED BY <2>1, <3>1, <3>3 DEF SetKey, UnsetKey
  <2>2. CASE ResetAll BY <2>2, BoxTypes DEF ResetAll
  <2>3. ASSUME NEW what \in {"append", "clear"}, ClipSend(what) PROVE box' \in Box /\ desired' \in SUBSET Keys
    BY <2>3 DEF ClipSend, Commanded, Box
  <2>4. CASE ClipLoaded BY <2>4 DEF ClipLoaded
  <2> QED BY <2>1, <2>2, <2>3, <2>4 DEF UserStep
<1>2. heard' \in Seq(Heard)
  <2>1. heard \o Greeting(box) \in Seq(Heard) BY SaidTypes
  <2> QED BY <2>1 DEF UserStep, SetKey, UnsetKey, ResetAll, ClipSend, ClipLoaded
<1>3. left' \in Budget
  BY SpendType DEF UserStep, SetKey, UnsetKey, ResetAll, ClipSend, ClipLoaded, Op
<1>4. /\ fate' \in {"none", "kept", "played", "dropped"}
      /\ lock' \in {"free", "keepalive", "append", "clear"}
  BY DEF UserStep, SetKey, UnsetKey, ResetAll, ClipSend, ClipLoaded
<1>7. blurred' \in BOOLEAN
  <2>1. CASE ResetAll BY <2>1 DEF ResetAll, ReadingRing
  <2>2. ASSUME NEW what \in {"append", "clear"}, ClipSend(what) PROVE blurred' \in BOOLEAN
    BY <2>2 DEF ClipSend
  <2> QED BY <2>1, <2>2 DEF UserStep, SetKey, UnsetKey, ClipLoaded
<1>5. clip' \in Clip
  <2>1. CASE ClipLoaded
    <3>1. clip.gen + 1 \in Nat BY DEF Clip
    <3> QED BY <2>1, <3>1 DEF ClipLoaded, Clip
  <2>2. CASE ResetAll BY <2>2 DEF ResetAll, Clip
  <2> QED BY <2>1, <2>2 DEF UserStep, SetKey, UnsetKey, ClipSend
<1>6. UNCHANGED <<watch, ka, restarts>>
  BY DEF UserStep, SetKey, UnsetKey, ResetAll, ClipSend, ClipLoaded
<1> QED BY <1>1, <1>2, <1>3, <1>4, <1>5, <1>6, <1>7

LEMMA QueryType ==
  ASSUME TypeOK, Hear \/ Ask \/ TimeOut
  PROVE  TypeOK'
<1> USE DEF TypeOK
<1>1. CASE Hear
  <2>1. Head(heard) \in Heard /\ Tail(heard) \in Seq(Heard) BY <1>1 DEF Hear
  <2>2. watch' \in Watch
    <3>1. watch.hellos + 1 \in Nat BY DEF Watch
    <3>2. Noted(watch) \in Watch BY <3>1 DEF Noted, Watch
    <3> QED BY <1>1, <3>2 DEF Hear, Watch
  <2>3. ka' \in Keepalive BY <1>1, <2>1 DEF Hear, Keepalive
  <2> QED BY <1>1, <2>1, <2>2, <2>3 DEF Hear
<1>2. CASE Ask
  <2>1. Asks[ka.pc] \in {"caps", "stats", "clip"} BY <1>2 DEF Ask, Asks
  <2>2. AnswerOf(Asks[ka.pc], box) \in Heard BY <2>1, SaidTypes
  <2>3. <<AnswerOf(Asks[ka.pc], box)>> \in Seq(Heard) BY <2>2
  <2>4. heard' \in Seq(Heard) BY <1>2, <2>3, SaidTypes DEF Ask
  <2>5. box' \in Box /\ ka' \in Keepalive BY <1>2 DEF Ask, Box, Keepalive
  <2> QED BY <1>2, <2>4, <2>5 DEF Ask
<1>3. CASE TimeOut
  <2>1. ASSUME NEW i \in DOMAIN heard PROVE [heard[i] EXCEPT !.live = FALSE] \in Heard
    <3>1. heard[i] \in Heard OBVIOUS
    <3> QED BY <3>1 DEF Heard
  <2>2. heard' \in Seq(Heard) BY <1>3, <2>1 DEF TimeOut
  <2>3. ka' \in Keepalive BY <1>3 DEF TimeOut, Keepalive
  <2>4. left' \in Budget BY <1>3, SpendType DEF TimeOut
  <2> QED BY <1>3, <2>2, <2>3, <2>4 DEF TimeOut
<1> QED BY <1>1, <1>2, <1>3

-----------------------------------------------------------------------------
\* The next frame of a re-send.
LEMMA SendType ==
  ASSUME TypeOK, NEW pc \in Pcs, SendNext(pc)
  PROVE  /\ box' \in Box /\ heard' \in Seq(Heard) /\ ka' \in Keepalive
         /\ lock' \in {"free", "keepalive", "append", "clear"}
<1> USE DEF TypeOK
<1>1. CASE ka.todo = {} BY <1>1, ToType DEF SendNext
<1>2. ASSUME NEW k \in ka.todo,
             ka' = [ka EXCEPT !.todo = @ \ {k}], box' = WithKey(Commanded(box), k),
             heard' = heard \o Greeting(box), lock' = lock
      PROVE  box' \in Box /\ heard' \in Seq(Heard) /\ ka' \in Keepalive
  <2>1. k \in Keys /\ ka.todo \ {k} \in SUBSET Keys BY DEF Keepalive
  <2>2. box' \in Box BY <1>2, <2>1, BoxTypes
  <2>3. heard' \in Seq(Heard) BY <1>2, SaidTypes
  <2>4. ka' \in Keepalive BY ONLY <1>2, <2>1, ka \in Keepalive DEF Keepalive
  <2> QED BY <2>2, <2>3, <2>4
<1> QED BY <1>1, <1>2 DEF SendNext

LEMMA LoopType ==
  ASSUME TypeOK, LoopStep
  PROVE  TypeOK'
<1> USE DEF TypeOK
<1>0. \A pc \in Pcs : To(pc) \in Keepalive BY ToType
<1>1. ka' \in Keepalive
  <2>1. CASE Top
    <3> PICK pc \in {"caps", "idle"} :
          ka' = [ka EXCEPT !.pc = pc, !.cause = IF watch.owed THEN "Restart" ELSE ka.cause]
      BY <2>1 DEF Top
    <3>1. pc \in Pcs BY DEF Pcs, Asks
    <3>2. (IF watch.owed THEN "Restart" ELSE ka.cause) \in {"none", "Restart", "Released"}
      BY DEF Keepalive
    <3> QED BY <3>1, <3>2 DEF Keepalive
  <2>2. CASE LookAround
    <3> PICK pc \in {"top", "sess", "ringSeen"}, tick \in BOOLEAN : ka' = [To(pc) EXCEPT !.tick = tick]
      BY <2>2 DEF LookAround
    <3>1. To(pc) \in Keepalive BY <1>0 DEF Pcs, Asks
    <3> QED BY <3>1 DEF Keepalive
  <2>3. CASE SessionRead BY <2>3, <1>0 DEF SessionRead, Pcs
  <2>4. CASE BeginRelease
    <3>1. To("top") \in Keepalive BY <1>0 DEF Pcs
    <3> QED BY <2>4, <3>1 DEF BeginRelease, Keepalive
  <2>5. CASE RingSeen
    <3>1. To("ringClip") \in Keepalive /\ To("tickLock") \in Keepalive BY <1>0 DEF Pcs, Asks
    <3> QED BY <2>5, <3>1 DEF RingSeen, Keepalive, Clip, Watch
  <2>6. CASE RingRead
    <3>1. To("ringStats") \in Keepalive /\ To("tickLock") \in Keepalive BY <1>0 DEF Pcs, Asks
    <3> QED BY <2>6, <3>1 DEF RingRead, Keepalive
  <2>7. CASE RingChecked BY <2>7, <1>0 DEF RingChecked, Pcs
  <2>8. CASE RingNote
    <3>1. To("tickLock") \in Keepalive BY <1>0 DEF Pcs
    <3> QED BY <2>8, <3>1 DEF RingNote, Keepalive
  <2>9. CASE TickLock
    <3>1. To("tickSend") \in Keepalive BY <1>0 DEF Pcs
    <3> QED BY <2>9, <3>1 DEF TickLock, Keepalive
  <2>10. CASE TickSend
    <3>1. "top" \in Pcs BY DEF Pcs
    <3> QED BY <2>10, <3>1, SendType DEF TickSend
  <2> QED BY <2>1, <2>2, <2>3, <2>4, <2>5, <2>6, <2>7, <2>8, <2>9, <2>10 DEF LoopStep
<1>2. watch' \in Watch
  <2>1. CASE Top BY <2>1 DEF Top, Watch
  <2>2. CASE SessionRead
    <3>1. ka.got.session \in Nat BY DEF Keepalive, Heard
    <3> QED BY <2>2, <3>1 DEF SessionRead, Watch
  <2>3. CASE BeginRelease BY <2>3 DEF BeginRelease, Watch
  <2>4. CASE ~(Top \/ SessionRead \/ BeginRelease)
    <3>1. watch' = watch
      BY <2>4 DEF LoopStep, LookAround, RingSeen, RingRead, RingChecked, RingNote, TickLock, TickSend, KeepaliveOnly
    <3> QED BY <3>1
  <2> QED BY <2>1, <2>2, <2>3, <2>4
<1>3. clip' \in Clip
  BY DEF LoopStep, Top, LookAround, SessionRead, BeginRelease, RingSeen, RingRead, RingChecked,
         RingNote, TickLock, TickSend, KeepaliveOnly, Note, Clip
<1>4. box' \in Box /\ heard' \in Seq(Heard)
  <2>1. CASE TickSend
    <3>1. "top" \in Pcs BY DEF Pcs
    <3> QED BY <2>1, <3>1, SendType DEF TickSend
  <2> QED
    BY <2>1 DEF LoopStep, Top, LookAround, SessionRead, BeginRelease, RingSeen, RingRead,
                RingChecked, RingNote, TickLock, KeepaliveOnly
<1>5. lock' \in {"free", "keepalive", "append", "clear"} /\ UNCHANGED <<desired, restarts, left, fate>>
  BY DEF LoopStep, Top, LookAround, SessionRead, BeginRelease, RingSeen, RingRead, RingChecked,
         RingNote, TickLock, TickSend, SendNext, KeepaliveOnly
<1>6. blurred' \in BOOLEAN
  BY DEF LoopStep, Top, LookAround, SessionRead, BeginRelease, RingSeen, RingRead, RingChecked,
         RingNote, TickLock, TickSend, KeepaliveOnly
<1> QED BY <1>1, <1>2, <1>3, <1>4, <1>5, <1>6

LEMMA RecoveryType ==
  ASSUME TypeOK, RecoveryStep
  PROVE  TypeOK'
<1> USE DEF TypeOK
<1>0. \A pc \in Pcs : To(pc) \in Keepalive BY ToType
<1>1. ka' \in Keepalive
  <2>1. CASE CloneChecked BY <2>1, <1>0 DEF CloneChecked, Pcs
  <2>2. CASE HellosSeen
    <3>1. To("stats") \in Keepalive BY <1>0 DEF Pcs, Asks
    <3> QED BY <2>2, <3>1 DEF HellosSeen, Keepalive, Watch
  <2>3. CASE BeforeRead
    <3>1. To("relock") \in Keepalive /\ To("top") \in Keepalive BY <1>0 DEF Pcs
    <3>2. ka.got.session \in Nat BY DEF Keepalive, Heard
    <3> QED BY <2>3, <3>1, <3>2 DEF BeforeRead, Keepalive
  <2>4. CASE Relock
    <3>1. To("resend") \in Keepalive BY <1>0 DEF Pcs
    <3> QED BY <2>4, <3>1 DEF Relock, Keepalive
  <2>5. CASE Resend
    <3>1. "caps2" \in Pcs BY DEF Pcs, Asks
    <3> QED BY <2>5, <3>1, SendType DEF Resend
  <2>6. CASE ResendFails BY <2>6, <1>0 DEF ResendFails, Pcs
  <2>7. CASE CloneRechecked
    <3>1. To("reseen") \in Keepalive BY <1>0 DEF Pcs
    <3>2. (Answered /\ ka.got.up) \in BOOLEAN OBVIOUS
    <3> QED BY <2>7, <3>1, <3>2 DEF CloneRechecked, Keepalive
  <2>8. CASE GenSeen
    <3>1. To("clip") \in Keepalive BY <1>0 DEF Pcs, Asks
    <3> QED BY <2>8, <3>1 DEF GenSeen, Keepalive, Clip
  <2>9. CASE RingReread
    <3>1. To("stats2") \in Keepalive /\ To("top") \in Keepalive BY <1>0 DEF Pcs, Asks
    <3> PICK pc \in {"stats2", "top"}, ring \in {"unread", "holds", "empty"} :
          ka' = [To(pc) EXCEPT !.up = FALSE, !.ring = ring]
      BY <2>9 DEF RingReread
    <3>2. To(pc) \in Keepalive BY <3>1
    <3> QED BY ONLY <3>2, ka' = [To(pc) EXCEPT !.up = FALSE, !.ring = ring] DEF Keepalive
  <2>10. CASE Settle BY <2>10, <1>0 DEF Settle, Pcs
  <2>11. CASE NoteRing
    <3>1. To("noteSession") \in Keepalive BY <1>0 DEF Pcs
    <3> QED BY <2>11, <3>1 DEF NoteRing, Keepalive
  <2>12. CASE NoteSession \/ Count BY <2>12, <1>0 DEF NoteSession, Count, Pcs
  <2>13. CASE Finish
    <3>1. To("top") \in Keepalive BY <1>0 DEF Pcs
    <3> QED BY <2>13, <3>1 DEF Finish, Keepalive
  <2> QED
    BY <2>1, <2>2, <2>3, <2>4, <2>5, <2>6, <2>7, <2>8, <2>9, <2>10, <2>11, <2>12, <2>13
    DEF RecoveryStep
<1>2. watch' \in Watch
  <2>1. CASE NoteSession
    <3>1. ka.before \in Nat BY DEF Keepalive
    <3>2. watch' = [watch EXCEPT !.session = ka.before] BY <2>1 DEF NoteSession
    <3> QED BY ONLY <3>1, <3>2, watch \in Watch DEF Watch
  <2>2. CASE Count
    <3>1. watch' = [watch EXCEPT !.booted = FALSE] BY <2>2 DEF Count
    <3> QED BY ONLY <3>1, watch \in Watch DEF Watch
  <2>3. CASE Finish BY <2>3 DEF Finish, Watch
  <2>4. CASE CloneChecked \/ HellosSeen \/ BeforeRead \/ Relock \/ Resend \/ ResendFails
    <3>1. UNCHANGED watch
      BY <2>4 DEF CloneChecked, HellosSeen, BeforeRead, Relock, Resend, ResendFails, KeepaliveOnly
    <3> QED BY <3>1
  <2>5. CASE CloneRechecked \/ GenSeen \/ RingReread \/ Settle \/ NoteRing
    <3>1. UNCHANGED watch
      BY <2>5 DEF CloneRechecked, GenSeen, RingReread, Settle, NoteRing, KeepaliveOnly
    <3> QED BY <3>1
  <2> QED BY <2>1, <2>2, <2>3, <2>4, <2>5 DEF RecoveryStep
<1>3. clip' \in Clip
  <2>1. CASE NoteRing BY <2>1 DEF NoteRing, Note, Clip, Keepalive
  <2> QED
    BY <2>1 DEF RecoveryStep, CloneChecked, HellosSeen, BeforeRead, Relock, Resend, ResendFails,
           CloneRechecked, GenSeen, RingReread, Settle, NoteSession, Count, Finish, KeepaliveOnly
<1>7. restarts' \in Nat
  <2>1. CASE Count BY <2>1 DEF Count
  <2> QED
    BY <2>1 DEF RecoveryStep, CloneChecked, HellosSeen, BeforeRead, Relock, Resend, ResendFails,
           CloneRechecked, GenSeen, RingReread, Settle, NoteRing, NoteSession, Finish, KeepaliveOnly
<1>4. box' \in Box /\ heard' \in Seq(Heard)
  <2>1. CASE Resend
    <3>1. "caps2" \in Pcs BY DEF Pcs, Asks
    <3> QED BY <2>1, <3>1, SendType DEF Resend
  <2> QED
    BY <2>1 DEF RecoveryStep, CloneChecked, HellosSeen, BeforeRead, Relock, ResendFails,
                CloneRechecked, GenSeen, RingReread, Settle, NoteRing, NoteSession, Count, Finish,
                KeepaliveOnly
<1>5. left' \in Budget
  BY SpendType DEF RecoveryStep, CloneChecked, HellosSeen, BeforeRead, Relock, Resend, ResendFails,
         CloneRechecked, GenSeen, RingReread, Settle, NoteRing, NoteSession, Count, Finish,
         KeepaliveOnly
<1>8. blurred' \in BOOLEAN
  BY DEF RecoveryStep, CloneChecked, HellosSeen, BeforeRead, Relock, Resend, ResendFails,
         CloneRechecked, GenSeen, RingReread, Settle, NoteRing, NoteSession, Count, Finish,
         KeepaliveOnly
<1>6. lock' \in {"free", "keepalive", "append", "clear"} /\ UNCHANGED <<desired, fate>>
  BY DEF RecoveryStep, CloneChecked, HellosSeen, BeforeRead, Relock, Resend, ResendFails, SendNext,
         CloneRechecked, GenSeen, RingReread, Settle, NoteRing, NoteSession, Count, Finish,
         KeepaliveOnly
<1> QED BY <1>1, <1>2, <1>3, <1>4, <1>5, <1>6, <1>7, <1>8

LEMMA StepType == TypeOK /\ [Next]_vars => TypeOK'
<1>1. TypeOK /\ UNCHANGED vars => TypeOK' BY DEF TypeOK, vars
<1> QED BY <1>1, BoxStepType, UserStepType, QueryType, LoopType, RecoveryType DEF Next

-----------------------------------------------------------------------------
(* No re-send brings a dropped key back.                                    *)

LEMMA BoxStepKeeps ==
  ASSUME GhostInv, BoxStep
  PROVE  OnlyTheDesired' /\ NoGhostState'
<1> USE DEF GhostInv, TypeOK, OnlyTheDesired, NoGhostState
<1>1. UNCHANGED <<desired, lock, ka>>
  BY DEF BoxStep, Boot, Release, Detach, ComeBack, GraceEnds, CloneUp, PlayOut
<1>2. box'.held \subseteq box.held /\ (~box'.up => box'.held = {})
  <2>1. CASE \E said \in BOOLEAN : Boot(said) BY <2>1, BoxHolds DEF Boot
  <2>2. CASE Release BY <2>2, BoxHolds DEF Release
  <2>3. CASE Detach
    <3>1. Released(box) \in Box /\ Released(box).held = {} BY BoxTypes, BoxHolds
    <3> QED BY <2>3, <3>1 DEF Detach, Box
  <2>4. CASE GraceEnds
    <3>1. TornDown(box).held = {} BY BoxHolds
    <3> QED BY <2>4, <3>1 DEF GraceEnds, Box
  <2>5. CASE ComeBack \/ CloneUp \/ PlayOut BY <2>5 DEF ComeBack, CloneUp, PlayOut, Box
  <2> QED BY <2>1, <2>2, <2>3, <2>4, <2>5 DEF BoxStep
<1> QED BY <1>1, <1>2

LEMMA UserStepKeeps ==
  ASSUME GhostInv, UserStep
  PROVE  OnlyTheDesired' /\ NoGhostState'
<1> USE DEF GhostInv, TypeOK, OnlyTheDesired, NoGhostState
<1>1. ASSUME NEW k \in left.keys, SetKey(k) \/ UnsetKey(k) PROVE OnlyTheDesired' /\ NoGhostState'
  <2>1. k \in Keys BY DEF Budget
  <2>2. Commanded(box) \in Box /\ Commanded(box).held = box.held /\ Commanded(box).up = box.up
    BY BoxTypes, BoxHolds
  <2>3. UNCHANGED <<lock, ka>> /\ lock = "free" BY <1>1 DEF SetKey, UnsetKey, Op
  <2>4. CASE SetKey(k)
    <3>1. /\ WithKey(Commanded(box), k).held \subseteq box.held \cup {k}
          /\ WithKey(Commanded(box), k).up = box.up
          /\ ~box.up => WithKey(Commanded(box), k).held = box.held
      BY <2>1, <2>2, WithHolds
    <3> QED BY <2>3, <2>4, <3>1 DEF SetKey
  <2>5. CASE UnsetKey(k)
    <3>1. /\ WithoutKey(Commanded(box), k).up = box.up
          /\ box.up => WithoutKey(Commanded(box), k).held = box.held \ {k}
          /\ ~box.up => WithoutKey(Commanded(box), k).held = box.held
      BY <2>1, <2>2, WithHolds
    <3> QED BY <2>3, <2>5, <3>1 DEF UnsetKey
  <2> QED BY <1>1, <2>4, <2>5
<1>2. CASE ResetAll
  <2>1. Reset(box).held = {} BY BoxHolds
  <2> QED BY <1>2, <2>1 DEF ResetAll, Op
<1>3. ASSUME NEW what \in {"append", "clear"}, ClipSend(what) PROVE OnlyTheDesired' /\ NoGhostState'
  <2>1. box'.held = box.held /\ box'.up = box.up BY <1>3 DEF ClipSend, Commanded, Box
  <2> QED BY <1>3, <2>1 DEF ClipSend, Op
<1>4. CASE ClipLoaded BY <1>4 DEF ClipLoaded
<1> QED BY <1>1, <1>2, <1>3, <1>4 DEF UserStep

LEMMA QueryKeeps ==
  ASSUME GhostInv, Hear \/ Ask \/ TimeOut
  PROVE  OnlyTheDesired' /\ NoGhostState'
<1>1. box'.held = box.held /\ box'.up = box.up BY DEF GhostInv, TypeOK, Box, Hear, Ask, TimeOut
<1>2. ka'.pc = ka.pc /\ ka'.todo = ka.todo BY DEF GhostInv, TypeOK, Keepalive, Hear, Ask, TimeOut
<1>3. UNCHANGED <<desired, lock>> BY DEF Hear, Ask, TimeOut
<1> QED BY <1>1, <1>2, <1>3 DEF GhostInv, OnlyTheDesired, NoGhostState

\* A frame of a re-send sets a key the host still holds, and its last frees the lock.
LEMMA SendKeeps ==
  ASSUME GhostInv, ka.pc \in {"tickSend", "resend"}, NEW pc \in {"top", "caps2"}, SendNext(pc),
         UNCHANGED desired
  PROVE  OnlyTheDesired' /\ NoGhostState'
<1> USE DEF GhostInv, TypeOK, OnlyTheDesired, NoGhostState
<1>1. CASE ka.todo = {}
  <2>1. To(pc).pc = pc BY ToType DEF Pcs, Asks
  <2> QED BY <1>1, <2>1 DEF SendNext
<1>2. CASE ka.todo # {}
  <2> PICK k \in ka.todo : /\ ka' = [ka EXCEPT !.todo = @ \ {k}]
                           /\ box' = WithKey(Commanded(box), k)
                           /\ UNCHANGED lock
    BY <1>2 DEF SendNext
  <2>1. k \in Keys /\ k \in desired BY DEF Keepalive
  <2>2. Commanded(box) \in Box /\ Commanded(box).held = box.held /\ Commanded(box).up = box.up
    BY BoxTypes, BoxHolds
  <2>3. /\ box'.held \subseteq box.held \cup {k} /\ box'.up = box.up
        /\ ~box.up => box'.held = box.held
    BY <2>1, <2>2, WithHolds
  <2>4. ka'.pc = ka.pc /\ ka'.todo \subseteq ka.todo BY DEF Keepalive
  <2> QED BY <2>1, <2>3, <2>4
<1> QED BY <1>1, <1>2

\* The rest of the keepalive's steps send nothing, and take the lock only to send what is held.
LEMMA LoopKeeps ==
  ASSUME GhostInv, LoopStep \/ RecoveryStep
  PROVE  OnlyTheDesired' /\ NoGhostState'
<1> USE DEF GhostInv, TypeOK, OnlyTheDesired, NoGhostState
<1>0. \A pc \in Pcs : To(pc).pc = pc BY ToType
<1>1. CASE TickSend BY <1>1, SendKeeps DEF TickSend, At
<1>2. CASE Resend BY <1>2, SendKeeps DEF Resend, At
<1>3. CASE ResendFails
  <2>1. ka'.pc = "top" BY <1>0, <1>3 DEF ResendFails, Pcs
  <2> QED BY <1>3, <2>1 DEF ResendFails
<1>4. CASE TickLock \/ Relock
  <2>1. \A pc \in Pcs : To(pc) \in Keepalive BY ToType
  <2>2. /\ To("tickSend") \in Keepalive /\ To("tickSend").pc = "tickSend"
        /\ To("resend") \in Keepalive /\ To("resend").pc = "resend"
    BY <1>0, <2>1 DEF Pcs
  <2>3. ka'.todo \subseteq desired /\ ka'.pc \in {"tickSend", "resend"}
    BY <1>4, <2>2 DEF TickLock, Relock, Keepalive
  <2>4. lock' = "keepalive" /\ UNCHANGED <<box, desired>> BY <1>4 DEF TickLock, Relock
  <2> QED BY <2>3, <2>4
<1>5. CASE \/ Top \/ LookAround \/ SessionRead \/ BeginRelease \/ RingSeen \/ RingRead
           \/ RingChecked \/ RingNote \/ CloneChecked \/ HellosSeen \/ BeforeRead
           \/ CloneRechecked \/ GenSeen \/ RingReread \/ Settle \/ NoteRing
           \/ NoteSession \/ Count \/ Finish
  <2>1. \A pc \in Pcs : To(pc) \in Keepalive BY ToType
  <2>2. UNCHANGED <<box, desired, lock>>
    BY <1>5 DEF Top, LookAround, SessionRead, BeginRelease, RingSeen, RingRead, RingChecked, RingNote,
           CloneChecked, HellosSeen, BeforeRead, CloneRechecked, GenSeen, RingReread, Settle,
           NoteRing, NoteSession, Count, Finish, KeepaliveOnly
  <2>3. ka.pc \notin {"tickSend", "resend"}
    BY <1>5 DEF Top, LookAround, SessionRead, BeginRelease, RingSeen, RingRead, RingChecked, RingNote,
           CloneChecked, HellosSeen, BeforeRead, CloneRechecked, GenSeen, RingReread, Settle,
           NoteRing, NoteSession, Count, Finish, At, Back
  <2>4. ka'.pc \notin {"tickSend", "resend"}
    <3>1. CASE Top BY <3>1 DEF Top, Keepalive
    <3>2. CASE LookAround
      <4> PICK pc \in {"top", "sess", "ringSeen"}, tick \in BOOLEAN : ka' = [To(pc) EXCEPT !.tick = tick]
        BY <3>2 DEF LookAround
      <4>1. To(pc) \in Keepalive /\ To(pc).pc = pc BY <1>0, <2>1 DEF Pcs, Asks
      <4> QED BY <4>1 DEF Keepalive
    <3>3. CASE SessionRead BY <1>0, <3>3 DEF SessionRead, Pcs, Asks
    <3>4. CASE BeginRelease BY <1>0, <2>1, <3>4 DEF BeginRelease, Keepalive, Pcs
    <3>5. CASE RingSeen BY <1>0, <2>1, <3>5 DEF RingSeen, Keepalive, Pcs, Asks
    <3>6. CASE RingRead BY <1>0, <2>1, <3>6 DEF RingRead, Keepalive, Pcs, Asks
    <3>7. CASE RingChecked BY <1>0, <3>7 DEF RingChecked, Pcs
    <3>8. CASE RingNote BY <1>0, <2>1, <3>8 DEF RingNote, Keepalive, Pcs
    <3>9. CASE CloneChecked \/ Settle BY <1>0, <3>9 DEF CloneChecked, Settle, Pcs
    <3>10. CASE HellosSeen \/ GenSeen BY <1>0, <2>1, <3>10 DEF HellosSeen, GenSeen, Keepalive, Pcs, Asks
    <3>11. CASE BeforeRead BY <1>0, <2>1, <3>11 DEF BeforeRead, Keepalive, Pcs
    <3>12. CASE CloneRechecked BY <1>0, <2>1, <3>12 DEF CloneRechecked, Keepalive, Pcs
    <3>13. CASE RingReread BY <1>0, <2>1, <3>13 DEF RingReread, Keepalive, Pcs, Asks
    <3>14. CASE NoteRing BY <1>0, <2>1, <3>14 DEF NoteRing, Keepalive, Pcs
    <3>15. CASE NoteSession \/ Count BY <1>0, <3>15 DEF NoteSession, Count, Pcs
    <3>16. CASE Finish BY <1>0, <2>1, <3>16 DEF Finish, Keepalive, Pcs
    <3> QED
      BY <1>5, <3>1, <3>2, <3>3, <3>4, <3>5, <3>6, <3>7, <3>8, <3>9, <3>10, <3>11, <3>12, <3>13,
         <3>14, <3>15, <3>16
  <2> QED BY <2>2, <2>3, <2>4
<1> QED BY <1>1, <1>2, <1>3, <1>4, <1>5 DEF LoopStep, RecoveryStep

LEMMA GhostStep == GhostInv /\ [Next]_vars => GhostInv'
<1>1. GhostInv /\ UNCHANGED vars => OnlyTheDesired' /\ NoGhostState'
  BY DEF GhostInv, OnlyTheDesired, NoGhostState, vars
<1>2. GhostInv /\ Next => OnlyTheDesired' /\ NoGhostState'
  BY BoxStepKeeps, UserStepKeeps, QueryKeeps, LoopKeeps DEF Next
<1>3. GhostInv /\ [Next]_vars => TypeOK' BY StepType DEF GhostInv
<1> QED BY <1>1, <1>2, <1>3 DEF GhostInv

-----------------------------------------------------------------------------
\* Every state of the recovery has its type.
THEOREM TypeCorrect == Spec => []TypeOK
  BY InitType, StepType, PTL DEF Spec

\* Whatever boots, releases, clones, users, ticks and recoveries cross, the box never holds what
\* the host has dropped: a re-send reads and writes what is held under the lock a drop waits for.
THEOREM NoGhostCorrect == Spec => []NoGhostState
<1>1. Init => GhostInv
  <2> SUFFICES ASSUME Init PROVE OnlyTheDesired /\ NoGhostState BY InitType DEF GhostInv
  <2>1. box.held = {} BY DEF Init
  <2>2. ka.pc = "top" /\ lock = "free" BY DEF Init, Rest
  <2> QED BY <2>1, <2>2 DEF OnlyTheDesired, NoGhostState
<1>2. GhostInv => NoGhostState BY DEF GhostInv
<1> QED BY <1>1, GhostStep, <1>2, PTL DEF Spec

-----------------------------------------------------------------------------
(* Nothing the box drops is missed.                                         *)

InRecovery == {"caps", "seen", "stats", "relock", "resend"} \cup PastResend
SeenKnown == {"stats", "relock", "resend"} \cup PastResend
BeforeKnown == {"relock", "resend"} \cup PastResend

\* What the box is known to hold: the host's keys but `rest`, and nothing where a clone may come up
\* between a re-send and the check of it.
HeldBut(rest) == SlowClone => desired \ rest \subseteq box.held
AllHeld == HeldBut({})

\* A hello this recovery has not allowed for; a release after its first reading.
Again == HelloToCome \/ watch.hellos > ka.seen
Disturbed == Again \/ box.session > ka.before

\* What a command set, the next release counts.
HeldIsMarked == box.held # {} => box.dirty

\* No hello is overlooked: the watch is armed or already in a recovery, and a recovery is owed or
\* pending until the keepalive ends it.
Watched ==
  /\ watch.armed \/ watch.recovering
  /\ watch.recovering => watch.owed \/ ka.cause # "none"
  /\ ka.cause # "none" => watch.recovering
  /\ ka.pc \in InRecovery => ka.cause # "none"
  /\ ka.pc \in InRecovery /\ (ka.pc = "caps" => ka.wait = "got") => watch.armed
  /\ ka.pc \in SeenKnown => ka.seen <= watch.hellos

\* The one answer on its way that is still wanted is to the query the keepalive waits on.
OneAnswer ==
  /\ ka.pc \notin DOMAIN Asks => ka.wait = "unasked"
  /\ \A i \in DOMAIN heard : heard[i].live => ka.wait = "asked"
  /\ \A i, j \in DOMAIN heard : heard[i].live /\ heard[j].live => i = j

\* The counter only goes up from a reading of it, unless a hello tells of a boot.
BeforeHolds ==
  /\ ka.pc = "stats" /\ ka.wait = "got" => Again \/ ka.got.session <= box.session
  /\ ka.pc = "stats" =>
       \A i \in DOMAIN heard : heard[i].live => Again \/ heard[i].session <= box.session
  /\ ka.pc \in BeforeKnown => Again \/ ka.before <= box.session
  /\ ka.pc \in {"count", "finish"} => watch.session = ka.before

\* What a recovery has sent again is held, or it was disturbed, or the clone is down and its second
\* check has not said otherwise.
Resent ==
  /\ ka.pc = "resend" => Disturbed \/ ~box.up \/ HeldBut(ka.todo)
  /\ ka.pc = "caps2" =>
       \/ Disturbed \/ AllHeld
       \/ /\ ~box.up
          /\ ~(ka.wait = "got" /\ ka.got.up)
          /\ \A i \in DOMAIN heard : ~(heard[i].live /\ heard[i].up)
  /\ ka.pc \in {"reseen", "clip"} => Disturbed \/ AllHeld \/ ~ka.up
  /\ ka.pc \in {"stats2", "noteRing", "noteSession", "count", "finish"} => Disturbed \/ AllHeld

\* With no recovery due, a counter at its baseline means that nothing was dropped.
Due == HelloToCome \/ watch.owed \/ ka.cause # "none" \/ ka.pc = "begin"
Restored ==
  ~Due => box.session >= watch.session /\ (box.session = watch.session => AllHeld)

LossInv ==
  /\ GhostInv
  /\ HeldIsMarked /\ Watched /\ OneAnswer /\ BeforeHolds /\ Resent /\ Restored

-----------------------------------------------------------------------------
(* What the box and the users do to what a recovery relies on.              *)

\* Hellos stay, the counter goes up, and nothing new answers.
Meanwhile ==
  /\ HelloToCome => HelloToCome'
  /\ HelloToCome' \/ box'.session >= box.session
  /\ \A i \in DOMAIN heard' : heard'[i].live => i \in DOMAIN heard /\ heard'[i] = heard[i]

Noticed == HelloToCome' \/ box'.session > box.session

LEMMA GreetingAdds ==
  ASSUME TypeOK, heard' = heard \o Greeting(box), box'.pcSeen = TRUE
  PROVE  /\ HelloToCome => HelloToCome'
         /\ \A i \in DOMAIN heard' : heard'[i].live => i \in DOMAIN heard /\ heard'[i] = heard[i]
<1>1. heard \in Seq(Heard) /\ box \in Box BY DEF TypeOK
<1>2. CASE box.pcSeen
  <2>1. Greeting(box) = <<>> BY <1>2 DEF Greeting
  <2>2. heard' = heard BY <1>1, <2>1
  <2> QED BY <1>2, <2>2 DEF HelloToCome
<1>3. CASE ~box.pcSeen
  <2>1. heard' = Append(heard, Hello) BY <1>1, <1>3 DEF Greeting
  <2>2. heard' \in Seq(Heard) /\ Len(heard') = Len(heard) + 1 /\ heard'[Len(heard) + 1] = Hello
    BY <1>1, <2>1, SaidTypes
  <2>3. Len(heard) + 1 \in DOMAIN heard' BY <2>2
  <2>4. HelloToCome' BY <2>2, <2>3 DEF HelloToCome, Hello
  <2>5. ASSUME NEW i \in DOMAIN heard', heard'[i].live PROVE i \in DOMAIN heard /\ heard'[i] = heard[i]
    <3>1. i # Len(heard) + 1 BY <2>2, <2>5 DEF Hello
    <3> QED BY <1>1, <2>1, <2>2, <3>1
  <2> QED BY <2>4, <2>5
<1> QED BY <1>2, <1>3

\* A release counts what was marked, and takes everything; a boot's hello is to come.
LEMMA ReleaseCounts ==
  ASSUME NEW b \in Box
  PROVE  /\ Released(b).session >= b.session /\ (b.dirty => Released(b).session > b.session)
         /\ Released(b).pcSeen = b.pcSeen /\ Released(b).up = b.up /\ Released(b).held = {}
         /\ TornDown(b).session >= b.session /\ (b.dirty => TornDown(b).session > b.session)
         /\ TornDown(b).pcSeen = b.pcSeen /\ TornDown(b).up = FALSE /\ TornDown(b).held = {}
         /\ Reset(b).session >= b.session
         /\ Reset(b).pcSeen = TRUE /\ Reset(b).held = {}
         /\ ~Booted(b).pcSeen /\ Booted(b).up = FALSE /\ Booted(b).held = {}
         /\ Commanded(b).session = b.session /\ Commanded(b).pcSeen = TRUE /\ Commanded(b).dirty = TRUE
<1>1. b.session \in Nat BY DEF Box
<1>2. /\ Released(b).session >= b.session /\ (b.dirty => Released(b).session > b.session)
      /\ Released(b).pcSeen = b.pcSeen /\ Released(b).up = b.up /\ Released(b).held = {}
  BY <1>1 DEF Released, Box
<1>3. Released(b) \in Box BY BoxTypes
<1>4. /\ TornDown(b).session = Released(b).session /\ TornDown(b).pcSeen = Released(b).pcSeen
      /\ TornDown(b).up = FALSE /\ TornDown(b).held = Released(b).held
  BY <1>3 DEF TornDown, Box
<1>5. Reset(b).session >= b.session /\ Reset(b).pcSeen = TRUE /\ Reset(b).held = {}
  BY <1>1 DEF Reset, Box
<1>6. /\ ~Booted(b).pcSeen /\ Booted(b).up = FALSE /\ Booted(b).held = {}
      /\ Commanded(b).session = b.session /\ Commanded(b).pcSeen = TRUE /\ Commanded(b).dirty = TRUE
  BY DEF Booted, Commanded, Box
<1> QED BY <1>2, <1>4, <1>5, <1>6

LEMMA KeySet ==
  ASSUME NEW b \in Box, NEW k \in Keys
  PROVE  /\ \A w \in {WithKey(Commanded(b), k), WithoutKey(Commanded(b), k)} :
              w.session = b.session /\ w.pcSeen = TRUE /\ w.dirty = TRUE /\ w.up = b.up
         /\ b.up => /\ WithKey(Commanded(b), k).held = b.held \cup {k}
                    /\ WithoutKey(Commanded(b), k).held = b.held \ {k}
         /\ ~b.up => /\ WithKey(Commanded(b), k).held = b.held
                     /\ WithoutKey(Commanded(b), k).held = b.held
<1>1. /\ Commanded(b) \in Box /\ Commanded(b).session = b.session /\ Commanded(b).pcSeen = TRUE
      /\ Commanded(b).dirty = TRUE /\ Commanded(b).held = b.held /\ Commanded(b).up = b.up
  BY DEF Commanded, Box
<1> QED BY <1>1 DEF WithKey, WithoutKey, Box

\* What is lost without a sign was nothing: the box lets go of nothing it does not count.
LEMMA BoxDoes ==
  ASSUME TypeOK, HeldIsMarked, BoxStep
  PROVE  /\ Meanwhile /\ HeldIsMarked'
         /\ Noticed \/ box.held = {} \/ box'.held = box.held
         /\ SlowClone /\ Resending /\ box'.up => box.up
<1> USE DEF TypeOK
<1>1. UNCHANGED <<watch, desired, ka, lock>>
  BY DEF BoxStep, Boot, Release, Detach, ComeBack, GraceEnds, CloneUp, PlayOut
<1>2. CASE \E said \in BOOLEAN : Boot(said)
  <2> PICK said \in BOOLEAN : Boot(said) BY <1>2
  <2>1. ~box'.pcSeen /\ box'.up = FALSE /\ box'.held = {} BY ReleaseCounts DEF Boot
  <2>2. HelloToCome' BY <2>1 DEF HelloToCome
  <2>3. ASSUME NEW i \in DOMAIN heard', heard'[i].live PROVE i \in DOMAIN heard /\ heard'[i] = heard[i]
    <3>1. CASE heard' = heard BY <2>3, <3>1
    <3>2. CASE heard' = Append(heard, Hello)
      <4>1. Len(heard') = Len(heard) + 1 /\ heard'[Len(heard) + 1] = Hello /\ heard' \in Seq(Heard)
        BY <3>2, SaidTypes
      <4>2. i # Len(heard) + 1 BY <2>3, <4>1 DEF Hello
      <4> QED BY <3>2, <4>1, <4>2
    <3> QED BY <3>1, <3>2 DEF Boot
  <2> QED BY <2>1, <2>2, <2>3 DEF Meanwhile, Noticed, HeldIsMarked
<1>3. ASSUME box' = Released(box) \/ box' = [Released(box) EXCEPT !.grace = "gone"] \/ box' = TornDown(box),
             heard' = heard
      PROVE  /\ Meanwhile /\ HeldIsMarked' /\ (Noticed \/ box.held = {} \/ box'.held = box.held)
             /\ (box'.up => box.up)
  <2>1. /\ box'.session >= box.session /\ (box.dirty => box'.session > box.session)
        /\ box'.pcSeen = box.pcSeen /\ (box'.up => box.up) /\ box'.held = {}
    <3>1. Released(box) \in Box BY BoxTypes
    <3>2. CASE box' = [Released(box) EXCEPT !.grace = "gone"]
      <4>1. /\ box'.session = Released(box).session /\ box'.pcSeen = Released(box).pcSeen
            /\ box'.up = Released(box).up /\ box'.held = Released(box).held
        BY <3>1, <3>2 DEF Box
      <4> QED BY <4>1, ReleaseCounts
    <3>3. CASE box' = Released(box) BY ONLY <3>3, box \in Box, ReleaseCounts
    <3>4. CASE box' = TornDown(box) BY ONLY <3>4, box \in Box, ReleaseCounts
    <3> QED BY <1>3, <3>2, <3>3, <3>4
  <2>2. HelloToCome => HelloToCome' BY <1>3, <2>1 DEF HelloToCome
  <2> QED BY <1>3, <2>1, <2>2 DEF Meanwhile, Noticed, HeldIsMarked
<1>4. CASE Release \/ Detach BY <1>3, <1>4 DEF Release, Detach
<1>5. ASSUME box'.session = box.session, box'.pcSeen = box.pcSeen, box'.held = box.held,
             box'.dirty = box.dirty, heard' = heard
      PROVE  Meanwhile /\ HeldIsMarked'
  BY <1>5 DEF Meanwhile, HelloToCome, HeldIsMarked, Box
<1>6. CASE ComeBack \/ PlayOut
  <2>1. /\ box'.session = box.session /\ box'.pcSeen = box.pcSeen /\ box'.held = box.held
        /\ box'.dirty = box.dirty /\ heard' = heard /\ box'.up = box.up
    BY <1>6 DEF ComeBack, PlayOut, Box
  <2> QED BY <1>5, <2>1
<1>7. CASE GraceEnds
  <2>1. CASE box' = TornDown(box) BY <1>3, <1>7, <2>1 DEF GraceEnds
  <2>2. CASE box' = [box EXCEPT !.grace = "none"]
    <3>1. /\ box'.session = box.session /\ box'.pcSeen = box.pcSeen /\ box'.held = box.held
          /\ box'.dirty = box.dirty /\ heard' = heard /\ box'.up = box.up
      BY <1>7, <2>2 DEF GraceEnds, Box
    <3> QED BY <1>5, <3>1
  <2> QED BY <1>7, <2>1, <2>2 DEF GraceEnds
<1>8. CASE CloneUp
  <2>1. /\ box'.session = box.session /\ box'.pcSeen = box.pcSeen /\ box'.held = box.held
        /\ box'.dirty = box.dirty /\ heard' = heard /\ ~(SlowClone /\ Resending)
    BY <1>8 DEF CloneUp, Box
  <2> QED BY <1>5, <2>1
<1> QED BY <1>2, <1>3, <1>4, <1>6, <1>7, <1>8 DEF BoxStep

\* A frame the host writes releases nothing, and the hello it draws is the one that was to come.
LEMMA FrameDoes ==
  ASSUME TypeOK, heard' = heard \o Greeting(box), box'.pcSeen = TRUE, box'.session = box.session
  PROVE  Meanwhile
<1>1. box.session \in Nat BY DEF TypeOK, Box
<1>2. box'.session >= box.session BY ONLY <1>1, box'.session = box.session
<1>3. /\ HelloToCome => HelloToCome'
      /\ \A i \in DOMAIN heard' : heard'[i].live => i \in DOMAIN heard /\ heard'[i] = heard[i]
  BY GreetingAdds
<1> QED BY <1>2, <1>3 DEF Meanwhile

\* A user's key is held, or a re-send is to come.
LEMMA UserDoes ==
  ASSUME TypeOK, OnlyTheDesired, HeldIsMarked, ~BlindSets, UserStep
  PROVE  /\ Meanwhile /\ HeldIsMarked'
         /\ Noticed \/ (AllHeld => AllHeld') \/ (~box.up /\ ResendToCome)
         /\ box'.up = box.up
         /\ lock = "keepalive" => UNCHANGED <<box, desired>>
<1>0. box \in Box /\ box.session \in Nat /\ left \in Budget BY DEF TypeOK, Box
<1>1. ASSUME NEW k \in left.keys, SetKey(k) \/ UnsetKey(k)
      PROVE  /\ Meanwhile /\ HeldIsMarked' /\ lock = "free" /\ box'.up = box.up
             /\ (AllHeld => AllHeld') \/ (~box.up /\ ResendToCome)
  <2>1. k \in Keys BY <1>0 DEF Budget
  <2>0. /\ \A w \in {WithKey(Commanded(box), k), WithoutKey(Commanded(box), k)} :
              w.session = box.session /\ w.pcSeen = TRUE /\ w.dirty = TRUE /\ w.up = box.up
        /\ box.up => /\ WithKey(Commanded(box), k).held = box.held \cup {k}
                     /\ WithoutKey(Commanded(box), k).held = box.held \ {k}
        /\ ~box.up => /\ WithKey(Commanded(box), k).held = box.held
                      /\ WithoutKey(Commanded(box), k).held = box.held
    BY ONLY <1>0, <2>1, KeySet
  <2>2. /\ box'.session = box.session /\ box'.pcSeen = TRUE /\ box'.dirty = TRUE /\ box'.up = box.up
    <3>1. box' \in {WithKey(Commanded(box), k), WithoutKey(Commanded(box), k)}
      BY <1>1 DEF SetKey, UnsetKey
    <3> QED BY <3>1, <2>0
  <2>3. heard' = heard \o Greeting(box) /\ lock = "free" BY <1>1 DEF SetKey, UnsetKey, Op
  <2>4. Meanwhile BY <2>2, <2>3, FrameDoes
  <2>5. CASE SetKey(k)
    <3>1. CASE box.up
      <4>1. box'.held = box.held \cup {k} BY <2>5, <3>1, <2>0 DEF SetKey
      <4> QED BY <2>2, <2>3, <2>4, <2>5, <4>1 DEF SetKey, AllHeld, HeldBut, HeldIsMarked
    <3>2. CASE ~box.up
      BY <2>2, <2>3, <2>4, <2>5, <3>2 DEF SetKey, HeldIsMarked
    <3> QED BY <3>1, <3>2
  <2>6. CASE UnsetKey(k)
    <3>1. CASE box.up
      <4>1. box'.held = box.held \ {k} BY <2>6, <3>1, <2>0 DEF UnsetKey
      <4> QED BY <2>2, <2>3, <2>4, <2>6, <4>1 DEF UnsetKey, AllHeld, HeldBut, HeldIsMarked
    <3>2. CASE ~box.up
      <4>1. box'.held = box.held BY <2>6, <3>2, <2>0 DEF UnsetKey
      <4>2. box.held = {} BY <3>2 DEF OnlyTheDesired
      <4> QED BY <2>2, <2>3, <2>4, <2>6, <4>1, <4>2 DEF UnsetKey, AllHeld, HeldBut, HeldIsMarked
    <3> QED BY <3>1, <3>2
  <2> QED BY <1>1, <2>5, <2>6
<1>2. CASE ResetAll
  <2>1. box'.session >= box.session /\ box'.pcSeen = TRUE /\ box'.held = {} /\ box'.up = box.up
    BY <1>2, ReleaseCounts, BoxHolds, <1>0 DEF ResetAll
  <2>2. Meanwhile BY <1>2, <2>1, GreetingAdds DEF ResetAll, Meanwhile
  <2> QED BY <1>2, <2>1, <2>2 DEF ResetAll, Op, AllHeld, HeldBut, HeldIsMarked
<1>3. ASSUME NEW what \in {"append", "clear"}, ClipSend(what)
      PROVE  /\ Meanwhile /\ HeldIsMarked' /\ lock = "free" /\ box'.held = box.held /\ box'.up = box.up
             /\ UNCHANGED desired
  <2>1. Commanded(box) \in Box BY <1>0, BoxTypes
  <2>2. /\ box'.session = Commanded(box).session /\ box'.pcSeen = Commanded(box).pcSeen
        /\ box'.dirty = Commanded(box).dirty /\ box'.up = Commanded(box).up
        /\ box'.held = Commanded(box).held
    BY <1>3, <2>1 DEF ClipSend, Box
  <2>3. /\ box'.session = box.session /\ box'.pcSeen = TRUE /\ box'.dirty = TRUE
        /\ box'.up = box.up /\ box'.held = box.held
    BY <2>2, <1>0, ReleaseCounts, BoxHolds
  <2>4. heard' = heard \o Greeting(box) /\ lock = "free" /\ UNCHANGED desired BY <1>3 DEF ClipSend, Op
  <2>5. Meanwhile BY <2>3, <2>4, FrameDoes
  <2> QED BY <2>3, <2>4, <2>5 DEF HeldIsMarked
<1>4. CASE ClipLoaded
  <2>1. UNCHANGED <<box, heard, desired>> BY <1>4 DEF ClipLoaded
  <2> QED BY <2>1, <1>0 DEF Meanwhile, HelloToCome, HeldIsMarked, AllHeld, HeldBut
<1>5. CASE \E k \in left.keys : SetKey(k) \/ UnsetKey(k) BY <1>1, <1>5
<1>6. CASE \E what \in {"append", "clear"} : ClipSend(what) BY <1>3, <1>6 DEF AllHeld, HeldBut
<1> QED BY <1>2, <1>4, <1>5, <1>6 DEF UserStep

\* One frame of a re-send, or its end.
LEMMA SendDoes ==
  ASSUME TypeOK, OnlyTheDesired, HeldIsMarked, ka.pc \in {"tickSend", "resend"},
         NEW pc \in {"top", "caps2"}, SendNext(pc)
  PROVE  /\ Meanwhile /\ HeldIsMarked' /\ box'.up = box.up /\ box.held \subseteq box'.held
         /\ \/ ka.todo = {} /\ UNCHANGED <<box, heard>> /\ ka' = To(pc)
            \/ \E k \in ka.todo : /\ ka' = [ka EXCEPT !.todo = @ \ {k}]
                                  /\ box.up => k \in box'.held
<1>0. box \in Box /\ box.session \in Nat /\ ka \in Keepalive BY DEF TypeOK, Box
<1>1. CASE ka.todo = {}
  <2>1. UNCHANGED <<box, heard>> /\ ka' = To(pc) BY <1>1 DEF SendNext
  <2>2. Meanwhile /\ HeldIsMarked' BY <2>1, <1>0 DEF Meanwhile, HelloToCome, HeldIsMarked
  <2> QED BY <1>1, <2>1, <2>2
<1>2. CASE ka.todo # {}
  <2> PICK k \in ka.todo : /\ ka' = [ka EXCEPT !.todo = @ \ {k}]
                           /\ box' = WithKey(Commanded(box), k)
                           /\ heard' = heard \o Greeting(box)
    BY <1>2 DEF SendNext
  <2>1. k \in Keys BY <1>0 DEF Keepalive
  <2>2. /\ box'.session = box.session /\ box'.pcSeen = TRUE /\ box'.dirty = TRUE /\ box'.up = box.up
        /\ (box.up => box'.held = box.held \cup {k}) /\ (~box.up => box'.held = box.held)
    BY <2>1, <1>0, KeySet
  <2>3. Meanwhile BY <2>2, FrameDoes
  <2>4. box.held \subseteq box'.held /\ (box.up => k \in box'.held) BY <2>2
  <2>5. HeldIsMarked' BY <2>2 DEF HeldIsMarked
  <2> QED BY <2>2, <2>3, <2>4, <2>5
<1> QED BY <1>1, <1>2

-----------------------------------------------------------------------------
(* A step that leaves the watch and the keepalive's readings alone.         *)

ReadingsKept ==
  /\ ka'.pc = ka.pc /\ ka'.wait = ka.wait /\ ka'.got = ka.got /\ ka'.cause = ka.cause
  /\ ka'.seen = ka.seen /\ ka'.before = ka.before /\ ka'.up = ka.up

LEMMA SessionNumbers ==
  ASSUME TypeOK
  PROVE  /\ box.session \in Nat /\ watch.session \in Nat /\ watch.hellos \in Nat
         /\ ka.seen \in Nat /\ ka.before \in Nat /\ ka.got.session \in Nat
         /\ \A i \in DOMAIN heard : heard[i].session \in Nat
<1>1. \A i \in DOMAIN heard : heard[i] \in Heard BY DEF TypeOK
<1>2. ka.got \in Heard BY DEF TypeOK, Keepalive
<1> QED BY <1>1, <1>2 DEF TypeOK, Box, Watch, Keepalive, Heard

LEMMA MeanwhileReadings ==
  ASSUME LossInv, TypeOK', Meanwhile, ReadingsKept, UNCHANGED watch
  PROVE  /\ Watched' /\ OneAnswer' /\ BeforeHolds'
         /\ Again => Again'
         /\ ka.pc \in BeforeKnown => (Disturbed => Disturbed') /\ (Noticed => Disturbed')
<1>1. Watched' BY DEF LossInv, Watched, ReadingsKept
<1>2. OneAnswer' BY DEF LossInv, OneAnswer, ReadingsKept, Meanwhile
<1>3. Again => Again' BY DEF Again, Meanwhile, ReadingsKept
<1>4. /\ box.session \in Nat /\ box'.session \in Nat /\ ka.before \in Nat /\ ka.got.session \in Nat
      /\ \A i \in DOMAIN heard : heard[i].session \in Nat
  <2>1. TypeOK BY DEF LossInv, GhostInv
  <2>2. box'.session \in Nat BY DEF TypeOK, Box
  <2> QED BY <2>1, <2>2, SessionNumbers
<1>5. \A n \in Nat : Again \/ n <= box.session => Again' \/ n <= box'.session
  <2>1. CASE HelloToCome' BY <2>1 DEF Again
  <2>2. CASE box'.session >= box.session BY <1>3, <1>4, <2>2
  <2> QED BY <2>1, <2>2 DEF Meanwhile
<1>6. BeforeHolds'
  <2>1. ka.pc = "stats" /\ ka.wait = "got" => Again' \/ ka.got.session <= box'.session
    BY <1>4, <1>5 DEF LossInv, BeforeHolds
  <2>2. ka.pc = "stats" =>
          \A i \in DOMAIN heard : heard[i].live => Again' \/ heard[i].session <= box'.session
    BY <1>4, <1>5 DEF LossInv, BeforeHolds
  <2>3. ka.pc \in BeforeKnown => Again' \/ ka.before <= box'.session
    BY <1>4, <1>5 DEF LossInv, BeforeHolds
  <2>4. ka.pc \in {"count", "finish"} => watch'.session = ka.before BY DEF LossInv, BeforeHolds
  <2>5. ka'.pc = "stats" =>
          \A i \in DOMAIN heard' : heard'[i].live => Again' \/ heard'[i].session <= box'.session
    BY <2>2 DEF Meanwhile, ReadingsKept
  <2> QED BY <2>1, <2>3, <2>4, <2>5 DEF BeforeHolds, ReadingsKept
<1>7. ASSUME ka.pc \in BeforeKnown, box'.session > box.session PROVE Disturbed'
  <2>1. Again \/ ka.before <= box.session BY <1>7 DEF LossInv, BeforeHolds
  <2>2. CASE Again BY <1>3, <2>2 DEF Disturbed
  <2>3. CASE ka.before <= box.session
    <3>1. box'.session > ka.before BY ONLY <1>4, <1>7, <2>3
    <3> QED BY <3>1 DEF Disturbed, ReadingsKept
  <2> QED BY <2>1, <2>2, <2>3
<1>8. ASSUME ka.pc \in BeforeKnown, box.session > ka.before PROVE Disturbed'
  <2>1. CASE HelloToCome' BY <2>1 DEF Disturbed, Again
  <2>2. CASE box'.session >= box.session
    <3>1. box'.session > ka.before BY ONLY <1>4, <1>8, <2>2
    <3> QED BY <3>1 DEF Disturbed, ReadingsKept
  <2> QED BY <2>1, <2>2 DEF Meanwhile
<1>9. ka.pc \in BeforeKnown => (Disturbed => Disturbed') BY <1>3, <1>8 DEF Disturbed
<1>10. ka.pc \in BeforeKnown => (Noticed => Disturbed') BY <1>7 DEF Noticed, Disturbed, Again
<1> QED BY <1>1, <1>2, <1>3, <1>6, <1>9, <1>10

\* Whatever the box and the users do meanwhile, what was sent again is held, or the sign is there.
LEMMA MeanwhileResent ==
  ASSUME LossInv, TypeOK', Meanwhile, ReadingsKept, UNCHANGED watch,
         Noticed \/ (AllHeld => AllHeld') \/ (~box.up /\ ResendToCome),
         SlowClone /\ Resending /\ box'.up => box.up,
         ka.pc = "resend" /\ box.up /\ HeldBut(ka.todo) => Noticed \/ HeldBut(ka.todo)'
  PROVE  Resent' /\ Restored'
<1>1. /\ Again => Again'
      /\ ka.pc \in BeforeKnown => (Disturbed => Disturbed') /\ (Noticed => Disturbed')
  BY MeanwhileReadings
<1>2. TypeOK BY DEF LossInv, GhostInv
<1>3. ASSUME ka.pc \in PastResend, AllHeld PROVE Disturbed' \/ AllHeld'
  <2>1. ka.pc \in BeforeKnown BY <1>3 DEF BeforeKnown
  <2>2. ASSUME ResendToCome PROVE Disturbed
    <3>1. HelloToCome \/ watch.hellos # ka.seen \/ box.session # ka.before
      BY <1>3, <2>2 DEF ResendToCome
    <3>2. ka.seen <= watch.hellos BY <1>3 DEF LossInv, Watched, SeenKnown
    <3>3. Again \/ ka.before <= box.session BY <2>1 DEF LossInv, BeforeHolds
    <3>4. watch.hellos # ka.seen => watch.hellos > ka.seen BY ONLY <1>2, <3>2, SessionNumbers
    <3>5. ka.before <= box.session /\ box.session # ka.before => box.session > ka.before
      BY ONLY <1>2, SessionNumbers
    <3> QED BY <3>1, <3>3, <3>4, <3>5 DEF Disturbed, Again
  <2> QED BY <1>1, <1>3, <2>1, <2>2
<1>4. ka.pc = "resend" => Disturbed' \/ ~box'.up \/ HeldBut(ka.todo)'
  <2> SUFFICES ASSUME ka.pc = "resend", box'.up, SlowClone
               PROVE  Disturbed' \/ HeldBut(ka.todo)'
    BY DEF HeldBut
  <2>1. box.up BY DEF Resending
  <2>2. ka.pc \in BeforeKnown BY DEF BeforeKnown
  <2>3. Disturbed \/ HeldBut(ka.todo) BY <2>1 DEF LossInv, Resent
  <2> QED BY <1>1, <2>1, <2>2, <2>3
<1>5. ka.pc = "caps2" =>
        \/ Disturbed' \/ AllHeld'
        \/ /\ ~box'.up
           /\ ~(ka'.wait = "got" /\ ka'.got.up)
           /\ \A i \in DOMAIN heard' : ~(heard'[i].live /\ heard'[i].up)
  <2> SUFFICES ASSUME ka.pc = "caps2", ~Disturbed', ~AllHeld'
               PROVE  /\ ~box'.up
                      /\ ~(ka'.wait = "got" /\ ka'.got.up)
                      /\ \A i \in DOMAIN heard' : ~(heard'[i].live /\ heard'[i].up)
    OBVIOUS
  <2>1. ka.pc \in PastResend /\ ka.pc \in BeforeKnown BY DEF PastResend, BeforeKnown
  <2>2. ~Disturbed /\ ~AllHeld BY <1>1, <1>3, <2>1
  <2>3. /\ ~box.up
        /\ ~(ka.wait = "got" /\ ka.got.up)
        /\ \A i \in DOMAIN heard : ~(heard[i].live /\ heard[i].up)
    BY <2>2 DEF LossInv, Resent
  <2>4. SlowClone BY DEF AllHeld, HeldBut
  <2>5. ~box'.up BY <2>3, <2>4 DEF Resending
  <2> QED BY <2>3, <2>5 DEF Meanwhile, ReadingsKept
<1>6. ka.pc \in {"reseen", "clip"} => Disturbed' \/ AllHeld' \/ ~ka'.up
  <2> SUFFICES ASSUME ka.pc \in {"reseen", "clip"}, ka.up PROVE Disturbed' \/ AllHeld'
    BY DEF ReadingsKept
  <2>1. ka.pc \in PastResend /\ ka.pc \in BeforeKnown BY DEF PastResend, BeforeKnown
  <2>2. Disturbed \/ AllHeld BY DEF LossInv, Resent
  <2> QED BY <1>1, <1>3, <2>1, <2>2
<1>7. ka.pc \in {"stats2", "noteRing", "noteSession", "count", "finish"} => Disturbed' \/ AllHeld'
  <2> SUFFICES ASSUME ka.pc \in {"stats2", "noteRing", "noteSession", "count", "finish"}
               PROVE  Disturbed' \/ AllHeld'
    OBVIOUS
  <2>1. ka.pc \in PastResend /\ ka.pc \in BeforeKnown BY DEF PastResend, BeforeKnown
  <2>2. Disturbed \/ AllHeld BY DEF LossInv, Resent
  <2> QED BY <1>1, <1>3, <2>1, <2>2
<1>8. Resent' BY <1>4, <1>5, <1>6, <1>7 DEF Resent, ReadingsKept
<1>9. Restored'
  <2> SUFFICES ASSUME ~Due'
               PROVE  box'.session >= watch.session /\ (box'.session = watch.session => AllHeld')
    BY DEF Restored
  <2>1. ~Due /\ ~HelloToCome' /\ ka.cause = "none" BY DEF Due, Meanwhile, ReadingsKept
  <2>2. box.session >= watch.session /\ (box.session = watch.session => AllHeld)
    BY <2>1 DEF LossInv, Restored
  <2>3. box'.session >= box.session BY <2>1 DEF Meanwhile
  <2>4. box.session \in Nat /\ watch.session \in Nat /\ box'.session \in Nat
    <3>1. box'.session \in Nat BY DEF TypeOK, Box
    <3> QED BY <1>2, <3>1, SessionNumbers
  <2>5. box'.session >= watch.session BY ONLY <2>2, <2>3, <2>4
  <2>6. ASSUME box'.session = watch.session PROVE AllHeld'
    <3>1. box.session = watch.session /\ ~(box'.session > box.session) BY ONLY <2>2, <2>3, <2>4, <2>6
    <3>2. AllHeld /\ ~Noticed BY <2>1, <2>2, <3>1 DEF Noticed
    <3>3. ka.pc \notin PastResend BY <2>1 DEF LossInv, Watched, InRecovery
    <3>4. ~ResendToCome BY <2>1, <3>1, <3>3 DEF ResendToCome, Noticeable, Due
    <3> QED BY <3>2, <3>4
  <2> QED BY <2>5, <2>6
<1> QED BY <1>8, <1>9

LEMMA BoxKeepsLoss ==
  ASSUME LossInv, TypeOK', BoxStep
  PROVE  HeldIsMarked' /\ Watched' /\ OneAnswer' /\ BeforeHolds' /\ Resent' /\ Restored'
<1>1. TypeOK /\ HeldIsMarked BY DEF LossInv, GhostInv
<1>2. /\ Meanwhile /\ HeldIsMarked' /\ (Noticed \/ box.held = {} \/ box'.held = box.held)
      /\ (SlowClone /\ Resending /\ box'.up => box.up)
  BY <1>1, BoxDoes
<1>3. UNCHANGED <<watch, desired, ka>>
  BY DEF BoxStep, Boot, Release, Detach, ComeBack, GraceEnds, CloneUp, PlayOut
<1>4. ReadingsKept BY <1>3 DEF ReadingsKept
<1>5. Noticed \/ (AllHeld => AllHeld') BY <1>2, <1>3 DEF AllHeld, HeldBut
<1>6. HeldBut(ka.todo) => Noticed \/ HeldBut(ka.todo)' BY <1>2, <1>3 DEF HeldBut
<1> QED BY <1>2, <1>3, <1>4, <1>5, <1>6, MeanwhileReadings, MeanwhileResent

LEMMA UserKeepsLoss ==
  ASSUME LossInv, TypeOK', ~BlindSets, UserStep
  PROVE  HeldIsMarked' /\ Watched' /\ OneAnswer' /\ BeforeHolds' /\ Resent' /\ Restored'
<1>1. TypeOK /\ OnlyTheDesired /\ HeldIsMarked BY DEF LossInv, GhostInv
<1>2. /\ Meanwhile /\ HeldIsMarked' /\ box'.up = box.up
      /\ Noticed \/ (AllHeld => AllHeld') \/ (~box.up /\ ResendToCome)
      /\ lock = "keepalive" => UNCHANGED <<box, desired>>
  BY <1>1, UserDoes
<1>3. UNCHANGED <<watch, ka>>
  BY DEF UserStep, SetKey, UnsetKey, ResetAll, ClipSend, ClipLoaded
<1>4. ReadingsKept BY <1>3 DEF ReadingsKept
<1>5. ka.pc = "resend" => UNCHANGED <<box, desired>> BY <1>1, <1>2 DEF OnlyTheDesired
<1>6. ka.pc = "resend" /\ box.up /\ HeldBut(ka.todo) => Noticed \/ HeldBut(ka.todo)'
  BY <1>3, <1>5 DEF HeldBut
<1> QED BY <1>2, <1>3, <1>4, <1>6, MeanwhileReadings, MeanwhileResent

LEMMA FrameKeepsLoss ==
  ASSUME LossInv, TypeOK', ka.pc \in {"tickSend", "resend"}, ka.todo # {},
         NEW pc \in {"top", "caps2"}, SendNext(pc), UNCHANGED <<watch, desired>>
  PROVE  HeldIsMarked' /\ Watched' /\ OneAnswer' /\ BeforeHolds' /\ Resent' /\ Restored'
<1>1. TypeOK /\ OnlyTheDesired /\ HeldIsMarked BY DEF LossInv, GhostInv
<1>2. /\ Meanwhile /\ HeldIsMarked' /\ box'.up = box.up /\ box.held \subseteq box'.held
      /\ \E k \in ka.todo : /\ ka' = [ka EXCEPT !.todo = @ \ {k}]
                            /\ box.up => k \in box'.held
  BY <1>1, SendDoes
<1> PICK k \in ka.todo : ka' = [ka EXCEPT !.todo = @ \ {k}] /\ (box.up => k \in box'.held)
  BY <1>2
<1>3. ReadingsKept /\ ka'.todo = ka.todo \ {k} BY <1>1 DEF TypeOK, Keepalive, ReadingsKept
<1>4. AllHeld => AllHeld' BY <1>2 DEF AllHeld, HeldBut
<1>5. box.up /\ HeldBut(ka.todo) => HeldBut(ka.todo)' BY <1>2, <1>3 DEF HeldBut
<1> QED BY <1>2, <1>3, <1>4, <1>5, MeanwhileReadings, MeanwhileResent

-----------------------------------------------------------------------------
(* The reader and the queries.                                              *)

\* A hello that is heard is noted: the recovery it belongs to goes on, or one is owed.
LEMMA HearNotes ==
  ASSUME LossInv, TypeOK', Hear
  PROVE  /\ Watched' /\ (Due => Due') /\ (ka.pc \in SeenKnown => (Again => Again'))
         /\ \A i \in DOMAIN heard' : i + 1 \in DOMAIN heard /\ heard'[i] = heard[i + 1]
         /\ UNCHANGED <<box, desired>> /\ watch'.session = watch.session
         /\ ka'.pc = ka.pc /\ ka'.cause = ka.cause /\ ka'.seen = ka.seen
         /\ ka'.before = ka.before /\ ka'.up = ka.up /\ ka'.todo = ka.todo
<1> DEFINE h == Head(heard)
<1>1. TypeOK BY DEF LossInv, GhostInv
<1>2. heard \in Seq(Heard) /\ heard # <<>> /\ heard' = Tail(heard) BY <1>1 DEF Hear, TypeOK
<1>3. h = heard[1] /\ 1 \in DOMAIN heard BY <1>2
<1>4. \A i \in DOMAIN heard' : i + 1 \in DOMAIN heard /\ heard'[i] = heard[i + 1] BY <1>2
<1>5. /\ UNCHANGED <<box, desired>>
      /\ ka'.pc = ka.pc /\ ka'.cause = ka.cause /\ ka'.seen = ka.seen
      /\ ka'.before = ka.before /\ ka'.up = ka.up /\ ka'.todo = ka.todo
  BY <1>1 DEF Hear, TypeOK, Keepalive
<1>6. HelloToCome => HelloToCome' \/ h.t = "hello"
  <2>1. ASSUME NEW i \in DOMAIN heard, heard[i].t = "hello", i # 1 PROVE HelloToCome'
    <3>1. i - 1 \in DOMAIN heard' /\ heard'[i - 1] = heard[i] BY <1>2, <2>1
    <3> QED BY <2>1, <3>1 DEF HelloToCome
  <2> QED BY <1>3, <1>5, <2>1 DEF HelloToCome
<1>7. CASE h.t = "hello"
  <2>1. watch' = Noted(watch) /\ ka' = ka BY <1>7 DEF Hear
  <2>2. watch.hellos \in Nat /\ ka.seen \in Nat BY <1>1, SessionNumbers
  <2>3. CASE watch.recovering
    <3>1. /\ watch'.armed = watch.armed /\ watch'.recovering /\ watch'.owed = watch.owed
          /\ watch'.session = watch.session /\ watch'.hellos = watch.hellos + 1
      BY <1>1, <2>1, <2>3 DEF Noted, TypeOK, Watch
    <3>2. Due' BY <2>1, <2>3, <3>1 DEF LossInv, Watched, Due
    <3>3. ka.pc \in SeenKnown => watch'.hellos > ka'.seen
      <4>1. ka.pc \in SeenKnown => ka.seen <= watch.hellos BY DEF LossInv, Watched
      <4>2. ka.seen <= watch.hellos => watch.hellos + 1 > ka.seen BY ONLY <2>2
      <4> QED BY <2>1, <3>1, <4>1, <4>2
    <3>4. ka.seen <= watch.hellos => ka.seen <= watch.hellos + 1 BY ONLY <2>2
    <3>5. Watched' BY <2>1, <2>3, <3>1, <3>4 DEF LossInv, Watched
    <3> QED BY <1>4, <1>5, <3>1, <3>2, <3>3, <3>5 DEF Again
  <2>4. CASE ~watch.recovering
    <3>1. watch.armed BY <2>4 DEF LossInv, Watched
    <3>2. /\ watch'.recovering /\ watch'.owed
          /\ watch'.session = watch.session /\ watch'.hellos = watch.hellos + 1
      BY <1>1, <2>1, <2>4, <3>1 DEF Noted, TypeOK, Watch
    <3>3. ka.cause = "none" /\ ka.pc \notin InRecovery BY <2>4 DEF LossInv, Watched
    <3>4. ka.pc \notin SeenKnown BY <3>3 DEF SeenKnown, InRecovery
    <3>5. Watched' BY <2>1, <3>2, <3>3, <3>4 DEF Watched
    <3> QED BY <1>4, <1>5, <3>2, <3>4, <3>5 DEF Due
  <2> QED BY <2>3, <2>4
<1>8. CASE h.t # "hello"
  <2>1. watch' = [watch EXCEPT !.armed = TRUE] BY <1>8 DEF Hear
  <2>2. /\ watch'.armed /\ watch'.recovering = watch.recovering /\ watch'.owed = watch.owed
        /\ watch'.session = watch.session /\ watch'.hellos = watch.hellos
    BY <1>1, <2>1 DEF TypeOK, Watch
  <2>3. HelloToCome => HelloToCome' BY <1>6, <1>8
  <2>4. Watched' BY <1>5, <2>2 DEF LossInv, Watched
  <2> QED BY <1>4, <1>5, <2>2, <2>3, <2>4 DEF Due, Again
<1> QED BY <1>7, <1>8

LEMMA HearKeepsLoss ==
  ASSUME LossInv, TypeOK', Hear
  PROVE  HeldIsMarked' /\ Watched' /\ OneAnswer' /\ BeforeHolds' /\ Resent' /\ Restored'
<1> DEFINE h == Head(heard)
<1>0. /\ Watched' /\ (Due => Due') /\ (ka.pc \in SeenKnown => (Again => Again'))
      /\ \A i \in DOMAIN heard' : i + 1 \in DOMAIN heard /\ heard'[i] = heard[i + 1]
      /\ UNCHANGED <<box, desired>> /\ watch'.session = watch.session
      /\ ka'.pc = ka.pc /\ ka'.cause = ka.cause /\ ka'.seen = ka.seen
      /\ ka'.before = ka.before /\ ka'.up = ka.up /\ ka'.todo = ka.todo
  BY HearNotes
<1>1. heard \in Seq(Heard) /\ heard # <<>> /\ h = heard[1] /\ 1 \in DOMAIN heard
  BY DEF Hear, LossInv, GhostInv, TypeOK
<1>2. \/ ka'.wait = ka.wait /\ ka'.got = ka.got /\ (h.live => h.t = "hello")
      \/ h.live /\ ka'.wait = "got" /\ ka'.got = heard[1]
  BY <1>1 DEF Hear, LossInv, GhostInv, TypeOK, Keepalive
<1>3. \A i \in DOMAIN heard' : i \in Nat \ {0} BY <1>1 DEF Hear
<1>4. ASSUME NEW i \in DOMAIN heard', heard'[i].live
      PROVE  /\ i + 1 \in DOMAIN heard /\ heard[i + 1].live /\ heard'[i] = heard[i + 1]
             /\ ka.wait = "asked" /\ ~h.live
  <2>1. i + 1 \in DOMAIN heard /\ heard[i + 1].live /\ heard'[i] = heard[i + 1] BY <1>0, <1>4
  <2>2. i + 1 # 1 BY <1>3
  <2> QED BY <1>1, <2>1, <2>2 DEF LossInv, OneAnswer
<1>5. OneAnswer'
  <2>1. ka'.pc \notin DOMAIN Asks => ka'.wait = "unasked"
    BY <1>0, <1>1, <1>2 DEF LossInv, OneAnswer
  <2>2. \A i \in DOMAIN heard' : heard'[i].live => ka'.wait = "asked" BY <1>2, <1>4
  <2>3. ASSUME NEW i \in DOMAIN heard', NEW j \in DOMAIN heard', heard'[i].live, heard'[j].live
        PROVE  i = j
    <3>1. i + 1 = j + 1 BY <1>4, <2>3 DEF LossInv, OneAnswer
    <3> QED BY <1>3, <3>1
  <2> QED BY <2>1, <2>2, <2>3 DEF OneAnswer
<1>6. BeforeHolds'
  <2>1. ka.pc = "stats" \/ ka.pc \in BeforeKnown => (Again => Again')
    BY <1>0 DEF SeenKnown, BeforeKnown
  <2>2. ka'.pc = "stats" /\ ka'.wait = "got" => Again' \/ ka'.got.session <= box'.session
    BY <1>0, <1>1, <1>2, <2>1 DEF LossInv, BeforeHolds
  <2>3. ka'.pc = "stats" =>
          \A i \in DOMAIN heard' : heard'[i].live => Again' \/ heard'[i].session <= box'.session
    BY <1>0, <2>1 DEF LossInv, BeforeHolds
  <2> QED BY <1>0, <2>1, <2>2, <2>3 DEF LossInv, BeforeHolds
<1>7. Resent'
  <2>1. ka.pc \in BeforeKnown => (Disturbed => Disturbed')
    BY <1>0 DEF Disturbed, SeenKnown, BeforeKnown
  <2>2. AllHeld' <=> AllHeld BY <1>0 DEF AllHeld, HeldBut
  <2>3. ka'.pc = "resend" => Disturbed' \/ ~box'.up \/ HeldBut(ka.todo)'
    BY <1>0, <2>1 DEF LossInv, Resent, HeldBut, BeforeKnown
  <2>4. ka'.pc = "caps2" =>
          \/ Disturbed' \/ AllHeld'
          \/ /\ ~box'.up
             /\ ~(ka'.wait = "got" /\ ka'.got.up)
             /\ \A i \in DOMAIN heard' : ~(heard'[i].live /\ heard'[i].up)
    <3> SUFFICES ASSUME ka.pc = "caps2", ~Disturbed, ~AllHeld
                 PROVE  /\ ~box.up
                        /\ ~(ka'.wait = "got" /\ ka'.got.up)
                        /\ \A i \in DOMAIN heard' : ~(heard'[i].live /\ heard'[i].up)
      BY <1>0, <2>1, <2>2 DEF BeforeKnown, PastResend
    <3>1. /\ ~box.up /\ ~(ka.wait = "got" /\ ka.got.up)
          /\ \A i \in DOMAIN heard : ~(heard[i].live /\ heard[i].up)
      BY DEF LossInv, Resent
    <3> QED BY <1>0, <1>1, <1>2, <3>1
  <2>5. ka'.pc \in {"reseen", "clip"} => Disturbed' \/ AllHeld' \/ ~ka'.up
    BY <1>0, <2>1, <2>2 DEF LossInv, Resent, BeforeKnown, PastResend
  <2>6. ka'.pc \in {"stats2", "noteRing", "noteSession", "count", "finish"} => Disturbed' \/ AllHeld'
    BY <1>0, <2>1, <2>2 DEF LossInv, Resent, BeforeKnown, PastResend
  <2> QED BY <2>3, <2>4, <2>5, <2>6 DEF Resent
<1>8. Restored' BY <1>0 DEF LossInv, Restored, AllHeld, HeldBut
<1>9. HeldIsMarked' BY <1>0 DEF LossInv, HeldIsMarked
<1> QED BY <1>0, <1>5, <1>6, <1>7, <1>8, <1>9

LEMMA AskKeepsLoss ==
  ASSUME LossInv, TypeOK', Ask
  PROVE  HeldIsMarked' /\ Watched' /\ OneAnswer' /\ BeforeHolds' /\ Resent' /\ Restored'
<1> DEFINE a == AnswerOf(Asks[ka.pc], box)
           s == heard \o Greeting(box)
<1>1. TypeOK /\ heard \in Seq(Heard) /\ box \in Box /\ ka \in Keepalive BY DEF LossInv, GhostInv, TypeOK
<1>2. /\ ka.pc \in DOMAIN Asks /\ ka.wait = "unasked" /\ heard' = heard \o Greeting(box) \o <<a>>
      /\ UNCHANGED <<watch, desired>>
  BY DEF Ask
<1>3. /\ ka'.wait = "asked" /\ ka'.pc = ka.pc /\ ka'.cause = ka.cause /\ ka'.seen = ka.seen
      /\ ka'.before = ka.before /\ ka'.up = ka.up /\ ka'.todo = ka.todo /\ ka'.got = ka.got
  BY <1>1 DEF Ask, Keepalive
<1>4. /\ box'.held = box.held /\ box'.dirty = box.dirty /\ box'.session = box.session
      /\ box'.up = box.up /\ box'.pcSeen
  BY <1>1 DEF Ask, Box
<1>5. a \in Heard /\ s \in Seq(Heard)
  <2>1. Asks[ka.pc] \in {"caps", "stats", "clip"} BY <1>2 DEF Asks
  <2> QED BY <1>1, <2>1, SaidTypes
<1>6. /\ Len(heard') = Len(s) + 1 /\ heard'[Len(s) + 1] = a
      /\ \A i \in DOMAIN s : i \in DOMAIN heard' /\ heard'[i] = s[i]
      /\ \A i \in DOMAIN heard' : i \in DOMAIN s \/ i = Len(s) + 1
  <2>1. heard' = Append(s, a) BY <1>1, <1>2, <1>5
  <2> QED BY <1>5, <2>1
<1>7. \A i \in DOMAIN heard : ~heard[i].live BY <1>2 DEF LossInv, OneAnswer
<1>8. \A i \in DOMAIN s : ~s[i].live /\ (i \in DOMAIN heard => s[i] = heard[i])
  <2>1. CASE box.pcSeen
    <3>1. s = heard BY <1>1, <2>1 DEF Greeting
    <3> QED BY <1>7, <3>1
  <2>2. CASE ~box.pcSeen
    <3>1. s = Append(heard, Hello) BY <1>1, <2>2 DEF Greeting
    <3>2. ~Hello.live BY DEF Hello
    <3> QED BY <1>1, <1>7, <3>1, <3>2
  <2> QED BY <2>1, <2>2
<1>9. HelloToCome => HelloToCome'
  <2>1. CASE ~box.pcSeen
    <3>1. s = Append(heard, Hello) BY <1>1, <2>1 DEF Greeting
    <3>2. Len(heard) + 1 \in DOMAIN s /\ s[Len(heard) + 1].t = "hello" BY <1>1, <1>5, <3>1 DEF Hello
    <3> QED BY <1>6, <3>2 DEF HelloToCome
  <2>2. ASSUME NEW i \in DOMAIN heard, heard[i].t = "hello" PROVE HelloToCome'
    <3>1. i \in DOMAIN s
      <4>1. CASE box.pcSeen BY <1>1, <4>1 DEF Greeting
      <4>2. CASE ~box.pcSeen BY <1>1, <4>2 DEF Greeting
      <4> QED BY <4>1, <4>2
    <3> QED BY <1>6, <1>8, <2>2, <3>1 DEF HelloToCome
  <2> QED BY <2>1, <2>2 DEF HelloToCome
<1>10. \A i \in DOMAIN heard' : heard'[i].live => i = Len(s) + 1 /\ heard'[i] = a
  BY <1>6, <1>8
<1> HIDE DEF a, s
<1>11. Watched' BY <1>2, <1>3 DEF LossInv, Watched
<1>12. OneAnswer' BY <1>2, <1>3, <1>10 DEF OneAnswer
<1>13. Again => Again' BY <1>2, <1>3, <1>9 DEF Again
<1>14. BeforeHolds'
  <2>1. ka'.pc = "stats" => \A i \in DOMAIN heard' : heard'[i].live => heard'[i].session <= box'.session
    <3> SUFFICES ASSUME ka.pc = "stats" PROVE a.session <= box.session BY <1>3, <1>4, <1>10
    <3>1. a.session = box.session BY DEF a, AnswerOf, Asks
    <3>2. box.session \in Nat BY <1>1, SessionNumbers
    <3> QED BY <3>1, <3>2
  <2> QED BY <1>2, <1>3, <1>4, <1>13, <2>1 DEF LossInv, BeforeHolds
<1>15. Resent'
  <2>1. Disturbed => Disturbed' BY <1>3, <1>4, <1>13 DEF Disturbed
  <2>2. AllHeld => AllHeld' BY <1>2, <1>4 DEF AllHeld, HeldBut
  <2>3. ka'.pc = "caps2" =>
          \/ Disturbed' \/ AllHeld'
          \/ /\ ~box'.up
             /\ ~(ka'.wait = "got" /\ ka'.got.up)
             /\ \A i \in DOMAIN heard' : ~(heard'[i].live /\ heard'[i].up)
    <3> SUFFICES ASSUME ka.pc = "caps2", ~box.up PROVE ~a.up
      BY <1>3, <1>4, <1>10, <2>1, <2>2 DEF LossInv, Resent
    <3> QED BY DEF a, AnswerOf
  <2>4. ka'.pc = "resend" => Disturbed' \/ ~box'.up \/ HeldBut(ka.todo)'
    BY <1>2, <1>3, <1>4, <2>1 DEF LossInv, Resent, HeldBut
  <2> QED BY <1>3, <2>1, <2>2, <2>3, <2>4 DEF LossInv, Resent
<1>16. Restored' BY <1>2, <1>3, <1>4, <1>9 DEF LossInv, Restored, Due, AllHeld, HeldBut
<1>17. HeldIsMarked' BY <1>4 DEF LossInv, HeldIsMarked
<1> QED BY <1>11, <1>12, <1>14, <1>15, <1>16, <1>17

LEMMA TimeOutKeepsLoss ==
  ASSUME LossInv, TypeOK', TimeOut
  PROVE  HeldIsMarked' /\ Watched' /\ OneAnswer' /\ BeforeHolds' /\ Resent' /\ Restored'
<1>1. TypeOK /\ heard \in Seq(Heard) /\ ka \in Keepalive BY DEF LossInv, GhostInv, TypeOK
<1>2. /\ ka.wait = "asked" /\ heard' = [i \in DOMAIN heard |-> [heard[i] EXCEPT !.live = FALSE]]
      /\ UNCHANGED <<box, watch, desired>>
  BY DEF TimeOut
<1>3. /\ ka'.wait = "silent" /\ ka'.pc = ka.pc /\ ka'.cause = ka.cause /\ ka'.seen = ka.seen
      /\ ka'.before = ka.before /\ ka'.up = ka.up /\ ka'.todo = ka.todo
  BY <1>1 DEF TimeOut, Keepalive
<1>4. DOMAIN heard' = DOMAIN heard /\ \A i \in DOMAIN heard : heard'[i].t = heard[i].t /\ ~heard'[i].live
  <2>1. \A i \in DOMAIN heard : heard[i] \in Heard BY <1>1
  <2> QED BY <1>2, <2>1 DEF Heard
<1>5. HelloToCome' <=> HelloToCome BY <1>2, <1>4 DEF HelloToCome
<1>6. Watched' BY <1>2, <1>3 DEF LossInv, Watched
<1>7. OneAnswer' BY <1>2, <1>3, <1>4 DEF LossInv, OneAnswer
<1>8. (Again' <=> Again) /\ (Disturbed' <=> Disturbed) /\ (AllHeld' <=> AllHeld)
  BY <1>2, <1>3, <1>5 DEF Again, Disturbed, AllHeld, HeldBut
<1>9. BeforeHolds' BY <1>2, <1>3, <1>4, <1>8 DEF LossInv, BeforeHolds
<1>10. Resent' BY <1>2, <1>3, <1>4, <1>8 DEF LossInv, Resent, HeldBut
<1>11. Restored' BY <1>2, <1>3, <1>5, <1>8 DEF LossInv, Restored, Due
<1>12. HeldIsMarked' BY <1>2 DEF LossInv, HeldIsMarked
<1> QED BY <1>6, <1>7, <1>9, <1>10, <1>11, <1>12

-----------------------------------------------------------------------------
(* The keepalive's own steps.                                               *)

LEMMA ToFields ==
  ASSUME ka \in Keepalive
  PROVE  /\ \A pc \in Pcs : /\ To(pc) \in Keepalive /\ To(pc).pc = pc /\ To(pc).wait = "unasked"
                            /\ To(pc).cause = ka.cause
         /\ \A pc \in Pcs \ {"top"} :
              /\ To(pc).seen = ka.seen /\ To(pc).before = ka.before /\ To(pc).up = ka.up
              /\ To(pc).todo = ka.todo
<1>1. ASSUME NEW pc \in Pcs PROVE To(pc) \in Keepalive /\ To(pc).pc = pc /\ To(pc).wait = "unasked"
  BY <1>1, ToType
<1>2. To("top").cause = ka.cause BY DEF To, Rest, Keepalive
<1>3. ASSUME NEW pc \in Pcs \ {"top"}
      PROVE  /\ To(pc).cause = ka.cause /\ To(pc).seen = ka.seen /\ To(pc).before = ka.before
             /\ To(pc).up = ka.up /\ To(pc).todo = ka.todo
  BY <1>3 DEF To, Keepalive
<1> QED BY <1>1, <1>2, <1>3

NothingSent == UNCHANGED <<box, heard, desired>>
FlagsKept ==
  /\ watch'.armed = watch.armed /\ watch'.recovering = watch.recovering
  /\ watch'.owed = watch.owed /\ watch'.hellos = watch.hellos
Moves(p, q) == ka.pc = p /\ ka'.pc = q /\ ka'.wait = "unasked" /\ ka'.cause = ka.cause

\* The loop outside a recovery: its top, a step on, the beginning of a recovery.
TopDoes ==
  /\ ka.pc = "top" /\ ka'.pc \in {"caps", "idle"} /\ ka'.wait = ka.wait
  /\ ka'.cause = (IF watch.owed THEN "Restart" ELSE ka.cause)
  /\ ka'.pc = "caps" => ka'.cause # "none"
  /\ watch'.armed = watch.armed /\ watch'.recovering = (watch.recovering \/ watch.owed)
  /\ ~watch'.owed /\ watch'.hellos = watch.hellos /\ watch'.session = watch.session
LoopOn ==
  /\ ka.pc \notin InRecovery \cup {"top", "begin"} /\ ka'.pc \notin InRecovery
  /\ ka'.wait = "unasked" /\ ka'.cause = ka.cause
  /\ FlagsKept /\ (watch'.session = watch.session \/ ka'.pc = "begin")
BeginDoes ==
  /\ ka.pc = "begin" /\ ka'.pc = "top" /\ ka'.wait = "unasked" /\ ka'.cause = "Released"
  /\ watch'.armed = watch.armed /\ watch'.recovering /\ watch'.owed = watch.owed

\* A frame of a tick's re-send aside.
LEMMA LoopDoes ==
  ASSUME TypeOK, OneAnswer, LoopStep, ka.pc = "tickSend" => ka.todo = {}
  PROVE  NothingSent /\ ka.wait # "asked" /\ (TopDoes \/ LoopOn \/ BeginDoes)
<1> USE DEF NothingSent
<1>1. ka \in Keepalive /\ watch \in Watch BY DEF TypeOK
<1>2. /\ \A pc \in Pcs : /\ To(pc) \in Keepalive /\ To(pc).pc = pc /\ To(pc).wait = "unasked"
                         /\ To(pc).cause = ka.cause
  BY <1>1, ToFields
<1>3. ka.pc \notin DOMAIN Asks => ka.wait # "asked" BY DEF OneAnswer
<1>4. CASE Top
  <2> PICK pc \in {"caps", "idle"} :
        /\ pc = "caps" => (IF watch.owed THEN "Restart" ELSE ka.cause) # "none"
        /\ ka' = [ka EXCEPT !.pc = pc, !.cause = IF watch.owed THEN "Restart" ELSE ka.cause]
    BY <1>4 DEF Top
  <2>1. /\ ka.pc = "top" /\ ka'.pc = pc /\ ka'.wait = ka.wait
        /\ ka'.cause = IF watch.owed THEN "Restart" ELSE ka.cause
    BY <1>1, <1>4 DEF Top, At, Keepalive
  <2>2. /\ watch'.armed = watch.armed /\ watch'.recovering = (watch.recovering \/ watch.owed)
        /\ ~watch'.owed /\ watch'.hellos = watch.hellos /\ watch'.session = watch.session
    BY <1>1, <1>4 DEF Top, Watch
  <2>3. UNCHANGED <<box, heard, desired>> BY <1>4 DEF Top
  <2>4. ka.wait # "asked" BY <1>3, <2>1 DEF Asks
  <2> QED BY <2>1, <2>2, <2>3, <2>4 DEF TopDoes
<1>5. CASE BeginRelease
  <2>1. To("top") \in Keepalive /\ To("top").pc = "top" /\ To("top").wait = "unasked"
    BY <1>2 DEF Pcs
  <2>2. ka.pc = "begin" /\ ka'.pc = "top" /\ ka'.wait = "unasked" /\ ka'.cause = "Released"
    BY <1>5, <2>1 DEF BeginRelease, At, Keepalive
  <2>3. watch'.armed = watch.armed /\ watch'.recovering /\ watch'.owed = watch.owed
    BY <1>1, <1>5 DEF BeginRelease, Watch
  <2>4. ka.wait # "asked" BY <1>3, <2>2 DEF Asks
  <2> QED BY <1>5, <2>2, <2>3, <2>4 DEF BeginRelease, BeginDoes
<1> DEFINE On == {"top", "sess", "begin", "ringSeen", "ringClip", "ringStats", "ringNote", "tickLock",
                  "tickSend"}
           Off == {"idle", "sess", "ringSeen", "ringClip", "ringStats", "ringNote", "tickLock",
                   "tickSend"}
<1>6. ASSUME ka.pc \in Off, ka'.pc \in On, ka'.wait = "unasked", ka'.cause = ka.cause, NothingSent,
             ka.wait # "asked", watch' = watch
      PROVE  NothingSent /\ ka.wait # "asked" /\ LoopOn
  BY <1>6 DEF LoopOn, FlagsKept, InRecovery, PastResend
<1>7. \A pc \in On : pc \in Pcs BY DEF Pcs, Asks
<1>8. CASE LookAround
  <2> PICK pc \in {"top", "sess", "ringSeen"}, tick \in BOOLEAN : ka' = [To(pc) EXCEPT !.tick = tick]
    BY <1>8 DEF LookAround
  <2>1. To(pc) \in Keepalive /\ To(pc).pc = pc /\ To(pc).wait = "unasked" /\ To(pc).cause = ka.cause
    BY <1>2, <1>7
  <2>2. ka'.pc = pc /\ ka'.wait = "unasked" /\ ka'.cause = ka.cause BY <2>1 DEF Keepalive
  <2>3. ka.pc = "idle" /\ NothingSent /\ watch' = watch BY <1>8 DEF LookAround, At, KeepaliveOnly
  <2>4. ka.wait # "asked" BY <1>3, <2>3 DEF Asks
  <2> QED BY <1>6, <2>2, <2>3, <2>4
<1>9. CASE SessionRead
  <2>1. ka.pc = "sess" /\ ka.wait # "asked" /\ NothingSent BY <1>9 DEF SessionRead, Back
  <2> PICK pc \in {"begin", "ringSeen", "top"} :
        /\ ka' = To(pc)
        /\ Answered /\ ka.got.session # watch.session => pc = "begin"
    BY <1>9 DEF SessionRead
  <2>2. ka'.pc = pc /\ ka'.wait = "unasked" /\ ka'.cause = ka.cause BY <1>2, <1>7
  <2>3. FlagsKept BY <1>1, <1>9 DEF SessionRead, FlagsKept, Watch
  <2>4. watch'.session = watch.session \/ pc = "begin"
    <3>1. CASE Answered /\ ka.got.session # watch.session BY <3>1
    <3>2. CASE ~Answered BY <1>9, <3>2 DEF SessionRead
    <3>3. CASE Answered /\ ka.got.session = watch.session BY <1>1, <1>9, <3>3 DEF SessionRead, Watch
    <3> QED BY <3>1, <3>2, <3>3
  <2> QED BY <2>1, <2>2, <2>3, <2>4 DEF LoopOn, InRecovery, PastResend
<1>10. CASE RingSeen
  <2>1. /\ To("ringClip") \in Keepalive /\ To("ringClip").pc = "ringClip"
        /\ To("ringClip").wait = "unasked" /\ To("ringClip").cause = ka.cause
        /\ To("tickLock").pc = "tickLock" /\ To("tickLock").wait = "unasked"
        /\ To("tickLock").cause = ka.cause
    BY <1>2, <1>7
  <2>2. ka'.pc \in {"ringClip", "tickLock"} /\ ka'.wait = "unasked" /\ ka'.cause = ka.cause
    BY <1>10, <2>1 DEF RingSeen, Keepalive
  <2>3. ka.pc = "ringSeen" /\ NothingSent /\ watch' = watch BY <1>10 DEF RingSeen, At, KeepaliveOnly
  <2>4. ka.wait # "asked" BY <1>3, <2>3 DEF Asks
  <2> QED BY <1>6, <2>2, <2>3, <2>4
<1>11. CASE RingRead
  <2>1. /\ To("ringStats") \in Keepalive /\ To("ringStats").pc = "ringStats"
        /\ To("ringStats").wait = "unasked" /\ To("ringStats").cause = ka.cause
        /\ To("tickLock").pc = "tickLock" /\ To("tickLock").wait = "unasked"
        /\ To("tickLock").cause = ka.cause
    BY <1>2, <1>7
  <2>2. ka'.pc \in {"ringStats", "tickLock"} /\ ka'.wait = "unasked" /\ ka'.cause = ka.cause
    BY <1>11, <2>1 DEF RingRead, Keepalive
  <2>3. ka.pc = "ringClip" /\ ka.wait # "asked" /\ NothingSent /\ watch' = watch
    BY <1>11 DEF RingRead, Back, KeepaliveOnly
  <2> QED BY <1>6, <2>2, <2>3
<1>12. CASE RingChecked
  <2>1. ka.pc = "ringStats" /\ ka.wait # "asked" /\ NothingSent /\ watch' = watch
    BY <1>12 DEF RingChecked, Back, KeepaliveOnly
  <2> PICK pc \in {"ringNote", "tickLock"} : ka' = To(pc) BY <1>12 DEF RingChecked
  <2>2. ka'.pc = pc /\ ka'.wait = "unasked" /\ ka'.cause = ka.cause BY <1>2, <1>7
  <2> QED BY <1>6, <2>1, <2>2
<1>13. CASE RingNote
  <2>1. /\ To("tickLock") \in Keepalive /\ To("tickLock").pc = "tickLock"
        /\ To("tickLock").wait = "unasked" /\ To("tickLock").cause = ka.cause
    BY <1>2, <1>7
  <2>2. ka'.pc = "tickLock" /\ ka'.wait = "unasked" /\ ka'.cause = ka.cause
    BY <1>13, <2>1 DEF RingNote, Keepalive
  <2>3. ka.pc = "ringNote" /\ NothingSent /\ watch' = watch BY <1>13 DEF RingNote, At
  <2>4. ka.wait # "asked" BY <1>3, <2>3 DEF Asks
  <2> QED BY <1>6, <2>2, <2>3, <2>4
<1>14. CASE TickLock
  <2>1. /\ To("tickSend") \in Keepalive /\ To("tickSend").pc = "tickSend"
        /\ To("tickSend").wait = "unasked" /\ To("tickSend").cause = ka.cause
    BY <1>2, <1>7
  <2>2. ka'.pc = "tickSend" /\ ka'.wait = "unasked" /\ ka'.cause = ka.cause
    BY <1>14, <2>1 DEF TickLock, Keepalive
  <2>3. ka.pc = "tickLock" /\ NothingSent /\ watch' = watch BY <1>14 DEF TickLock, At
  <2>4. ka.wait # "asked" BY <1>3, <2>3 DEF Asks
  <2> QED BY <1>6, <2>2, <2>3, <2>4
<1>15. CASE TickSend
  <2>1. ka.pc = "tickSend" /\ watch' = watch /\ desired' = desired BY <1>15 DEF TickSend, At
  <2>2. ka' = To("top") /\ UNCHANGED <<box, heard>> BY <1>15, <2>1 DEF TickSend, SendNext
  <2>3. ka'.pc = "top" /\ ka'.wait = "unasked" /\ ka'.cause = ka.cause BY <1>2, <1>7, <2>2
  <2>4. ka.wait # "asked" BY <1>3, <2>1 DEF Asks
  <2> QED BY <1>6, <2>1, <2>2, <2>3, <2>4
<1> QED
  BY <1>4, <1>5, <1>8, <1>9, <1>10, <1>11, <1>12, <1>13, <1>14, <1>15 DEF LoopStep

LEMMA LoopKeepsLoss ==
  ASSUME LossInv, NothingSent, ka.wait # "asked", TopDoes \/ LoopOn \/ BeginDoes
  PROVE  HeldIsMarked' /\ Watched' /\ OneAnswer' /\ BeforeHolds' /\ Resent' /\ Restored'
<1>1. \A i \in DOMAIN heard' : ~heard'[i].live BY DEF LossInv, OneAnswer, NothingSent
<1>2. HeldIsMarked' BY DEF LossInv, HeldIsMarked, NothingSent
<1>3. HelloToCome' <=> HelloToCome BY DEF HelloToCome, NothingSent
<1>4. ASSUME ka'.pc \notin InRecovery \ {"caps"}
      PROVE  BeforeHolds' /\ Resent'
  BY <1>4 DEF BeforeHolds, Resent, BeforeKnown, InRecovery, PastResend
<1>5. CASE TopDoes
  <2>1. ka.wait = "unasked" /\ ka'.wait = "unasked" BY <1>5 DEF TopDoes, LossInv, OneAnswer, Asks
  <2>2. ka'.pc \notin InRecovery \ {"caps"} /\ ka'.pc \notin SeenKnown
    BY <1>5 DEF TopDoes, InRecovery, SeenKnown, PastResend
  <2>3. Watched' BY <1>5, <2>1, <2>2 DEF TopDoes, LossInv, Watched
  <2>4. OneAnswer' BY <1>1, <2>1 DEF OneAnswer
  <2>5. Due => Due' BY <1>3, <1>5 DEF TopDoes, Due
  <2>6. Restored' BY <1>5, <2>5 DEF TopDoes, LossInv, Restored, AllHeld, HeldBut, NothingSent
  <2> QED BY <1>2, <1>4, <2>2, <2>3, <2>4, <2>6
<1>6. CASE LoopOn
  <2>1. ka'.pc \notin SeenKnown BY <1>6 DEF LoopOn, InRecovery, SeenKnown, PastResend
  <2>2. Watched' BY <1>6, <2>1 DEF LoopOn, FlagsKept, LossInv, Watched
  <2>3. OneAnswer' BY <1>1, <1>6 DEF LoopOn, OneAnswer
  <2>4. Due => Due' BY <1>3, <1>6 DEF LoopOn, FlagsKept, Due
  <2>5. Restored' BY <1>6, <2>4 DEF LoopOn, LossInv, Restored, Due, AllHeld, HeldBut, NothingSent
  <2> QED BY <1>2, <1>4, <1>6, <2>2, <2>3, <2>5 DEF LoopOn
<1>7. CASE BeginDoes
  <2>1. ka'.pc \notin SeenKnown /\ ka'.pc \notin InRecovery
    BY <1>7 DEF BeginDoes, InRecovery, SeenKnown, PastResend
  <2>2. Watched' BY <1>7, <2>1 DEF BeginDoes, LossInv, Watched
  <2>3. OneAnswer' BY <1>1, <1>7 DEF BeginDoes, OneAnswer
  <2>4. Restored' BY <1>7 DEF BeginDoes, Restored, Due
  <2> QED BY <1>2, <1>4, <2>1, <2>2, <2>3, <2>4
<1> QED BY <1>5, <1>6, <1>7

-----------------------------------------------------------------------------
(* The recovery's steps: back to the top to wait, on to the next, its end.  *)

StepBack ==
  /\ ka.pc \in InRecovery /\ ka'.pc = "top" /\ ka'.wait = "unasked" /\ ka'.cause = ka.cause
  /\ FlagsKept /\ watch'.session = watch.session
ReadingOn ==
  \/ Moves("caps", "seen") /\ ka.wait = "got"
  \/ Moves("seen", "stats") /\ ka'.seen = watch.hellos
  \/ Moves("stats", "relock") /\ ka.wait = "got" /\ ka'.seen = ka.seen /\ ka'.before = ka.got.session
SendingOn ==
  /\ ka'.seen = ka.seen /\ ka'.before = ka.before
  /\ \/ Moves("relock", "resend") /\ ka'.todo = desired
     \/ Moves("resend", "caps2") /\ ka.todo = {}
     \/ Moves("caps2", "reseen") /\ (ka'.up => ka.wait = "got" /\ ka.got.up)
     \/ Moves("reseen", "clip") /\ ka'.up = ka.up
     \/ Moves("clip", "stats2") /\ ka.up
     \/ Moves("stats2", "noteRing")
     \/ Moves("noteRing", "noteSession")
     \/ Moves("noteSession", "count") /\ watch'.session = ka.before
     \/ Moves("count", "finish") /\ watch'.session = watch.session
Ends ==
  /\ ka.pc = "finish" /\ ka'.pc = "top" /\ ka'.wait = "unasked"
  /\ watch'.armed = watch.armed /\ watch'.owed = watch.owed
  /\ watch'.session = watch.session
  /\ \/ watch.hellos = ka.seen /\ ka'.cause = "none" /\ ~watch'.recovering
     \/ ka'.cause = "Restart" /\ watch'.recovering = watch.recovering

\* A frame of the re-send aside.
LEMMA RecoveryDoes ==
  ASSUME TypeOK, OneAnswer, RecoveryStep, ka.pc = "resend" => ka.todo = {} \/ ka'.pc # "resend"
  PROVE  /\ NothingSent /\ ka.wait # "asked"
         /\ StepBack \/ (FlagsKept /\ (ReadingOn \/ SendingOn)) \/ Ends
<1>1. ka \in Keepalive /\ watch \in Watch BY DEF TypeOK
<1>2. /\ \A pc \in Pcs : /\ To(pc) \in Keepalive /\ To(pc).pc = pc /\ To(pc).wait = "unasked"
                         /\ To(pc).cause = ka.cause
      /\ \A pc \in Pcs \ {"top"} :
           /\ To(pc).seen = ka.seen /\ To(pc).before = ka.before /\ To(pc).up = ka.up
           /\ To(pc).todo = ka.todo
  BY <1>1, ToFields
<1>3. ka.pc \notin DOMAIN Asks => ka.wait # "asked" BY DEF OneAnswer
<1>4. /\ To("top") \in Keepalive /\ To("top").pc = "top" /\ To("top").wait = "unasked"
      /\ To("top").cause = ka.cause
  BY <1>2 DEF Pcs
<1>5. \A pc \in {"caps", "seen", "stats", "relock", "resend"} \cup PastResend : pc \in Pcs \ {"top"}
  BY DEF Pcs, Asks, PastResend
<1>6. watch' = watch => FlagsKept /\ watch'.session = watch.session BY DEF FlagsKept
<1>7. CASE CloneChecked
  <2>1. ka.pc = "caps" /\ ka.wait # "asked" /\ NothingSent /\ watch' = watch
    BY <1>7 DEF CloneChecked, Back, KeepaliveOnly, NothingSent
  <2>2. \/ ka' = To("seen") /\ ka.wait = "got"
        \/ ka' = To("top")
    BY <1>7 DEF CloneChecked, Answered
  <2>3. To("seen").pc = "seen" /\ To("seen").wait = "unasked" /\ To("seen").cause = ka.cause
    BY <1>2, <1>5
  <2> QED BY <1>4, <1>6, <2>1, <2>2, <2>3 DEF StepBack, ReadingOn, Moves, InRecovery
<1>8. CASE HellosSeen
  <2>1. ka.pc = "seen" /\ NothingSent /\ watch' = watch
    BY <1>8 DEF HellosSeen, At, KeepaliveOnly, NothingSent
  <2>2. ka.wait # "asked" BY <1>3, <2>1 DEF Asks
  <2>3. /\ To("stats") \in Keepalive /\ To("stats").pc = "stats" /\ To("stats").wait = "unasked"
        /\ To("stats").cause = ka.cause
    BY <1>2, <1>5
  <2>4. /\ ka'.pc = "stats" /\ ka'.wait = "unasked" /\ ka'.cause = ka.cause
        /\ ka'.seen = watch.hellos
    BY <1>8, <2>3 DEF HellosSeen, Keepalive
  <2> QED BY <1>6, <2>1, <2>2, <2>4 DEF ReadingOn, Moves
<1>9. CASE BeforeRead
  <2>1. ka.pc = "stats" /\ ka.wait # "asked" /\ NothingSent /\ watch' = watch
    BY <1>9 DEF BeforeRead, Back, KeepaliveOnly, NothingSent
  <2>2. CASE Answered
    <3>1. /\ To("relock") \in Keepalive /\ To("relock").pc = "relock" /\ To("relock").wait = "unasked"
          /\ To("relock").cause = ka.cause /\ To("relock").seen = ka.seen
      BY <1>2, <1>5
    <3>2. ka' = [To("relock") EXCEPT !.before = ka.got.session] BY <1>9, <2>2 DEF BeforeRead
    <3>3. /\ ka'.pc = "relock" /\ ka'.wait = "unasked" /\ ka'.cause = ka.cause
          /\ ka'.seen = ka.seen /\ ka'.before = ka.got.session
      BY <3>1, <3>2 DEF Keepalive
    <3> QED BY <1>6, <2>1, <2>2, <3>3 DEF Answered, ReadingOn, Moves
  <2>3. CASE ~Answered
    <3>1. ka' = To("top") BY <1>9, <2>3 DEF BeforeRead
    <3> QED BY <1>4, <1>6, <2>1, <3>1 DEF StepBack, InRecovery
  <2> QED BY <2>2, <2>3
<1>10. CASE Relock
  <2>1. ka.pc = "relock" /\ NothingSent /\ watch' = watch BY <1>10 DEF Relock, At, NothingSent
  <2>2. ka.wait # "asked" BY <1>3, <2>1 DEF Asks
  <2>3. /\ To("resend") \in Keepalive /\ To("resend").pc = "resend" /\ To("resend").wait = "unasked"
        /\ To("resend").cause = ka.cause /\ To("resend").seen = ka.seen
        /\ To("resend").before = ka.before
    BY <1>2, <1>5
  <2>4. /\ ka'.pc = "resend" /\ ka'.wait = "unasked" /\ ka'.cause = ka.cause
        /\ ka'.seen = ka.seen /\ ka'.before = ka.before /\ ka'.todo = desired
    BY <1>10, <2>3 DEF Relock, Keepalive
  <2> QED BY <1>6, <2>1, <2>2, <2>4 DEF SendingOn, Moves
<1>11. CASE Resend
  <2>1. ka.pc = "resend" /\ watch' = watch /\ desired' = desired BY <1>11 DEF Resend, At
  <2>2. ka.todo = {}
    <3> SUFFICES ASSUME ka.todo # {} PROVE ka'.pc = "resend" BY <2>1
    <3> PICK k \in ka.todo : ka' = [ka EXCEPT !.todo = @ \ {k}] BY <1>11 DEF Resend, SendNext
    <3> QED BY <1>1, <2>1 DEF Keepalive
  <2>3. ka' = To("caps2") /\ NothingSent BY <1>11, <2>1, <2>2 DEF Resend, SendNext, NothingSent
  <2>4. /\ To("caps2").pc = "caps2" /\ To("caps2").wait = "unasked" /\ To("caps2").cause = ka.cause
        /\ To("caps2").seen = ka.seen /\ To("caps2").before = ka.before
    BY <1>2, <1>5 DEF PastResend
  <2>5. ka.wait # "asked" BY <1>3, <2>1 DEF Asks
  <2> QED BY <1>6, <2>1, <2>2, <2>3, <2>4, <2>5 DEF SendingOn, Moves
<1>12. CASE ResendFails
  <2>1. ka.pc = "resend" /\ NothingSent /\ watch' = watch /\ ka' = To("top")
    BY <1>12 DEF ResendFails, At, NothingSent
  <2>2. ka.wait # "asked" BY <1>3, <2>1 DEF Asks
  <2> QED BY <1>4, <1>6, <2>1, <2>2 DEF StepBack, InRecovery
<1>13. CASE CloneRechecked
  <2>1. ka.pc = "caps2" /\ ka.wait # "asked" /\ NothingSent /\ watch' = watch
    BY <1>13 DEF CloneRechecked, Back, KeepaliveOnly, NothingSent
  <2>2. /\ To("reseen") \in Keepalive /\ To("reseen").pc = "reseen" /\ To("reseen").wait = "unasked"
        /\ To("reseen").cause = ka.cause /\ To("reseen").seen = ka.seen
        /\ To("reseen").before = ka.before
    BY <1>2, <1>5 DEF PastResend
  <2>3. /\ ka'.pc = "reseen" /\ ka'.wait = "unasked" /\ ka'.cause = ka.cause
        /\ ka'.seen = ka.seen /\ ka'.before = ka.before /\ (ka'.up => Answered /\ ka.got.up)
    BY <1>13, <2>2 DEF CloneRechecked, Keepalive
  <2> QED BY <1>6, <2>1, <2>3 DEF SendingOn, Moves, Answered
<1>14. CASE GenSeen
  <2>1. ka.pc = "reseen" /\ NothingSent /\ watch' = watch
    BY <1>14 DEF GenSeen, At, KeepaliveOnly, NothingSent
  <2>2. ka.wait # "asked" BY <1>3, <2>1 DEF Asks
  <2>3. /\ To("clip") \in Keepalive /\ To("clip").pc = "clip" /\ To("clip").wait = "unasked"
        /\ To("clip").cause = ka.cause /\ To("clip").seen = ka.seen
        /\ To("clip").before = ka.before /\ To("clip").up = ka.up
    BY <1>2, <1>5 DEF PastResend
  <2>4. /\ ka'.pc = "clip" /\ ka'.wait = "unasked" /\ ka'.cause = ka.cause
        /\ ka'.seen = ka.seen /\ ka'.before = ka.before /\ ka'.up = ka.up
    BY <1>14, <2>3 DEF GenSeen, Keepalive
  <2> QED BY <1>6, <2>1, <2>2, <2>4 DEF SendingOn, Moves
<1>15. CASE RingReread
  <2>1. ka.pc = "clip" /\ ka.wait # "asked" /\ NothingSent /\ watch' = watch
    BY <1>15 DEF RingReread, Back, KeepaliveOnly, NothingSent
  <2> PICK ring \in {"unread", "holds", "empty"} :
        ka' = [To(IF ka.up THEN "stats2" ELSE "top") EXCEPT !.up = FALSE, !.ring = ring]
    BY <1>15 DEF RingReread
  <2>2. CASE ka.up
    <3>1. /\ To("stats2") \in Keepalive /\ To("stats2").pc = "stats2" /\ To("stats2").wait = "unasked"
          /\ To("stats2").cause = ka.cause /\ To("stats2").seen = ka.seen
          /\ To("stats2").before = ka.before
      BY <1>2, <1>5 DEF PastResend
    <3>2. ka' = [To("stats2") EXCEPT !.up = FALSE, !.ring = ring] BY <2>2
    <3>3. /\ ka'.pc = "stats2" /\ ka'.wait = "unasked" /\ ka'.cause = ka.cause
          /\ ka'.seen = ka.seen /\ ka'.before = ka.before
      BY ONLY <3>1, <3>2 DEF Keepalive
    <3> QED BY <1>6, <2>1, <2>2, <3>3 DEF SendingOn, Moves
  <2>3. CASE ~ka.up
    <3>1. ka' = [To("top") EXCEPT !.up = FALSE, !.ring = ring] BY <2>3
    <3>2. ka'.pc = "top" /\ ka'.wait = "unasked" /\ ka'.cause = ka.cause
      BY ONLY <1>4, <3>1 DEF Keepalive
    <3> QED BY <1>6, <2>1, <3>2 DEF StepBack, InRecovery, PastResend
  <2> QED BY <2>2, <2>3
<1>16. CASE Settle
  <2>1. ka.pc = "stats2" /\ ka.wait # "asked" /\ NothingSent /\ watch' = watch
    BY <1>16 DEF Settle, Back, KeepaliveOnly, NothingSent
  <2>2. ka' = To("noteRing") \/ ka' = To("top") BY <1>16 DEF Settle
  <2>3. /\ To("noteRing").pc = "noteRing" /\ To("noteRing").wait = "unasked"
        /\ To("noteRing").cause = ka.cause /\ To("noteRing").seen = ka.seen
        /\ To("noteRing").before = ka.before
    BY <1>2, <1>5 DEF PastResend
  <2> QED BY <1>4, <1>6, <2>1, <2>2, <2>3 DEF StepBack, SendingOn, Moves, InRecovery, PastResend
<1>17. CASE NoteRing
  <2>1. ka.pc = "noteRing" /\ NothingSent /\ watch' = watch BY <1>17 DEF NoteRing, At, NothingSent
  <2>2. ka.wait # "asked" BY <1>3, <2>1 DEF Asks
  <2>3. /\ To("noteSession") \in Keepalive /\ To("noteSession").pc = "noteSession"
        /\ To("noteSession").wait = "unasked" /\ To("noteSession").cause = ka.cause
        /\ To("noteSession").seen = ka.seen /\ To("noteSession").before = ka.before
    BY <1>2, <1>5 DEF PastResend
  <2>4. /\ ka'.pc = "noteSession" /\ ka'.wait = "unasked" /\ ka'.cause = ka.cause
        /\ ka'.seen = ka.seen /\ ka'.before = ka.before
    BY <1>17, <2>3 DEF NoteRing, Keepalive
  <2> QED BY <1>6, <2>1, <2>2, <2>4 DEF SendingOn, Moves
<1>18. CASE NoteSession
  <2>1. ka.pc = "noteSession" /\ NothingSent /\ ka' = To("count")
    BY <1>18 DEF NoteSession, At, NothingSent
  <2>2. ka.wait # "asked" BY <1>3, <2>1 DEF Asks
  <2>3. /\ To("count").pc = "count" /\ To("count").wait = "unasked" /\ To("count").cause = ka.cause
        /\ To("count").seen = ka.seen /\ To("count").before = ka.before
    BY <1>2, <1>5 DEF PastResend
  <2>4. FlagsKept /\ watch'.session = ka.before BY <1>1, <1>18 DEF NoteSession, FlagsKept, Watch
  <2> QED BY <2>1, <2>2, <2>3, <2>4 DEF SendingOn, Moves
<1>19. CASE Count
  <2>1. ka.pc = "count" /\ NothingSent /\ ka' = To("finish") BY <1>19 DEF Count, At, NothingSent
  <2>2. ka.wait # "asked" BY <1>3, <2>1 DEF Asks
  <2>3. /\ To("finish").pc = "finish" /\ To("finish").wait = "unasked" /\ To("finish").cause = ka.cause
        /\ To("finish").seen = ka.seen /\ To("finish").before = ka.before
    BY <1>2, <1>5 DEF PastResend
  <2>4. FlagsKept /\ watch'.session = watch.session BY <1>1, <1>19 DEF Count, FlagsKept, Watch
  <2> QED BY <2>1, <2>2, <2>3, <2>4 DEF SendingOn, Moves
<1>20. CASE Finish
  <2>1. ka.pc = "finish" /\ NothingSent BY <1>20 DEF Finish, At, NothingSent
  <2>2. ka.wait # "asked" BY <1>3, <2>1 DEF Asks
  <2>3. CASE watch.hellos = ka.seen
    <3>1. ka'.pc = "top" /\ ka'.wait = "unasked" /\ ka'.cause = "none"
      BY <1>4, <1>20, <2>3 DEF Finish, Keepalive
    <3>2. /\ watch'.armed = watch.armed /\ watch'.owed = watch.owed
          /\ watch'.session = watch.session /\ ~watch'.recovering
      BY <1>1, <1>20, <2>3 DEF Finish, Watch
    <3> QED BY <2>1, <2>2, <2>3, <3>1, <3>2 DEF Ends
  <2>4. CASE watch.hellos # ka.seen
    <3>1. ka'.pc = "top" /\ ka'.wait = "unasked" /\ ka'.cause = "Restart"
      BY <1>4, <1>20, <2>4 DEF Finish, Keepalive
    <3>2. watch' = watch BY <1>20, <2>4 DEF Finish
    <3> QED BY <2>1, <2>2, <3>1, <3>2 DEF Ends
  <2> QED BY <2>3, <2>4
<1> QED
  BY <1>7, <1>8, <1>9, <1>10, <1>11, <1>12, <1>13, <1>14, <1>15, <1>16, <1>17, <1>18, <1>19, <1>20
  DEF RecoveryStep

LEMMA RecoveryKeepsLoss ==
  ASSUME LossInv, NothingSent, ka.wait # "asked",
         StepBack \/ (FlagsKept /\ (ReadingOn \/ SendingOn)) \/ Ends
  PROVE  HeldIsMarked' /\ Watched' /\ OneAnswer' /\ BeforeHolds' /\ Resent' /\ Restored'
<1>0. TypeOK BY DEF LossInv, GhostInv
<1>1. \A i \in DOMAIN heard' : ~heard'[i].live BY DEF LossInv, OneAnswer, NothingSent
<1>2. HeldIsMarked' BY DEF LossInv, HeldIsMarked, NothingSent
<1>3. HelloToCome' <=> HelloToCome BY DEF HelloToCome, NothingSent
<1>4. OneAnswer'
  <2>1. ka'.wait = "unasked" BY DEF StepBack, ReadingOn, SendingOn, Ends, Moves
  <2> QED BY <1>1, <2>1 DEF OneAnswer
<1>5. AllHeld' <=> AllHeld BY DEF AllHeld, HeldBut, NothingSent
<1>6. ASSUME ka'.pc = "top" PROVE BeforeHolds' /\ Resent'
  BY <1>6 DEF BeforeHolds, Resent, BeforeKnown, PastResend
<1>7. CASE StepBack
  <2>1. ka.cause # "none" BY <1>7 DEF StepBack, LossInv, Watched
  <2>2. ka'.pc \notin InRecovery /\ ka'.pc \notin SeenKnown
    BY <1>7 DEF StepBack, InRecovery, SeenKnown, PastResend
  <2>3. Watched' BY <1>7, <2>2 DEF StepBack, FlagsKept, LossInv, Watched
  <2>4. Restored' BY <1>7, <2>1 DEF StepBack, Restored, Due
  <2> QED BY <1>2, <1>4, <1>6, <1>7, <2>3, <2>4 DEF StepBack
<1>8. ASSUME FlagsKept, ka.pc \in InRecovery, ka'.cause = ka.cause,
             ka.pc = "caps" => ka.wait = "got",
             ka'.pc \in SeenKnown => ka'.seen <= watch.hellos
      PROVE  Watched' /\ Restored'
  <2>1. ka.cause # "none" /\ watch.armed BY <1>8 DEF LossInv, Watched
  <2>2. Watched' BY <1>8, <2>1 DEF FlagsKept, LossInv, Watched
  <2>3. Restored' BY <1>8, <2>1 DEF Restored, Due
  <2> QED BY <2>2, <2>3
<1>9. CASE FlagsKept /\ ReadingOn
  <2>1. /\ ka.pc \in InRecovery /\ ka'.cause = ka.cause /\ (ka.pc = "caps" => ka.wait = "got")
    BY <1>9 DEF ReadingOn, Moves, InRecovery
  <2>2. ka'.pc \in SeenKnown => ka'.seen <= watch.hellos
    <3>1. watch.hellos \in Nat BY <1>0, SessionNumbers
    <3>2. ka.pc = "stats" => ka.seen <= watch.hellos BY DEF LossInv, Watched, SeenKnown
    <3>3. watch.hellos <= watch.hellos BY ONLY <3>1
    <3>4. CASE Moves("caps", "seen") BY <3>4 DEF Moves, SeenKnown, PastResend
    <3> QED BY <1>9, <3>2, <3>3, <3>4 DEF ReadingOn, Moves
  <2>3. ka'.pc = "relock" => Again' \/ ka'.before <= box'.session
    <3>1. ka'.pc = "relock" =>
            /\ ka.pc = "stats" /\ ka.wait = "got" /\ ka'.seen = ka.seen /\ ka'.before = ka.got.session
      BY <1>9 DEF ReadingOn, Moves
    <3>2. ka'.pc = "relock" => Again \/ ka.got.session <= box.session
      BY <3>1 DEF LossInv, BeforeHolds
    <3> QED BY <1>3, <1>9, <3>1, <3>2 DEF Again, FlagsKept, NothingSent
  <2>4. ka'.pc \in {"seen", "stats", "relock"} /\ ka'.wait = "unasked" BY <1>9 DEF ReadingOn, Moves
  <2>5. BeforeHolds' BY <1>1, <2>3, <2>4 DEF BeforeHolds, BeforeKnown, PastResend
  <2>6. Resent' BY <2>4 DEF Resent
  <2> QED BY <1>2, <1>4, <1>8, <1>9, <2>1, <2>2, <2>5, <2>6
<1>10. CASE FlagsKept /\ SendingOn
  <2>1. /\ ka.pc \in BeforeKnown /\ ka'.pc \in BeforeKnown /\ ka'.cause = ka.cause
        /\ ka'.seen = ka.seen /\ ka'.before = ka.before /\ ka'.wait = "unasked"
    BY <1>10 DEF SendingOn, Moves, BeforeKnown, PastResend
  <2>2. ka.pc \in InRecovery /\ ka.pc # "caps" /\ ka.pc \in SeenKnown
    BY <2>1 DEF BeforeKnown, InRecovery, SeenKnown, PastResend
  <2>3. ka.seen <= watch.hellos BY <2>2 DEF LossInv, Watched
  <2>4. Watched' /\ Restored' BY <1>8, <1>10, <2>1, <2>2, <2>3
  <2>5. (Again' <=> Again) /\ (Disturbed' <=> Disturbed)
    BY <1>3, <1>10, <2>1 DEF Again, Disturbed, FlagsKept, NothingSent
  <2>6. BeforeHolds'
    <3>1. Again' \/ ka'.before <= box'.session
      BY <2>1, <2>5 DEF LossInv, BeforeHolds, NothingSent
    <3>2. ka'.pc \in {"count", "finish"} => watch'.session = ka'.before
      BY <1>10, <2>1 DEF SendingOn, Moves, LossInv, BeforeHolds
    <3>3. ka'.pc # "stats" BY <1>10 DEF SendingOn, Moves
    <3> QED BY <3>1, <3>2, <3>3 DEF BeforeHolds
  <2>7. Resent'
    <3>1. CASE Moves("relock", "resend")
      <4>1. ka'.todo = desired BY <1>10, <3>1 DEF SendingOn, Moves
      <4> QED BY <3>1, <4>1 DEF Moves, Resent, HeldBut, NothingSent
    <3>2. CASE Moves("resend", "caps2")
      <4>1. ka.todo = {} BY <1>10, <3>2 DEF SendingOn, Moves
      <4>2. Disturbed \/ ~box.up \/ AllHeld BY <3>2, <4>1 DEF Moves, LossInv, Resent, AllHeld, HeldBut
      <4> QED BY <1>1, <1>5, <2>1, <2>5, <3>2, <4>2 DEF Moves, Resent, NothingSent
    <3>3. CASE Moves("caps2", "reseen")
      <4>1. ka'.up => ka.wait = "got" /\ ka.got.up BY <1>10, <3>3 DEF SendingOn, Moves
      <4>2. Disturbed \/ AllHeld \/ ~(ka.wait = "got" /\ ka.got.up)
        BY <3>3 DEF Moves, LossInv, Resent
      <4> QED BY <1>5, <2>5, <3>3, <4>1, <4>2 DEF Moves, Resent
    <3>4. CASE Moves("reseen", "clip")
      <4>1. ka'.up = ka.up BY <1>10, <3>4 DEF SendingOn, Moves
      <4> QED BY <1>5, <2>5, <3>4, <4>1 DEF Moves, LossInv, Resent
    <3>5. CASE Moves("clip", "stats2")
      <4>1. ka.up BY <1>10, <3>5 DEF SendingOn, Moves
      <4> QED BY <1>5, <2>5, <3>5, <4>1 DEF Moves, LossInv, Resent
    <3>6. CASE Moves("stats2", "noteRing") \/ Moves("noteRing", "noteSession")
               \/ Moves("noteSession", "count") \/ Moves("count", "finish")
      BY <1>5, <2>5, <3>6 DEF Moves, LossInv, Resent
    <3> QED BY <1>10, <3>1, <3>2, <3>3, <3>4, <3>5, <3>6 DEF SendingOn
  <2> QED BY <1>2, <1>4, <2>4, <2>6, <2>7
<1>11. CASE Ends
  <2>1. ka.cause # "none" /\ watch.armed /\ watch.recovering
    BY <1>11 DEF Ends, LossInv, Watched, InRecovery, PastResend
  <2>2. ka'.pc \notin InRecovery /\ ka'.pc \notin SeenKnown
    BY <1>11 DEF Ends, InRecovery, SeenKnown, PastResend
  <2>3. Watched' BY <1>11, <2>1, <2>2 DEF Ends, Watched
  <2>4. Restored'
    <3> SUFFICES ASSUME ~Due'
                 PROVE  box'.session >= watch'.session /\ (box'.session = watch'.session => AllHeld')
      BY DEF Restored
    <3>1. watch.hellos = ka.seen /\ ~HelloToCome BY <1>3, <1>11 DEF Ends, Due
    <3>2. watch.hellos \in Nat /\ box.session \in Nat /\ ka.before \in Nat BY <1>0, SessionNumbers
    <3>3. ~(watch.hellos > ka.seen) BY ONLY <3>1, <3>2
    <3>4. ~Again BY <3>1, <3>3 DEF Again
    <3>5. watch.session = ka.before /\ ka.before <= box.session /\ (Disturbed \/ AllHeld)
      BY <1>11, <3>4 DEF Ends, LossInv, BeforeHolds, Resent, BeforeKnown, PastResend
    <3>6. box.session = ka.before => AllHeld
      <4>1. box.session = ka.before => ~(box.session > ka.before) BY ONLY <3>2
      <4> QED BY <3>4, <3>5, <4>1 DEF Disturbed
    <3>7. box'.session = box.session /\ watch'.session = watch.session
      BY <1>11 DEF Ends, NothingSent
    <3>8. box.session >= ka.before BY ONLY <3>2, <3>5
    <3> QED BY <1>5, <3>5, <3>6, <3>7, <3>8
  <2> QED BY <1>2, <1>4, <1>6, <1>11, <2>3, <2>4 DEF Ends
<1> QED BY <1>7, <1>9, <1>10, <1>11

-----------------------------------------------------------------------------
LEMMA LossStep == ~BlindSets /\ LossInv /\ [Next]_vars => LossInv'
<1> SUFFICES ASSUME ~BlindSets, LossInv, [Next]_vars PROVE LossInv' OBVIOUS
<1>1. GhostInv' BY GhostStep DEF LossInv
<1>2. TypeOK /\ TypeOK' /\ OneAnswer BY <1>1 DEF LossInv, GhostInv
<1> SUFFICES HeldIsMarked' /\ Watched' /\ OneAnswer' /\ BeforeHolds' /\ Resent' /\ Restored'
  BY <1>1 DEF LossInv
<1>3. CASE BoxStep \/ UserStep BY <1>2, <1>3, BoxKeepsLoss, UserKeepsLoss
<1>4. CASE Hear \/ Ask \/ TimeOut BY <1>2, <1>4, HearKeepsLoss, AskKeepsLoss, TimeOutKeepsLoss
<1>5. CASE LoopStep
  <2>1. CASE ka.pc = "tickSend" /\ ka.todo # {}
    <3>1. TickSend
      BY <1>5, <2>1 DEF LoopStep, Top, LookAround, SessionRead, BeginRelease, RingSeen, RingRead,
                        RingChecked, RingNote, TickLock, At, Back
    <3>2. SendNext("top") /\ UNCHANGED <<watch, desired>> BY <3>1 DEF TickSend
    <3> QED BY <1>2, <2>1, <3>2, FrameKeepsLoss
  <2>2. CASE ~(ka.pc = "tickSend" /\ ka.todo # {})
    <3>1. NothingSent /\ ka.wait # "asked" /\ (TopDoes \/ LoopOn \/ BeginDoes)
      BY <1>2, <1>5, <2>2, LoopDoes
    <3> QED BY <3>1, LoopKeepsLoss
  <2> QED BY <2>1, <2>2
<1>6. CASE RecoveryStep
  <2>1. CASE ka.pc = "resend" /\ ka.todo # {} /\ ka'.pc = "resend"
    <3>1. ~ResendFails
      <4>1. To("top").pc = "top" BY <1>2, ToFields DEF TypeOK, Pcs
      <4> QED BY <2>1, <4>1 DEF ResendFails
    <3>2. Resend
      BY <1>6, <2>1, <3>1 DEF RecoveryStep, CloneChecked, HellosSeen, BeforeRead, Relock, CloneRechecked,
           GenSeen, RingReread, Settle, NoteRing, NoteSession, Count, Finish, At, Back
    <3>3. SendNext("caps2") /\ UNCHANGED <<watch, desired>> BY <3>2 DEF Resend
    <3> QED BY <1>2, <2>1, <3>3, FrameKeepsLoss
  <2>2. CASE ~(ka.pc = "resend" /\ ka.todo # {} /\ ka'.pc = "resend")
    <3>1. /\ NothingSent /\ ka.wait # "asked"
          /\ StepBack \/ (FlagsKept /\ (ReadingOn \/ SendingOn)) \/ Ends
      BY <1>2, <1>6, <2>2, RecoveryDoes
    <3> QED BY <3>1, RecoveryKeepsLoss
  <2> QED BY <2>1, <2>2
<1>7. CASE UNCHANGED vars
  BY <1>7 DEF vars, LossInv, HeldIsMarked, Watched, OneAnswer, BeforeHolds, Resent, Restored, Due,
              Disturbed, Again, AllHeld, HeldBut, HelloToCome
<1> QED BY <1>3, <1>4, <1>5, <1>6, <1>7 DEF Next

LEMMA LossInit == Init => LossInv
<1> SUFFICES ASSUME Init PROVE LossInv OBVIOUS
<1>1. /\ box.held = {} /\ box.session = 0 /\ box.pcSeen /\ heard = <<>> /\ desired = {}
      /\ watch.armed /\ ~watch.recovering /\ ~watch.owed /\ watch.session = 0
      /\ ka.pc = "top" /\ ka.wait = "unasked" /\ ka.cause = "none" /\ lock = "free"
  BY DEF Init, Rest
<1>2. GhostInv BY <1>1, InitType DEF GhostInv, OnlyTheDesired, NoGhostState
<1>3. HeldIsMarked /\ OneAnswer BY <1>1 DEF HeldIsMarked, OneAnswer, Asks
<1>4. Watched BY <1>1 DEF Watched, InRecovery, SeenKnown, PastResend
<1>5. BeforeHolds BY <1>1 DEF BeforeHolds, BeforeKnown, PastResend
<1>6. Resent BY <1>1 DEF Resent
<1>7. Restored BY <1>1 DEF Restored, AllHeld, HeldBut
<1> QED BY <1>2, <1>3, <1>4, <1>5, <1>6, <1>7 DEF LossInv

LEMMA LossInvRestores == SlowClone /\ LossInv => NoSilentLoss
<1> SUFFICES ASSUME SlowClone, LossInv, Quiet PROVE AllHeld BY DEF NoSilentLoss, AllHeld, HeldBut
<1> QED BY DEF Quiet, Noticeable, Due, LossInv, Restored

\* Where a clone comes up no faster than a recovery checks it and users set keys under a clone or
\* ahead of a re-send, nothing the box drops stays dropped unnoticed, whatever boots, releases,
\* detaches, lost queries, failed writes and calls cross: once nothing is owed, pending or to be
\* noticed, the box holds every key the host holds.
THEOREM NoSilentLossCorrect ==
  ASSUME ~BlindSets, SlowClone
  PROVE  Spec => []NoSilentLoss
<1>1. LossInv /\ [Next]_vars => LossInv' BY LossStep
<1>2. LossInv => NoSilentLoss BY LossInvRestores
<1> QED BY LossInit, <1>1, <1>2, PTL DEF Spec

-----------------------------------------------------------------------------
(* What the crate says of the clip is so.                                   *)

\* No call on the clip is between its frame and its record.
Recorded == lock \notin {"append", "clear"}

\* What the reading of the ring under way says: its answer, then what was made of it.
Asking == {"ringClip", "clip"}
Reading == {"ringStats", "ringNote", "stats2", "noteRing"}
Read(holds) ==
  \/ ka.pc \in Asking /\ \E i \in DOMAIN heard : heard[i].live /\ heard[i].ring = holds
  \/ ka.pc \in Asking /\ ka.wait = "got" /\ ka.got.ring = holds
  \/ ka.pc \in Reading /\ ka.ring = IF holds THEN "holds" ELSE "empty"

\* What the box holds is marked, and is the caller's until a reset forgets whose it was.
RingKept ==
  /\ box.ring => box.up
  /\ box.ring /\ fate # "none" => box.dirty /\ fate = "kept"
  /\ lock = "clear" => ~box.ring /\ fate = "kept"
  /\ lock = "append" => fate # "none"
  /\ lock = "append" /\ fate = "kept" => box.ring
  /\ fate = "none" => ~clip.loaded

\* A tick notes a ring it has read, and knows the hellos it has seen.
TickReads ==
  /\ ka.pc \in {"ringStats", "ringNote"} => ka.ring # "unread"
  /\ ka.pc \in {"ringClip", "ringStats", "ringNote"} => ka.seen <= watch.hellos

\* The crate's record of a clip that is neither played nor dropped.
KeptIsRecorded ==
  Recorded /\ fate = "kept" => clip.loaded = box.ring /\ clip.ring = box.ring /\ ~clip.lost

\* A reading of the ring that the last append is older than is so, of a clip neither played nor
\* dropped.
Current == Recorded /\ ka.ringSeen = clip.gen
ReadingTrue ==
  /\ ReadingRing => ka.ringSeen <= clip.gen
  /\ ReadingRing /\ Current /\ fate = "kept" => \A holds \in BOOLEAN : Read(holds) => box.ring = holds

\* A clip that was dropped and not reported has left a sign, and is on record to be reported.
Unreported == fate = "dropped" /\ ~(Recorded /\ clip.lost)
Sign == Due \/ box.session > watch.session
LossPending ==
  /\ Unreported => Sign
  /\ Unreported /\ Recorded => clip.loaded /\ clip.ring

\* A recovery past its re-send finds it gone, unless it was dropped since.
LossFound ==
  /\ ka.pc \in PastResend /\ Unreported /\ ~Recorded => Disturbed
  /\ ka.pc \in {"clip", "stats2", "noteRing"} /\ Unreported /\ Recorded =>
       Disturbed \/ (Current /\ ~Read(TRUE))
  /\ ka.pc \in {"noteSession", "count", "finish"} /\ Unreported => Disturbed

\* A tick that finds it gone finds a hello or the counter moved, and leaves it to the recovery; or
\* a recovery is to come already.
GoneRead == Unreported /\ Current /\ Read(FALSE)
Left == watch.owed \/ ka.cause # "none" \/ watch.hellos > ka.seen
HelloBefore(i) == \E j \in DOMAIN heard : j < i /\ heard[j].t = "hello"
LossLeft ==
  /\ ka.pc = "ringStats" /\ GoneRead =>
       \A i \in DOMAIN heard :
         heard[i].live => Left \/ heard[i].session # watch.session \/ HelloBefore(i)
  /\ ka.pc = "ringStats" /\ ka.wait = "got" /\ GoneRead => Left \/ ka.got.session # watch.session
  /\ ka.pc = "ringNote" /\ GoneRead => watch.owed \/ ka.cause # "none"

ReadingsGood == KeptIsRecorded /\ ReadingTrue /\ LossPending /\ LossFound /\ LossLeft
ClipInv == LossInv /\ RingKept /\ TickReads /\ (~blurred => ReadingsGood)

-----------------------------------------------------------------------------
\* What is done to the ring.
LEMMA RingFields ==
  ASSUME NEW b \in Box
  PROVE  /\ ~Released(b).ring /\ ~TornDown(b).ring /\ ~Booted(b).ring
         /\ Commanded(b).ring = b.ring /\ Reset(b).ring = b.ring
         /\ \A k \in Keys : /\ WithKey(Commanded(b), k).ring = b.ring
                            /\ WithoutKey(Commanded(b), k).ring = b.ring
<1>1. Released(b) \in Box /\ Commanded(b) \in Box BY BoxTypes
<1>2. ~Released(b).ring BY DEF Released, Box
<1>3. ~TornDown(b).ring BY <1>1, <1>2 DEF TornDown, Box
<1>4. ~Booted(b).ring /\ Commanded(b).ring = b.ring /\ Reset(b).ring = b.ring
  BY DEF Booted, Commanded, Reset, Box
<1>5. ASSUME NEW k \in Keys
      PROVE  WithKey(Commanded(b), k).ring = b.ring /\ WithoutKey(Commanded(b), k).ring = b.ring
  BY <1>1, <1>4 DEF WithKey, WithoutKey, Box
<1> QED BY <1>2, <1>3, <1>4, <1>5

\* The reader finds what was there where it was.
Longer == \A i \in DOMAIN heard : i \in DOMAIN heard' /\ heard'[i] = heard[i]

LEMMA GreetingLonger ==
  ASSUME TypeOK, heard' = heard \o Greeting(box)
  PROVE  Longer
<1>1. heard \in Seq(Heard) BY DEF TypeOK
<1>2. CASE box.pcSeen
  <2>1. heard' = heard BY <1>1, <1>2 DEF Greeting
  <2> QED BY <2>1 DEF Longer
<1>3. CASE ~box.pcSeen
  <2>1. heard' = Append(heard, Hello) BY <1>1, <1>3 DEF Greeting
  <2> QED BY <1>1, <2>1 DEF Longer
<1> QED BY <1>2, <1>3

\* A sign stays until a recovery has seen to it, and whatever the box lets go of leaves one.
LEMMA SignStays ==
  ASSUME LossInv, TypeOK', Meanwhile, ReadingsKept, UNCHANGED watch
  PROVE  (Sign => Sign') /\ (Noticed => Sign')
<1>1. Due => Due' BY DEF Due, Meanwhile, ReadingsKept
<1>2. CASE Due' BY <1>2 DEF Sign
<1>3. CASE ~Due'
  <2>1. ~Due /\ ~HelloToCome' BY <1>1, <1>3 DEF Due
  <2>2. box'.session >= box.session /\ box.session >= watch.session
    BY <2>1 DEF Meanwhile, LossInv, Restored
  <2>3. box.session \in Nat /\ watch.session \in Nat /\ box'.session \in Nat
    <3>1. TypeOK BY DEF LossInv, GhostInv
    <3>2. box'.session \in Nat BY DEF TypeOK, Box
    <3> QED BY <3>1, <3>2, SessionNumbers
  <2>4. box'.session > box.session \/ box.session > watch.session => box'.session > watch.session
    BY ONLY <2>2, <2>3
  <2> QED BY <2>1, <2>4 DEF Sign, Noticed
<1> QED BY <1>2, <1>3

-----------------------------------------------------------------------------
(* What the box does by itself, and what a key does to it.                  *)

\* The ring is as it was, or was played, or was dropped with a sign; one dropped without was not the
\* caller's, or was on no true record.
RingMoves ==
  \/ fate' = fate /\ box'.ring = box.ring /\ (box.ring => box'.up /\ (box.dirty => box'.dirty))
  \/ ~box'.ring /\ fate' = fate /\ Recorded /\ (fate = "none" \/ blurred)
  \/ box.ring /\ ~box'.ring /\ fate' = "played" /\ lock # "clear"
  \/ box.ring /\ ~box'.ring /\ fate = "kept" /\ fate' = "dropped" /\ Noticed

ClipAlone ==
  /\ UNCHANGED <<watch, clip, lock, blurred>> /\ ReadingsKept
  /\ ka'.ringSeen = ka.ringSeen /\ ka'.ring = ka.ring

LEMMA BoxStepMoves ==
  ASSUME ClipInv, TypeOK', BoxStep
  PROVE  ClipAlone /\ Longer /\ RingMoves
<1>0. TypeOK /\ box \in Box /\ box.session \in Nat /\ heard \in Seq(Heard) /\ RingKept
  BY DEF ClipInv, LossInv, GhostInv, TypeOK, Box
<1>1. UNCHANGED <<watch, desired, clip, lock, ka, blurred>>
  BY DEF BoxStep, Boot, Release, Detach, ComeBack, GraceEnds, CloneUp, PlayOut
<1>2. ClipAlone BY <1>1 DEF ClipAlone, ReadingsKept
<1>3. Longer
  <2>1. heard' = heard \/ heard' = Append(heard, Hello)
    BY DEF BoxStep, Boot, Release, Detach, ComeBack, GraceEnds, CloneUp, PlayOut
  <2> QED BY <1>0, <2>1 DEF Longer
<1>4. ASSUME ~box'.ring, fate' = FateIfReleased, box.dirty => Noticed
      PROVE  RingMoves
  <2>1. CASE ~box.ring
    <3>1. fate' = fate BY <1>4, <2>1 DEF FateIfReleased
    <3>2. box'.ring \in BOOLEAN BY DEF TypeOK, Box
    <3>3. box'.ring = box.ring BY ONLY <1>0, <1>4, <2>1, <3>2 DEF Box
    <3> QED BY <1>4, <3>1, <3>3 DEF RingMoves
  <2>2. CASE box.ring /\ fate = "none"
    <3>1. Recorded /\ ~clip.loaded BY <1>0, <2>2 DEF RingKept, Recorded
    <3>2. fate' = fate BY <1>4, <3>1 DEF FateIfReleased, Recorded
    <3> QED BY <1>4, <2>2, <3>1, <3>2 DEF RingMoves
  <2>3. CASE box.ring /\ fate # "none" /\ (clip.loaded \/ lock = "append")
    <3>1. fate = "kept" /\ box.dirty BY <1>0, <2>3 DEF RingKept
    <3>2. fate' = "dropped" BY <1>4, <2>3 DEF FateIfReleased
    <3> QED BY <1>4, <2>3, <3>1, <3>2 DEF RingMoves
  <2>4. CASE box.ring /\ fate # "none" /\ ~(clip.loaded \/ lock = "append")
    <3>1. fate = "kept" /\ Recorded BY <1>0, <2>4 DEF RingKept, Recorded
    <3>2. fate' = fate BY <1>4, <2>4 DEF FateIfReleased
    <3>3. blurred
      <4> SUFFICES ASSUME ~blurred PROVE FALSE OBVIOUS
      <4>1. KeptIsRecorded BY DEF ClipInv, ReadingsGood
      <4>2. clip.loaded = box.ring BY <3>1, <4>1 DEF KeptIsRecorded
      <4> QED BY <2>4, <4>2
    <3> QED BY <1>4, <3>1, <3>2, <3>3 DEF RingMoves
  <2> QED BY <2>1, <2>2, <2>3, <2>4
<1>5. CASE \E said \in BOOLEAN : Boot(said)
  <2>1. box' = Booted(box) /\ fate' = FateIfReleased BY <1>5 DEF Boot
  <2>2. ~box'.pcSeen /\ ~box'.ring BY ONLY <1>0, <2>1, ReleaseCounts, RingFields
  <2>3. Noticed BY <2>2 DEF Noticed, HelloToCome
  <2> QED BY <1>2, <1>3, <1>4, <2>1, <2>2, <2>3
<1>6. ASSUME box' = Released(box) \/ box' = [Released(box) EXCEPT !.grace = "gone"] \/ box' = TornDown(box),
             fate' = FateIfReleased
      PROVE  RingMoves
  <2>1. Released(box) \in Box /\ TornDown(box) \in Box BY ONLY <1>0, BoxTypes
  <2>2. /\ ~Released(box).ring /\ ~TornDown(box).ring
        /\ box.dirty => Released(box).session > box.session /\ TornDown(box).session > box.session
    BY ONLY <1>0, ReleaseCounts, RingFields
  <2>3. ~box'.ring /\ (box.dirty => box'.session > box.session) BY ONLY <1>6, <2>1, <2>2 DEF Box
  <2> QED BY <1>4, <1>6, <2>3 DEF Noticed
<1>7. ASSUME box'.dirty = box.dirty, box.up => box'.up,
             \/ box'.ring = box.ring /\ fate' = fate
             \/ box.ring /\ ~box'.ring /\ fate' = "played"
      PROVE  RingMoves
  BY <1>0, <1>7 DEF RingMoves, RingKept
<1>8. CASE Release \/ Detach BY <1>2, <1>3, <1>6, <1>8 DEF Release, Detach
<1>9. CASE GraceEnds
  <2>1. CASE box.grace = "back"
    <3>1. box'.dirty = box.dirty /\ box'.up = box.up /\ box'.ring = box.ring /\ fate' = fate
      BY <1>0, <1>9, <2>1 DEF GraceEnds, Box
    <3> QED BY <1>2, <1>3, <1>7, <3>1
  <2>2. CASE box.grace # "back" BY <1>2, <1>3, <1>6, <1>9, <2>2 DEF GraceEnds
  <2> QED BY <2>1, <2>2
<1>10. CASE ComeBack \/ CloneUp \/ PlayOut
  <2>1. box'.dirty = box.dirty /\ (box.up => box'.up)
    BY <1>0, <1>10 DEF ComeBack, CloneUp, PlayOut, Box
  <2>2. \/ box'.ring = box.ring /\ fate' = fate
        \/ box.ring /\ ~box'.ring /\ fate' = "played"
    BY <1>0, <1>10 DEF ComeBack, CloneUp, PlayOut, Box
  <2> QED BY <1>2, <1>3, <1>7, <2>1, <2>2
<1> QED BY <1>2, <1>3, <1>5, <1>8, <1>9, <1>10 DEF BoxStep

\* A key set or dropped, and a frame of a re-send.
LEMMA KeyMoves ==
  ASSUME ClipInv, NEW k \in Keys,
         box' \in {WithKey(Commanded(box), k), WithoutKey(Commanded(box), k)},
         heard' = heard \o Greeting(box), UNCHANGED fate
  PROVE  Meanwhile /\ Longer /\ RingMoves
<1>0. TypeOK /\ box \in Box /\ box.session \in Nat /\ RingKept
  BY DEF ClipInv, LossInv, GhostInv, TypeOK, Box
<1>1. box'.session = box.session /\ box'.pcSeen = TRUE /\ box'.dirty = TRUE /\ box'.up = box.up
  <2>1. \A w \in {WithKey(Commanded(box), k), WithoutKey(Commanded(box), k)} :
          w.session = box.session /\ w.pcSeen = TRUE /\ w.dirty = TRUE /\ w.up = box.up
    BY ONLY <1>0, k \in Keys, KeySet
  <2> QED BY <2>1
<1>2. box'.ring = box.ring
  BY ONLY <1>0, k \in Keys, RingFields, box' \in {WithKey(Commanded(box), k), WithoutKey(Commanded(box), k)}
<1>3. Meanwhile BY <1>0, <1>1, FrameDoes
<1>4. Longer BY <1>0, GreetingLonger
<1>5. RingMoves BY <1>0, <1>1, <1>2 DEF RingMoves, RingKept
<1> QED BY <1>3, <1>4, <1>5

\* The readings under way are neither more nor other than they were.
LEMMA ReadStays ==
  ASSUME Meanwhile, ClipAlone
  PROVE  /\ \A holds \in BOOLEAN : Read(holds)' => Read(holds)
         /\ (Recorded' <=> Recorded) /\ (Current' <=> Current) /\ (ReadingRing' <=> ReadingRing)
         /\ Left => Left'
<1>1. /\ ka'.pc = ka.pc /\ ka'.wait = ka.wait /\ ka'.got = ka.got /\ ka'.ring = ka.ring
      /\ ka'.ringSeen = ka.ringSeen /\ ka'.cause = ka.cause /\ ka'.seen = ka.seen
      /\ clip' = clip /\ lock' = lock /\ watch' = watch
  BY DEF ClipAlone, ReadingsKept
<1>2. \A i \in DOMAIN heard' : heard'[i].live => i \in DOMAIN heard /\ heard'[i] = heard[i]
  BY DEF Meanwhile
<1>3. \A holds \in BOOLEAN : Read(holds)' => Read(holds) BY ONLY <1>1, <1>2 DEF Read
<1>4. (Recorded' <=> Recorded) /\ (Current' <=> Current) /\ (ReadingRing' <=> ReadingRing)
  BY ONLY <1>1 DEF Recorded, Current, ReadingRing
<1>5. Left => Left' BY ONLY <1>1 DEF Left
<1> QED BY <1>3, <1>4, <1>5

LEMMA ClipAloneKeeps ==
  ASSUME ClipInv, TypeOK', Meanwhile, Longer, ClipAlone, RingMoves
  PROVE  RingKept' /\ TickReads' /\ (~blurred' => ReadingsGood')
<1>0. /\ ka'.pc = ka.pc /\ ka'.wait = ka.wait /\ ka'.got = ka.got /\ ka'.ring = ka.ring
      /\ ka'.ringSeen = ka.ringSeen /\ ka'.cause = ka.cause /\ ka'.seen = ka.seen
      /\ clip' = clip /\ lock' = lock /\ watch' = watch /\ blurred' = blurred
  BY DEF ClipAlone, ReadingsKept
<1>1. /\ \A holds \in BOOLEAN : Read(holds)' => Read(holds)
      /\ (Recorded' <=> Recorded) /\ (Current' <=> Current) /\ (ReadingRing' <=> ReadingRing)
      /\ Left => Left'
  BY ReadStays
<1>2. RingKept /\ TickReads /\ LossInv /\ box.ring \in BOOLEAN /\ box'.ring \in BOOLEAN
  BY DEF ClipInv, LossInv, GhostInv, TypeOK, Box
<1>3. RingKept' BY ONLY <1>0, <1>1, <1>2, RingMoves DEF RingKept, RingMoves, Recorded
<1>4. TickReads' BY ONLY <1>0, <1>2 DEF TickReads
<1>5. ASSUME ~blurred
      PROVE  ReadingsGood'
  <2>1. KeptIsRecorded /\ ReadingTrue /\ LossPending /\ LossFound /\ LossLeft
    BY <1>5 DEF ClipInv, ReadingsGood
  <2>2. /\ ka.pc \in PastResend => (Disturbed => Disturbed') /\ (Noticed => Disturbed')
        /\ (Sign => Sign') /\ (Noticed => Sign')
    <3>1. (Sign => Sign') /\ (Noticed => Sign') BY <1>0, <1>2, SignStays DEF ClipAlone
    <3>2. ka.pc \in BeforeKnown => (Disturbed => Disturbed') /\ (Noticed => Disturbed')
      BY <1>0, <1>2, MeanwhileReadings DEF ClipAlone
    <3> QED BY <3>1, <3>2 DEF BeforeKnown
  <2>3. \/ fate' = fate /\ (box'.ring = box.ring \/ fate = "none")
        \/ fate' = "played"
        \/ box.ring /\ fate = "kept" /\ fate' = "dropped" /\ Noticed
    BY ONLY <1>5, RingMoves DEF RingMoves
  <2>4. KeptIsRecorded' BY ONLY <1>0, <1>1, <2>1, <2>3 DEF KeptIsRecorded
  <2>5. ReadingTrue' BY ONLY <1>0, <1>1, <2>1, <2>3 DEF ReadingTrue
  <2>6. \/ Unreported' => Unreported
        \/ fate = "kept" /\ box.ring /\ Noticed
    BY ONLY <1>0, <1>1, <2>3 DEF Unreported
  <2>7. LossPending'
    <3>1. Recorded /\ fate = "kept" /\ box.ring => clip.loaded /\ clip.ring
      BY ONLY <2>1 DEF KeptIsRecorded
    <3> QED BY ONLY <1>0, <1>1, <2>1, <2>2, <2>6, <3>1 DEF LossPending
  <2>8. LossFound'
    <3>1. ka.pc \in {"clip", "stats2", "noteRing", "noteSession", "count", "finish"} =>
            ka.pc \in PastResend
      BY DEF PastResend
    <3>2. CASE Unreported' => Unreported
      BY ONLY <1>0, <1>1, <2>1, <2>2, <3>1, <3>2 DEF LossFound
    <3>3. CASE Noticed BY ONLY <1>0, <2>2, <3>1, <3>3 DEF LossFound
    <3> QED BY <2>6, <3>2, <3>3
  <2>9. GoneRead' => GoneRead
    <3>1. fate = "kept" /\ box.ring /\ ReadingRing /\ Current => ~Read(FALSE)
      BY ONLY <2>1 DEF ReadingTrue
    <3>2. Read(FALSE) => ReadingRing BY DEF Read, ReadingRing, Asking, Reading
    <3> QED BY ONLY <1>1, <2>6, <3>1, <3>2 DEF GoneRead
  <2>10. LossLeft'
    <3>1. \A i \in DOMAIN heard' :
            heard'[i].live => i \in DOMAIN heard /\ heard'[i] = heard[i] /\ (HelloBefore(i) => HelloBefore(i)')
      BY DEF Meanwhile, Longer, HelloBefore
    <3> QED BY ONLY <1>0, <1>1, <2>1, <2>9, <3>1 DEF LossLeft
  <2> QED BY ONLY <2>4, <2>5, <2>7, <2>8, <2>10 DEF ReadingsGood
<1> QED BY <1>0, <1>3, <1>4, <1>5

-----------------------------------------------------------------------------
(* The caller's clip, sent and recorded, and the reset.                     *)

\* What goes into no clone is dropped ahead of a re-send, which has a sign.
LEMMA ResendHasSign ==
  ASSUME LossInv, ResendToCome
  PROVE  Sign /\ (ka.pc \in PastResend => Disturbed)
<1>0. TypeOK BY DEF LossInv, GhostInv
<1>1. CASE ka.pc \in PastResend
  <2>1. ka.pc \in BeforeKnown /\ ka.pc \in InRecovery /\ ka.pc \in SeenKnown
    BY <1>1 DEF BeforeKnown, InRecovery, SeenKnown
  <2>2. ka.cause # "none" /\ ka.seen <= watch.hellos /\ (Again \/ ka.before <= box.session)
    BY <2>1 DEF LossInv, Watched, BeforeHolds
  <2>3. HelloToCome \/ watch.hellos # ka.seen \/ box.session # ka.before
    BY <1>1 DEF ResendToCome
  <2>4. watch.hellos # ka.seen => watch.hellos > ka.seen BY ONLY <1>0, <2>2, SessionNumbers
  <2>5. ka.before <= box.session /\ box.session # ka.before => box.session > ka.before
    BY ONLY <1>0, SessionNumbers
  <2> QED BY <2>2, <2>3, <2>4, <2>5 DEF Disturbed, Again, Sign, Due
<1>2. CASE ka.pc \notin PastResend
  <2>1. HelloToCome \/ box.session # watch.session \/ watch.owed \/ ka.cause # "none" \/ ka.pc = "begin"
    BY <1>2 DEF ResendToCome, Noticeable
  <2>2. CASE Due BY <1>2, <2>2 DEF Sign
  <2>3. CASE ~Due
    <3>1. box.session # watch.session BY <2>1, <2>3 DEF Due
    <3>2. box.session >= watch.session BY <2>3 DEF LossInv, Restored
    <3>3. box.session > watch.session BY ONLY <1>0, <3>1, <3>2, SessionNumbers
    <3> QED BY <1>2, <3>3 DEF Sign
  <2> QED BY <2>2, <2>3
<1> QED BY <1>1, <1>2

LEMMA ClipSendKeeps ==
  ASSUME ClipInv, TypeOK', ~BlindSets, NEW what \in {"append", "clear"}, ClipSend(what)
  PROVE  RingKept' /\ TickReads' /\ (~blurred' => ReadingsGood')
<1>0. TypeOK /\ LossInv /\ RingKept /\ TickReads /\ box \in Box
  BY DEF ClipInv, LossInv, GhostInv, TypeOK
<1>1. UNCHANGED <<watch, clip, ka>> /\ lock = "free" /\ lock' = what BY DEF ClipSend, Op
<1>2. /\ box'.session = box.session /\ box'.pcSeen = TRUE /\ box'.dirty = TRUE /\ box'.up = box.up
      /\ box'.ring = IF what = "clear" THEN FALSE ELSE box.ring \/ box.up
  <2>1. Commanded(box) \in Box BY <1>0, BoxTypes
  <2>2. /\ box'.session = Commanded(box).session /\ box'.pcSeen = Commanded(box).pcSeen
        /\ box'.dirty = Commanded(box).dirty /\ box'.up = Commanded(box).up
        /\ box'.ring = IF what = "clear" THEN FALSE ELSE Commanded(box).ring \/ box.up
    BY <2>1 DEF ClipSend, Box
  <2>3. Commanded(box).up = box.up BY <1>0, BoxHolds
  <2>4. Commanded(box).ring = box.ring BY <1>0, RingFields
  <2> QED BY <1>0, <2>2, <2>3, <2>4, ReleaseCounts
<1>3. fate' = IF what = "append" /\ ~box.up THEN "dropped" ELSE "kept" BY DEF ClipSend
<1>4. blurred' = (blurred /\ ReadingRing) BY DEF ClipSend
<1>5. RingKept' BY ONLY <1>0, <1>1, <1>2, <1>3 DEF RingKept, Box
<1>6. TickReads' BY ONLY <1>0, <1>1 DEF TickReads
<1>7. ~Recorded' /\ ~Current' BY <1>1 DEF Recorded, Current
<1>8. ASSUME ~blurred'
      PROVE  ReadingsGood'
  <2>1. KeptIsRecorded' BY <1>7 DEF KeptIsRecorded
  <2>2. ReadingTrue'
    <3>1. ReadingRing' <=> ReadingRing BY <1>1 DEF ReadingRing
    <3>2. ReadingRing => ka.ringSeen <= clip.gen
      BY <1>4, <1>8 DEF ClipInv, ReadingsGood, ReadingTrue
    <3> QED BY <1>1, <1>7, <3>1, <3>2 DEF ReadingTrue
  <2>3. fate' = "dropped" => Sign /\ (ka.pc \in PastResend => Disturbed)
    <3> SUFFICES ASSUME fate' = "dropped" PROVE ResendToCome BY <1>0, ResendHasSign
    <3> QED BY <1>3 DEF ClipSend
  <2>4. (Sign => Sign') /\ (ka.pc \in PastResend => (Disturbed => Disturbed'))
    <3>1. Meanwhile
      <4>1. heard' = heard \o Greeting(box) BY DEF ClipSend
      <4> QED BY <1>0, <1>2, <4>1, FrameDoes
    <3>2. ReadingsKept BY <1>1 DEF ReadingsKept
    <3>3. Sign => Sign' BY <1>0, <1>1, <3>1, <3>2, SignStays
    <3>4. ka.pc \in BeforeKnown => (Disturbed => Disturbed')
      BY <1>0, <1>1, <3>1, <3>2, MeanwhileReadings
    <3> QED BY <3>3, <3>4 DEF BeforeKnown
  <2>5. LossPending' BY <1>7, <2>3, <2>4 DEF LossPending, Unreported
  <2>6. LossFound'
    <3>1. Unreported' /\ ka'.pc \in PastResend => Disturbed' BY <1>1, <2>3, <2>4 DEF Unreported
    <3> QED BY <1>7, <3>1 DEF LossFound, PastResend
  <2>7. LossLeft' BY <1>7 DEF LossLeft, GoneRead
  <2> QED BY <2>1, <2>2, <2>5, <2>6, <2>7 DEF ReadingsGood
<1> QED BY <1>5, <1>6, <1>8

\* A record makes the readings from before it void.
LEMMA ClipLoadedKeeps ==
  ASSUME ClipInv, TypeOK', ClipLoaded
  PROVE  RingKept' /\ TickReads' /\ (~blurred' => ReadingsGood')
<1>0. /\ clip.gen \in Nat /\ ka.ringSeen \in Nat /\ box.ring \in BOOLEAN
      /\ RingKept /\ TickReads
  BY DEF ClipInv, LossInv, GhostInv, TypeOK, Clip, Keepalive, Box
<1>1. UNCHANGED <<box, heard, watch, ka, fate, blurred>> BY DEF ClipLoaded
<1>2. /\ lock \in {"append", "clear"} /\ lock' = "free" /\ ~Recorded /\ Recorded'
      /\ clip'.loaded = (lock = "append") /\ clip'.ring = (lock = "append")
      /\ clip'.gen = clip.gen + 1 /\ ~clip'.lost
  BY DEF ClipLoaded, Recorded
<1>3. RingKept' BY ONLY <1>0, <1>1, <1>2 DEF RingKept
<1>4. TickReads' BY ONLY <1>0, <1>1 DEF TickReads
<1>5. ASSUME ~blurred
      PROVE  ReadingsGood'
  <2>1. KeptIsRecorded /\ ReadingTrue /\ LossPending /\ LossFound /\ LossLeft
    BY <1>5 DEF ClipInv, ReadingsGood
  <2>2. ReadingRing' <=> ReadingRing BY <1>1 DEF ReadingRing
  <2>3. ReadingRing => ka.ringSeen <= clip'.gen /\ ka.ringSeen # clip'.gen
    <3>1. ReadingRing => ka.ringSeen <= clip.gen BY <2>1 DEF ReadingTrue
    <3>2. ka.ringSeen <= clip.gen => ka.ringSeen <= clip.gen + 1 /\ ka.ringSeen # clip.gen + 1
      BY ONLY <1>0
    <3> QED BY ONLY <1>2, <3>1, <3>2
  <2>4. ReadingRing => ~Current' BY ONLY <1>1, <2>3 DEF Current
  <2>5. KeptIsRecorded' BY ONLY <1>0, <1>1, <1>2 DEF KeptIsRecorded, RingKept
  <2>6. ReadingTrue' BY ONLY <1>1, <2>2, <2>3, <2>4 DEF ReadingTrue
  <2>7. (Unreported' <=> Unreported) /\ (Unreported => lock = "append")
    BY ONLY <1>0, <1>1, <1>2 DEF Unreported, RingKept
  <2>8. LossPending'
    <3>1. Sign' <=> Sign BY <1>1 DEF Sign, Due, HelloToCome
    <3> QED BY ONLY <1>2, <2>1, <2>7, <3>1 DEF LossPending
  <2>9. LossFound'
    <3>1. Disturbed' <=> Disturbed BY <1>1 DEF Disturbed, Again, HelloToCome
    <3>2. ka.pc \in {"clip", "stats2", "noteRing"} => ka.pc \in PastResend BY DEF PastResend
    <3> QED BY ONLY <1>1, <1>2, <2>1, <2>7, <3>1, <3>2 DEF LossFound
  <2>10. LossLeft'
    <3>1. ka.pc \in {"ringStats", "ringNote"} => ReadingRing BY DEF ReadingRing
    <3> QED BY ONLY <1>1, <2>4, <3>1 DEF LossLeft, GoneRead
  <2> QED BY <2>5, <2>6, <2>8, <2>9, <2>10 DEF ReadingsGood
<1> QED BY <1>1, <1>3, <1>4, <1>5

\* A reset forgets whose clip it was; a reading that it crosses may not be told from a later one.
LEMMA ResetKeeps ==
  ASSUME ClipInv, TypeOK', ResetAll
  PROVE  RingKept' /\ TickReads' /\ (~blurred' => ReadingsGood')
<1>0. TypeOK /\ box \in Box /\ RingKept /\ TickReads BY DEF ClipInv, LossInv, GhostInv, TypeOK
<1>1. /\ UNCHANGED <<watch, lock, ka>> /\ lock = "free" /\ fate' = "none" /\ blurred' = ReadingRing
      /\ ~clip'.loaded
  BY DEF ResetAll, Op
<1>2. box'.ring = box.ring /\ box'.up = box.up
  <2>1. box' = Reset(box) BY DEF ResetAll
  <2> QED BY ONLY <1>0, <2>1, RingFields, BoxHolds
<1>3. RingKept' BY ONLY <1>0, <1>1, <1>2 DEF RingKept
<1>4. TickReads' BY ONLY <1>0, <1>1 DEF TickReads
<1>5. ~Unreported' BY <1>1 DEF Unreported
<1>6. ASSUME ~blurred' PROVE ReadingsGood'
  <2>1. ~ReadingRing' BY <1>1, <1>6 DEF ReadingRing
  <2> QED BY <1>1, <1>5, <2>1 DEF ReadingsGood, KeptIsRecorded, ReadingTrue, LossPending, LossFound,
            LossLeft, GoneRead
<1> QED BY <1>3, <1>4, <1>6

LEMMA UserKeepsClip ==
  ASSUME ClipInv, TypeOK', ~BlindSets, UserStep
  PROVE  RingKept' /\ TickReads' /\ (~blurred' => ReadingsGood')
<1>1. ASSUME NEW k \in left.keys, SetKey(k) \/ UnsetKey(k)
      PROVE  RingKept' /\ TickReads' /\ (~blurred' => ReadingsGood')
  <2>1. k \in Keys BY DEF ClipInv, LossInv, GhostInv, TypeOK, Budget
  <2>2. /\ box' \in {WithKey(Commanded(box), k), WithoutKey(Commanded(box), k)}
        /\ heard' = heard \o Greeting(box) /\ UNCHANGED <<watch, clip, lock, ka, fate, blurred>>
    BY <1>1 DEF SetKey, UnsetKey, Op
  <2>3. Meanwhile /\ Longer /\ RingMoves BY <2>1, <2>2, KeyMoves
  <2>4. ClipAlone BY <2>2 DEF ClipAlone, ReadingsKept
  <2> QED BY <2>3, <2>4, ClipAloneKeeps
<1>2. CASE ResetAll BY <1>2, ResetKeeps
<1>3. ASSUME NEW what \in {"append", "clear"}, ClipSend(what)
      PROVE  RingKept' /\ TickReads' /\ (~blurred' => ReadingsGood')
  BY <1>3, ClipSendKeeps
<1>4. CASE ClipLoaded BY <1>4, ClipLoadedKeeps
<1> QED BY <1>1, <1>2, <1>3, <1>4 DEF UserStep

-----------------------------------------------------------------------------
(* A query and its answer.                                                  *)

\* A hello that is heard leaves the tick's reading to the recovery it begins.
LEMMA HearLeaves ==
  ASSUME ClipInv, Hear
  PROVE  /\ watch'.hellos >= watch.hellos /\ (watch.owed => watch'.owed)
         /\ Head(heard).t = "hello" /\ ka.seen <= watch.hellos => watch'.owed \/ watch'.hellos > ka.seen
<1>0. /\ watch \in Watch /\ watch.hellos \in Nat /\ ka.seen \in Nat
      /\ watch.armed \/ watch.recovering
  BY SessionNumbers DEF ClipInv, LossInv, GhostInv, TypeOK, Watched
<1>1. CASE Head(heard).t = "hello"
  <2>1. watch' = Noted(watch) BY <1>1 DEF Hear
  <2>2. CASE watch.recovering
    <3>1. watch'.hellos = watch.hellos + 1 /\ watch'.owed = watch.owed
      BY ONLY <1>0, <2>1, <2>2 DEF Noted, Watch
    <3> QED BY ONLY <1>0, <3>1
  <2>3. CASE ~watch.recovering
    <3>1. watch'.hellos = watch.hellos + 1 /\ watch'.owed
      BY ONLY <1>0, <2>1, <2>3 DEF Noted, Watch
    <3> QED BY ONLY <1>0, <3>1
  <2> QED BY <2>2, <2>3
<1>2. CASE Head(heard).t # "hello"
  <2>1. watch'.hellos = watch.hellos /\ watch'.owed = watch.owed BY <1>0, <1>2 DEF Hear, Watch
  <2> QED BY ONLY <1>0, <1>2, <2>1
<1> QED BY <1>1, <1>2

LEMMA HearKeepsClip ==
  ASSUME ClipInv, TypeOK', Hear
  PROVE  RingKept' /\ TickReads' /\ (~blurred' => ReadingsGood')
<1> DEFINE h == Head(heard)
<1>0. /\ LossInv /\ RingKept /\ TickReads /\ heard \in Seq(Heard) /\ ka \in Keepalive
      /\ watch.hellos \in Nat /\ ka.seen \in Nat /\ watch'.hellos \in Nat
  <2>1. watch'.hellos \in Nat BY DEF TypeOK, Watch
  <2> QED BY <2>1, SessionNumbers DEF ClipInv, LossInv, GhostInv, TypeOK
<1>1. /\ (Due => Due') /\ (ka.pc \in SeenKnown => (Again => Again'))
      /\ \A i \in DOMAIN heard' : i + 1 \in DOMAIN heard /\ heard'[i] = heard[i + 1]
      /\ UNCHANGED box /\ watch'.session = watch.session
      /\ ka'.pc = ka.pc /\ ka'.cause = ka.cause /\ ka'.seen = ka.seen /\ ka'.before = ka.before
  BY <1>0, HearNotes
<1>2. UNCHANGED <<clip, lock, fate, blurred>> BY DEF Hear
<1>3. ka'.ring = ka.ring /\ ka'.ringSeen = ka.ringSeen BY <1>0 DEF Hear, Keepalive
<1>4. heard # <<>> /\ h = heard[1] /\ 1 \in DOMAIN heard /\ heard' = Tail(heard) BY <1>0 DEF Hear
<1>5. \/ ka'.wait = ka.wait /\ ka'.got = ka.got
      \/ heard[1].live /\ ka'.wait = "got" /\ ka'.got = heard[1]
  BY <1>0, <1>4 DEF Hear, Keepalive
<1>6. /\ watch'.hellos >= watch.hellos /\ (watch.owed => watch'.owed)
      /\ h.t = "hello" /\ ka.seen <= watch.hellos => watch'.owed \/ watch'.hellos > ka.seen
  BY HearLeaves
<1>7. RingKept' BY ONLY <1>0, <1>1, <1>2 DEF RingKept
<1>8. TickReads'
  <2>1. ka.seen <= watch.hellos => ka.seen <= watch'.hellos BY ONLY <1>0, <1>6
  <2> QED BY ONLY <1>0, <1>1, <1>3, <2>1 DEF TickReads
<1>9. \A holds \in BOOLEAN : Read(holds)' => Read(holds)
  BY ONLY <1>1, <1>3, <1>4, <1>5 DEF Read
<1>10. /\ (Recorded' <=> Recorded) /\ (Current' <=> Current) /\ (ReadingRing' <=> ReadingRing)
       /\ (Unreported' <=> Unreported)
  BY ONLY <1>1, <1>2, <1>3 DEF Recorded, Current, ReadingRing, Unreported
<1>11. Left => Left'
  <2>1. watch.hellos > ka.seen => watch'.hellos > ka.seen BY ONLY <1>0, <1>6
  <2> QED BY ONLY <1>1, <1>6, <2>1 DEF Left
<1>12. ASSUME ~blurred
       PROVE  ReadingsGood'
  <2>1. KeptIsRecorded /\ ReadingTrue /\ LossPending /\ LossFound /\ LossLeft
    BY <1>12 DEF ClipInv, ReadingsGood
  <2>2. KeptIsRecorded' BY ONLY <1>1, <1>2, <1>10, <2>1 DEF KeptIsRecorded
  <2>3. ReadingTrue' BY ONLY <1>1, <1>2, <1>3, <1>9, <1>10, <2>1 DEF ReadingTrue
  <2>4. LossPending'
    <3>1. Sign => Sign' BY <1>1 DEF Sign
    <3> QED BY ONLY <1>2, <1>10, <2>1, <3>1 DEF LossPending
  <2>5. LossFound'
    <3>1. ka.pc \in PastResend => (Disturbed => Disturbed') BY <1>1 DEF Disturbed, SeenKnown
    <3>2. ka.pc \in {"clip", "stats2", "noteRing", "noteSession", "count", "finish"} =>
            ka.pc \in PastResend
      BY DEF PastResend
    <3> QED BY ONLY <1>1, <1>9, <1>10, <2>1, <3>1, <3>2 DEF LossFound
  <2>6. GoneRead' => GoneRead BY <1>9, <1>10 DEF GoneRead
  <2>7. ASSUME ka.pc = "ringStats", GoneRead, NEW i \in DOMAIN heard', heard'[i].live
        PROVE  Left' \/ heard'[i].session # watch'.session \/ HelloBefore(i)'
    <3>1. i + 1 \in DOMAIN heard /\ heard'[i] = heard[i + 1] /\ i \in Nat \ {0}
      BY <1>0, <1>1, <1>4
    <3>2. Left \/ heard[i + 1].session # watch.session \/ HelloBefore(i + 1)
      BY <2>1, <2>7, <3>1 DEF LossLeft
    <3>3. ASSUME NEW j \in DOMAIN heard, j < i + 1, heard[j].t = "hello"
          PROVE  Left' \/ HelloBefore(i)'
      <4>1. CASE j = 1
        <5>1. ka.seen <= watch.hellos BY <1>0, <2>7 DEF TickReads
        <5> QED BY <1>1, <1>4, <1>6, <3>3, <4>1, <5>1 DEF Left
      <4>2. CASE j # 1
        <5>1. j - 1 \in DOMAIN heard' /\ heard'[j - 1] = heard[j] /\ j - 1 < i
          BY <1>0, <1>4, <3>1, <3>3, <4>2
        <5> QED BY <3>3, <5>1 DEF HelloBefore
      <4> QED BY <4>1, <4>2
    <3> QED BY <1>1, <1>11, <3>1, <3>2, <3>3 DEF HelloBefore
  <2>8. ASSUME ka.pc = "ringStats", GoneRead, ka'.wait = "got"
        PROVE  Left' \/ ka'.got.session # watch'.session
    <3>1. CASE ka'.wait = ka.wait /\ ka'.got = ka.got
      BY <1>1, <1>11, <2>1, <2>8, <3>1 DEF LossLeft
    <3>2. CASE heard[1].live /\ ka'.got = heard[1]
      <4>1. Left \/ heard[1].session # watch.session \/ HelloBefore(1)
        BY <1>4, <2>1, <2>8, <3>2 DEF LossLeft
      <4>2. ~HelloBefore(1) BY <1>0 DEF HelloBefore
      <4> QED BY <1>1, <1>11, <3>2, <4>1, <4>2
    <3> QED BY <1>5, <3>1, <3>2
  <2>9. ka.pc = "ringNote" /\ GoneRead => watch'.owed \/ ka'.cause # "none"
    BY <1>1, <1>6, <2>1 DEF LossLeft
  <2>10. LossLeft' BY <1>1, <2>6, <2>7, <2>8, <2>9 DEF LossLeft
  <2> QED BY <2>2, <2>3, <2>4, <2>5, <2>10 DEF ReadingsGood
<1> QED BY <1>2, <1>7, <1>8, <1>12

\* The answer comes last, after any hello that was to come.
LEMMA AskSays ==
  ASSUME LossInv, Ask
  PROVE  /\ (HelloToCome => HelloToCome')
         /\ \A i \in DOMAIN heard' :
              heard'[i].live => heard'[i] = AnswerOf(Asks[ka.pc], box) /\ (HelloToCome => HelloBefore(i)')
<1> DEFINE a == AnswerOf(Asks[ka.pc], box)
           s == heard \o Greeting(box)
<1>1. TypeOK /\ heard \in Seq(Heard) /\ box \in Box BY DEF LossInv, GhostInv, TypeOK
<1>2. ka.pc \in DOMAIN Asks /\ ka.wait = "unasked" /\ heard' = heard \o Greeting(box) \o <<a>>
  BY DEF Ask
<1>3. a \in Heard /\ s \in Seq(Heard)
  <2>1. Asks[ka.pc] \in {"caps", "stats", "clip"} BY <1>2 DEF Asks
  <2> QED BY <1>1, <2>1, SaidTypes
<1>4. /\ Len(heard') = Len(s) + 1 /\ heard'[Len(s) + 1] = a
      /\ \A i \in DOMAIN s : i \in DOMAIN heard' /\ heard'[i] = s[i] /\ i < Len(s) + 1
      /\ \A i \in DOMAIN heard' : i \in DOMAIN s \/ i = Len(s) + 1
  <2>1. heard' = Append(s, a) BY <1>1, <1>2, <1>3
  <2> QED BY <1>3, <2>1
<1>5. \A i \in DOMAIN heard : ~heard[i].live BY <1>2 DEF LossInv, OneAnswer
<1>6. /\ \A i \in DOMAIN s : ~s[i].live
      /\ HelloToCome => \E j \in DOMAIN s : s[j].t = "hello"
  <2>1. CASE box.pcSeen
    <3>1. s = heard BY <1>1, <2>1 DEF Greeting
    <3> QED BY <1>5, <2>1, <3>1 DEF HelloToCome
  <2>2. CASE ~box.pcSeen
    <3>1. s = Append(heard, Hello) BY <1>1, <2>2 DEF Greeting
    <3>2. ~Hello.live /\ Hello.t = "hello" BY DEF Hello
    <3>3. Len(heard) + 1 \in DOMAIN s /\ s[Len(heard) + 1] = Hello BY <1>1, <3>1, SaidTypes
    <3> QED BY <1>1, <1>5, <3>1, <3>2, <3>3
  <2> QED BY <2>1, <2>2
<1> HIDE DEF a, s
<1>7. HelloToCome => \E j \in DOMAIN heard' : heard'[j].t = "hello" /\ j < Len(s) + 1
  BY ONLY <1>4, <1>6
<1>8. \A i \in DOMAIN heard' : heard'[i].live => i = Len(s) + 1 /\ heard'[i] = a
  BY ONLY <1>4, <1>6
<1>9. HelloToCome => HelloToCome' BY <1>7 DEF HelloToCome
<1>10. \A i \in DOMAIN heard' : heard'[i].live => (HelloToCome => HelloBefore(i)')
  BY <1>7, <1>8 DEF HelloBefore
<1> QED BY <1>8, <1>9, <1>10 DEF a

LEMMA AskKeepsClip ==
  ASSUME ClipInv, TypeOK', Ask
  PROVE  RingKept' /\ TickReads' /\ (~blurred' => ReadingsGood')
<1> DEFINE a == AnswerOf(Asks[ka.pc], box)
<1>0. /\ LossInv /\ RingKept /\ TickReads /\ ka \in Keepalive /\ box \in Box
      /\ box.session \in Nat /\ watch.session \in Nat /\ box.ring \in BOOLEAN
  BY SessionNumbers DEF ClipInv, LossInv, GhostInv, TypeOK, Box
<1>1. UNCHANGED <<watch, clip, lock, fate, blurred>> /\ ka.pc \in DOMAIN Asks BY DEF Ask
<1>2. /\ ka'.wait = "asked" /\ ka'.pc = ka.pc /\ ka'.cause = ka.cause /\ ka'.seen = ka.seen
      /\ ka'.before = ka.before /\ ka'.ring = ka.ring /\ ka'.ringSeen = ka.ringSeen
  BY <1>0 DEF Ask, Keepalive
<1>3. /\ box'.session = box.session /\ box'.dirty = box.dirty /\ box'.up = box.up
      /\ box'.ring = box.ring
  BY <1>0 DEF Ask, Box
<1>4. /\ (HelloToCome => HelloToCome')
      /\ \A i \in DOMAIN heard' : heard'[i].live => heard'[i] = a /\ (HelloToCome => HelloBefore(i)')
  BY <1>0, AskSays
<1>5. ka.pc \in Asking => a.ring = box.ring BY <1>0 DEF AnswerOf, Asking, Asks
<1>6. ka.pc = "ringStats" => a.session = box.session BY DEF AnswerOf, Asks
<1> HIDE DEF a
<1>7. \A holds \in BOOLEAN : Read(holds)' => Read(holds) \/ (ka.pc \in Asking /\ box.ring = holds)
  BY ONLY <1>2, <1>4, <1>5 DEF Read
<1>8. /\ (Recorded' <=> Recorded) /\ (Current' <=> Current) /\ (ReadingRing' <=> ReadingRing)
      /\ (Unreported' <=> Unreported)
  BY ONLY <1>1, <1>2 DEF Recorded, Current, ReadingRing, Unreported
<1>9. RingKept' BY ONLY <1>0, <1>1, <1>3 DEF RingKept
<1>10. TickReads' BY ONLY <1>0, <1>1, <1>2 DEF TickReads
<1>11. ASSUME ~blurred
       PROVE  ReadingsGood'
  <2>1. KeptIsRecorded /\ ReadingTrue /\ LossPending /\ LossFound /\ LossLeft
    BY <1>11 DEF ClipInv, ReadingsGood
  <2>2. KeptIsRecorded' BY ONLY <1>1, <1>3, <1>8, <2>1 DEF KeptIsRecorded
  <2>3. ReadingTrue' BY ONLY <1>1, <1>2, <1>3, <1>7, <1>8, <2>1 DEF ReadingTrue
  <2>4. Sign => Sign' BY <1>1, <1>2, <1>3, <1>4 DEF Sign, Due
  <2>5. LossPending' BY ONLY <1>1, <1>8, <2>1, <2>4 DEF LossPending
  <2>6. Disturbed => Disturbed' BY <1>1, <1>2, <1>3, <1>4 DEF Disturbed, Again
  <2>7. Unreported => box.ring = FALSE BY ONLY <1>0 DEF Unreported, RingKept
  <2>8. LossFound' BY ONLY <1>2, <1>7, <1>8, <2>1, <2>6, <2>7 DEF LossFound
  <2>9. ka.pc \in {"ringStats", "ringNote"} /\ GoneRead' => GoneRead
    BY ONLY <1>7, <1>8 DEF GoneRead, Asking
  <2>10. ASSUME ka.pc = "ringStats", GoneRead, NEW i \in DOMAIN heard', heard'[i].live
         PROVE  Left' \/ heard'[i].session # watch'.session \/ HelloBefore(i)'
    <3>1. Sign BY <2>1, <2>10 DEF GoneRead, LossPending
    <3>2. box.session > watch.session => box.session # watch.session BY ONLY <1>0
    <3> QED BY <1>1, <1>2, <1>4, <1>6, <2>10, <3>1, <3>2 DEF Sign, Due, Left
  <2>11. LossLeft' BY <1>1, <1>2, <2>1, <2>9, <2>10 DEF LossLeft
  <2> QED BY <2>2, <2>3, <2>5, <2>8, <2>11 DEF ReadingsGood
<1> QED BY <1>1, <1>9, <1>10, <1>11

LEMMA TimeOutKeepsClip ==
  ASSUME ClipInv, TypeOK', TimeOut
  PROVE  RingKept' /\ TickReads' /\ (~blurred' => ReadingsGood')
<1>0. RingKept /\ TickReads /\ ka \in Keepalive /\ heard \in Seq(Heard)
  BY DEF ClipInv, LossInv, GhostInv, TypeOK
<1>1. /\ UNCHANGED <<box, watch, clip, lock, fate, blurred>>
      /\ heard' = [i \in DOMAIN heard |-> [heard[i] EXCEPT !.live = FALSE]]
  BY DEF TimeOut
<1>2. /\ ka'.wait = "silent" /\ ka'.pc = ka.pc /\ ka'.cause = ka.cause /\ ka'.seen = ka.seen
      /\ ka'.before = ka.before /\ ka'.ring = ka.ring /\ ka'.ringSeen = ka.ringSeen
  BY <1>0 DEF TimeOut, Keepalive
<1>3. DOMAIN heard' = DOMAIN heard /\ \A i \in DOMAIN heard : heard'[i].t = heard[i].t /\ ~heard'[i].live
  <2>1. \A i \in DOMAIN heard : heard[i] \in Heard BY <1>0
  <2> QED BY <1>1, <2>1 DEF Heard
<1>4. HelloToCome' <=> HelloToCome BY <1>1, <1>3 DEF HelloToCome
<1>5. \A holds \in BOOLEAN : Read(holds)' => Read(holds) BY ONLY <1>2, <1>3 DEF Read
<1>6. /\ (Recorded' <=> Recorded) /\ (Current' <=> Current) /\ (ReadingRing' <=> ReadingRing)
      /\ (Unreported' <=> Unreported) /\ (Sign' <=> Sign) /\ (Disturbed' <=> Disturbed)
  BY ONLY <1>1, <1>2, <1>4
  DEF Recorded, Current, ReadingRing, Unreported, Sign, Due, Disturbed, Again
<1>7. RingKept' BY ONLY <1>0, <1>1 DEF RingKept
<1>8. TickReads' BY ONLY <1>0, <1>1, <1>2 DEF TickReads
<1>9. ASSUME ~blurred
      PROVE  ReadingsGood'
  <2>1. KeptIsRecorded /\ ReadingTrue /\ LossPending /\ LossFound /\ LossLeft
    BY <1>9 DEF ClipInv, ReadingsGood
  <2>2. KeptIsRecorded' BY ONLY <1>1, <1>6, <2>1 DEF KeptIsRecorded
  <2>3. ReadingTrue' BY ONLY <1>1, <1>2, <1>5, <1>6, <2>1 DEF ReadingTrue
  <2>4. LossPending' BY ONLY <1>1, <1>6, <2>1 DEF LossPending
  <2>5. LossFound' BY ONLY <1>2, <1>5, <1>6, <2>1 DEF LossFound
  <2>6. LossLeft' BY ONLY <1>1, <1>2, <1>3, <1>5, <1>6, <2>1 DEF LossLeft, GoneRead
  <2> QED BY <2>2, <2>3, <2>4, <2>5, <2>6 DEF ReadingsGood
<1> QED BY <1>1, <1>7, <1>8, <1>9

-----------------------------------------------------------------------------
(* The keepalive's own steps.                                               *)

\* One that leaves the ring alone, and leaves a sign where there was a loss.
LEMMA OtherStepKeeps ==
  ASSUME ClipInv, NothingSent, UNCHANGED <<clip, fate, blurred>>, ~ReadingRing',
         lock' = lock \/ {lock, lock'} \subseteq {"free", "keepalive"},
         ~blurred /\ Unreported => Sign',
         ~blurred /\ Unreported /\ ka'.pc \in PastResend
           /\ (~Recorded \/ ka'.pc \in {"noteSession", "count", "finish"}) => Disturbed'
  PROVE  RingKept' /\ TickReads' /\ (~blurred' => ReadingsGood')
<1>0. RingKept BY DEF ClipInv
<1>1. box' = box /\ (Recorded' <=> Recorded) BY DEF NothingSent, Recorded
<1>2. Unreported' <=> Unreported BY <1>1 DEF Unreported
<1>3. ka'.pc \notin {"ringClip", "ringStats", "ringNote", "clip", "stats2", "noteRing"}
  BY DEF ReadingRing
<1>4. RingKept' BY <1>0, <1>1 DEF RingKept
<1>5. TickReads' BY <1>3 DEF TickReads
<1>6. ASSUME ~blurred
      PROVE  ReadingsGood'
  <2>1. KeptIsRecorded /\ LossPending BY <1>6 DEF ClipInv, ReadingsGood
  <2>2. KeptIsRecorded' BY <1>1, <2>1 DEF KeptIsRecorded
  <2>3. ReadingTrue' BY DEF ReadingTrue
  <2>4. LossPending' BY <1>1, <1>2, <1>6, <2>1 DEF LossPending
  <2>5. LossFound'
    <3>1. Unreported' /\ ka'.pc \in PastResend
            /\ (~Recorded' \/ ka'.pc \in {"noteSession", "count", "finish"}) => Disturbed'
      BY <1>1, <1>2, <1>6
    <3> QED BY <1>3, <3>1 DEF LossFound, PastResend
  <2>6. LossLeft' BY <1>3 DEF LossLeft
  <2> QED BY <2>2, <2>3, <2>4, <2>5, <2>6 DEF ReadingsGood
<1> QED BY <1>4, <1>5, <1>6

LEMMA LoopKeepsClip ==
  ASSUME ClipInv, NothingSent, TopDoes \/ LoopOn \/ BeginDoes, UNCHANGED <<clip, fate, blurred>>,
         ~ReadingRing', lock' = lock \/ {lock, lock'} \subseteq {"free", "keepalive"}
  PROVE  RingKept' /\ TickReads' /\ (~blurred' => ReadingsGood')
<1>1. HelloToCome' <=> HelloToCome BY DEF HelloToCome, NothingSent
<1>2. Sign => Sign'
  <2>1. CASE TopDoes BY <1>1, <2>1 DEF TopDoes, NothingSent, Sign, Due
  <2>2. CASE LoopOn BY <1>1, <2>2 DEF LoopOn, FlagsKept, NothingSent, Sign, Due
  <2>3. CASE BeginDoes BY <2>3 DEF BeginDoes, Sign, Due
  <2> QED BY <2>1, <2>2, <2>3
<1>3. ~blurred /\ Unreported => Sign' BY <1>2 DEF ClipInv, ReadingsGood, LossPending
<1>4. ka'.pc \notin PastResend BY DEF TopDoes, LoopOn, BeginDoes, InRecovery, PastResend
<1> QED BY <1>3, <1>4, OtherStepKeeps

LEMMA RecoveryKeepsClip ==
  ASSUME ClipInv, NothingSent, StepBack \/ (FlagsKept /\ (ReadingOn \/ SendingOn)) \/ Ends,
         UNCHANGED <<clip, fate, blurred>>, ~ReadingRing',
         lock' = lock \/ {lock, lock'} \subseteq {"free", "keepalive"},
         ka.pc \notin {"noteRing", "tickSend"},
         ka.pc = "resend" => lock = "keepalive"
  PROVE  RingKept' /\ TickReads' /\ (~blurred' => ReadingsGood')
<1>0. LossInv /\ TypeOK BY DEF ClipInv, LossInv, GhostInv
<1>1. HelloToCome' <=> HelloToCome BY DEF HelloToCome, NothingSent
<1>2. FlagsKept /\ SendingOn => (Disturbed => Disturbed')
  BY <1>1 DEF SendingOn, FlagsKept, NothingSent, Disturbed, Again
<1>3. ~blurred => LossFound /\ LossPending BY DEF ClipInv, ReadingsGood
<1>4. ~blurred /\ Unreported => Sign'
  <2>1. CASE StepBack
    <3>1. ka'.cause # "none" BY <1>0, <2>1 DEF StepBack, LossInv, Watched
    <3> QED BY <3>1 DEF Sign, Due
  <2>2. CASE ReadingOn \/ SendingOn
    <3>1. ka.pc \in InRecovery /\ ka'.cause = ka.cause
      BY <2>2 DEF ReadingOn, SendingOn, Moves, InRecovery, PastResend
    <3>2. ka'.cause # "none" BY <1>0, <3>1 DEF LossInv, Watched
    <3> QED BY <3>2 DEF Sign, Due
  <2>3. CASE Ends
    <3> SUFFICES ASSUME ~blurred, Unreported, ka'.cause = "none", ~HelloToCome PROVE Sign'
      BY <1>1 DEF Sign, Due
    <3>1. watch.hellos = ka.seen /\ watch.session = ka.before
      BY <1>0, <2>3 DEF Ends, LossInv, BeforeHolds
    <3>2. Disturbed BY <1>3, <2>3 DEF Ends, LossFound
    <3>3. ~(watch.hellos > ka.seen) BY ONLY <1>0, <3>1, SessionNumbers
    <3>4. box.session > watch.session BY <3>1, <3>2, <3>3 DEF Disturbed, Again
    <3> QED BY <2>3, <3>4 DEF Ends, NothingSent, Sign
  <2> QED BY <2>1, <2>2, <2>3
<1>5. ~blurred /\ Unreported /\ ka'.pc \in PastResend
        /\ (~Recorded \/ ka'.pc \in {"noteSession", "count", "finish"}) => Disturbed'
  <2> SUFFICES ASSUME ~blurred, Unreported, ka'.pc \in PastResend,
                      ~Recorded \/ ka'.pc \in {"noteSession", "count", "finish"}
               PROVE  Disturbed'
    OBVIOUS
  <2>1. FlagsKept /\ SendingOn BY DEF StepBack, ReadingOn, Moves, Ends, PastResend
  <2>2. CASE Moves("resend", "caps2")
    <3>1. Recorded BY <2>2 DEF Moves, Recorded
    <3> QED BY <2>2, <3>1 DEF Moves
  <2>3. CASE Moves("caps2", "reseen")
    BY <1>2, <1>3, <2>1, <2>3 DEF Moves, LossFound, PastResend
  <2>4. CASE Moves("noteSession", "count") \/ Moves("count", "finish")
    BY <1>2, <1>3, <2>1, <2>4 DEF Moves, LossFound
  <2>5. ~Moves("relock", "resend") BY DEF Moves, PastResend
  <2>6. ~Moves("reseen", "clip") /\ ~Moves("clip", "stats2") /\ ~Moves("stats2", "noteRing")
    BY DEF Moves, ReadingRing
  <2>7. ~Moves("noteRing", "noteSession") BY DEF Moves
  <2> QED BY <2>1, <2>2, <2>3, <2>4, <2>5, <2>6, <2>7 DEF SendingOn
<1> QED BY <1>4, <1>5, OtherStepKeeps

\* One that reads the ring, or makes something of the reading.
ReadsOn ==
  /\ KeepaliveOnly /\ ka'.cause = ka.cause /\ ka'.wait = "unasked" /\ ka.wait # "asked"
  /\ \A holds \in BOOLEAN : Read(holds)' => Read(holds) /\ ka'.ringSeen = ka.ringSeen
  /\ \/ ka.pc = "ringSeen" /\ ka'.pc = "ringClip" /\ ka'.ringSeen = clip.gen /\ ka'.seen = watch.hellos
     \/ /\ ka'.seen = ka.seen /\ ka'.ringSeen = ka.ringSeen
        /\ \/ ka.pc = "ringClip" /\ ka'.pc = "ringStats" /\ ka'.ring # "unread"
           \/ /\ ka.pc = "ringStats" /\ ka'.pc = "ringNote" /\ ka'.ring = ka.ring
              /\ ka.wait = "got" /\ watch.hellos = ka.seen /\ watch.session = ka.got.session
     \/ /\ ka'.seen = ka.seen /\ ka'.before = ka.before
        /\ \/ ka.pc = "reseen" /\ ka'.pc = "clip" /\ ka'.ringSeen = clip.gen
           \/ ka.pc = "clip" /\ ka'.pc = "stats2" /\ ka'.ringSeen = ka.ringSeen
           \/ ka.pc = "stats2" /\ ka'.pc = "noteRing" /\ ka'.ringSeen = ka.ringSeen

LEMMA ReadsOnKeeps ==
  ASSUME ClipInv, ReadsOn
  PROVE  RingKept' /\ TickReads' /\ (~blurred' => ReadingsGood')
<1>0. /\ LossInv /\ RingKept /\ TickReads /\ OneAnswer
      /\ watch.hellos \in Nat /\ clip.gen \in Nat /\ ka.seen \in Nat
  BY SessionNumbers DEF ClipInv, LossInv, GhostInv, TypeOK, Clip
<1>1. UNCHANGED <<box, heard, watch, clip, lock, fate, blurred>> /\ ka'.cause = ka.cause
      /\ ka'.wait = "unasked"
  BY DEF ReadsOn, KeepaliveOnly
<1>2. \A holds \in BOOLEAN : Read(holds)' => Read(holds) /\ ka'.ringSeen = ka.ringSeen BY DEF ReadsOn
<1>3. ReadingRing' /\ ka.pc # "begin" /\ ka'.pc # "begin" BY DEF ReadsOn, ReadingRing
<1>4. (Recorded' <=> Recorded) /\ (Unreported' <=> Unreported) BY <1>1 DEF Recorded, Unreported
<1>5. RingKept' BY <1>0, <1>1 DEF RingKept
<1>6. TickReads'
  <2>1. watch.hellos <= watch.hellos BY ONLY <1>0
  <2> QED BY <1>0, <1>1, <2>1 DEF ReadsOn, TickReads
<1>7. ka'.ringSeen = clip.gen \/ (ReadingRing /\ ka'.ringSeen = ka.ringSeen) BY DEF ReadsOn, ReadingRing
<1>8. ASSUME ~blurred
      PROVE  ReadingsGood'
  <2>1. KeptIsRecorded /\ ReadingTrue /\ LossPending /\ LossFound /\ LossLeft
    BY <1>8 DEF ClipInv, ReadingsGood
  <2>2. KeptIsRecorded' BY <1>1, <1>4, <2>1 DEF KeptIsRecorded
  <2>3. \A holds \in BOOLEAN : Read(holds) => ReadingRing BY DEF Read, ReadingRing, Asking, Reading
  <2>4. ReadingTrue'
    <3>1. ka'.ringSeen <= clip.gen
      <4>1. clip.gen <= clip.gen BY ONLY <1>0
      <4> QED BY <1>7, <2>1, <4>1 DEF ReadingTrue
    <3>2. ASSUME Current', fate = "kept", NEW holds \in BOOLEAN, Read(holds)'
          PROVE  box.ring = holds
      <4>1. Read(holds) /\ ka'.ringSeen = ka.ringSeen BY <1>2, <3>2
      <4>2. Current BY <1>1, <3>2, <4>1 DEF Current, Recorded
      <4> QED BY <2>1, <2>3, <3>2, <4>1, <4>2 DEF ReadingTrue
    <3> QED BY <1>1, <3>1, <3>2 DEF ReadingTrue
  <2>5. LossPending'
    <3>1. Sign' <=> Sign BY <1>1, <1>3 DEF Sign, Due, HelloToCome
    <3> QED BY <1>1, <1>4, <2>1, <3>1 DEF LossPending
  <2>6. LossFound'
    <3> SUFFICES ASSUME ka'.pc \in {"clip", "stats2", "noteRing"}, Unreported
                 PROVE  Disturbed' \/ (Recorded /\ Current' /\ ~Read(TRUE)')
      BY <1>4 DEF LossFound, ReadsOn, PastResend
    <3>1. ka.pc \in {"reseen", "clip", "stats2"} /\ ka'.seen = ka.seen /\ ka'.before = ka.before
      BY DEF ReadsOn
    <3>2. Disturbed => Disturbed' BY <1>1, <3>1 DEF Disturbed, Again, HelloToCome
    <3>3. ~Recorded => Disturbed BY <2>1, <3>1 DEF LossFound, PastResend
    <3>4. CASE ka.pc = "reseen"
      <4>1. ka'.ringSeen = clip.gen BY <3>4 DEF ReadsOn
      <4>2. ~Read(TRUE)' BY <1>2, <3>4 DEF Read, Asking, Reading
      <4> QED BY <1>1, <1>4, <3>2, <3>3, <4>1, <4>2 DEF Current
    <3>5. CASE ka.pc \in {"clip", "stats2"}
      <4>1. Recorded => Disturbed \/ (Current /\ ~Read(TRUE)) BY <2>1, <3>5 DEF LossFound
      <4>2. ka'.ringSeen = ka.ringSeen BY <3>5 DEF ReadsOn
      <4>3. Current' <=> Current BY <1>1, <4>2 DEF Current, Recorded
      <4> QED BY <1>2, <3>2, <3>3, <4>1, <4>3
    <3> QED BY <3>1, <3>4, <3>5
  <2>7. LossLeft'
    <3>1. ~(ka'.pc = "ringStats" /\ ka'.wait = "got") BY <1>1
    <3>2. ka'.pc = "ringStats" => \A i \in DOMAIN heard' : ~heard'[i].live
      <4> SUFFICES ASSUME ka'.pc = "ringStats" PROVE \A i \in DOMAIN heard : ~heard[i].live BY <1>1
      <4>1. ka.pc = "ringClip" BY DEF ReadsOn
      <4> QED BY <1>0, <1>1, <4>1 DEF OneAnswer, ReadsOn
    <3>3. ASSUME ka'.pc = "ringNote", GoneRead' PROVE watch.owed \/ ka.cause # "none"
      <4>1. /\ ka.pc = "ringStats" /\ ka.wait = "got" /\ watch.hellos = ka.seen
            /\ watch.session = ka.got.session /\ ka'.ringSeen = ka.ringSeen
        BY <3>3 DEF ReadsOn
      <4>2. GoneRead BY <1>1, <1>2, <1>4, <3>3, <4>1 DEF GoneRead, Current, Recorded
      <4>3. Left BY <2>1, <4>1, <4>2 DEF LossLeft
      <4>4. ~(watch.hellos > ka.seen) BY ONLY <1>0, <4>1
      <4> QED BY <4>3, <4>4 DEF Left
    <3> QED BY <1>1, <3>1, <3>2, <3>3 DEF LossLeft
  <2> QED BY <2>2, <2>4, <2>5, <2>6, <2>7 DEF ReadingsGood
<1> QED BY <1>1, <1>5, <1>6, <1>8

-----------------------------------------------------------------------------
\* On to another place, the readings of the ring are kept.
LEMMA ToRing ==
  ASSUME ka \in Keepalive, NEW pc \in Pcs \ {"top"}
  PROVE  /\ To(pc) \in Keepalive /\ To(pc).pc = pc /\ To(pc).wait = "unasked"
         /\ To(pc).cause = ka.cause /\ To(pc).seen = ka.seen /\ To(pc).before = ka.before
         /\ To(pc).ring = ka.ring /\ To(pc).ringSeen = ka.ringSeen
<1>1. To(pc).ring = ka.ring /\ To(pc).ringSeen = ka.ringSeen BY DEF To, Keepalive
<1> QED BY <1>1, ToFields

\* Nothing asked, nothing read.
LEMMA NothingRead ==
  ASSUME OneAnswer', ka'.pc \in Asking, ka'.wait = "unasked"
  PROVE  \A holds \in BOOLEAN : ~Read(holds)'
<1>1. \A i \in DOMAIN heard' : ~heard'[i].live BY DEF OneAnswer
<1>2. ka'.pc \notin Reading BY DEF Asking, Reading
<1> QED BY <1>1, <1>2 DEF Read

LEMMA TickReadsOn ==
  ASSUME ClipInv, LossInv', RingSeen \/ RingRead \/ RingChecked, ka'.pc # "tickLock"
  PROVE  ReadsOn
<1>0. ka \in Keepalive /\ OneAnswer /\ OneAnswer' BY DEF ClipInv, LossInv, GhostInv, TypeOK
<1>1. To("tickLock").pc = "tickLock" BY <1>0, ToRing DEF Pcs
<1>2. CASE RingSeen
  <2>1. ka' = [To("ringClip") EXCEPT !.ringSeen = clip.gen, !.seen = watch.hellos]
    BY <1>1, <1>2 DEF RingSeen
  <2>2. To("ringClip") \in Keepalive /\ To("ringClip").pc = "ringClip"
        /\ To("ringClip").wait = "unasked" /\ To("ringClip").cause = ka.cause
    BY <1>0, ToRing DEF Pcs, Asks
  <2>3. /\ ka'.pc = "ringClip" /\ ka'.wait = "unasked" /\ ka'.cause = ka.cause
        /\ ka'.ringSeen = clip.gen /\ ka'.seen = watch.hellos
    BY ONLY <2>1, <2>2 DEF Keepalive
  <2>4. \A holds \in BOOLEAN : ~Read(holds)' BY <1>0, <2>3, NothingRead DEF Asking
  <2>5. KeepaliveOnly /\ ka.pc = "ringSeen" BY <1>2 DEF RingSeen, At
  <2>6. ka.wait # "asked" BY <1>0, <2>5 DEF OneAnswer, Asks
  <2> QED BY <2>3, <2>4, <2>5, <2>6 DEF ReadsOn
<1>3. CASE RingRead
  <2>1. /\ ka.wait = "got"
        /\ ka' = [To("ringStats") EXCEPT !.ring = IF ka.got.ring THEN "holds" ELSE "empty"]
    BY <1>1, <1>3 DEF RingRead, Answered
  <2>2. /\ To("ringStats") \in Keepalive /\ To("ringStats").pc = "ringStats"
        /\ To("ringStats").wait = "unasked" /\ To("ringStats").cause = ka.cause
        /\ To("ringStats").seen = ka.seen /\ To("ringStats").ringSeen = ka.ringSeen
    BY <1>0, ToRing DEF Pcs, Asks
  <2>3. /\ ka'.pc = "ringStats" /\ ka'.wait = "unasked" /\ ka'.cause = ka.cause
        /\ ka'.seen = ka.seen /\ ka'.ringSeen = ka.ringSeen
        /\ ka'.ring = IF ka.got.ring THEN "holds" ELSE "empty"
    BY ONLY <2>1, <2>2 DEF Keepalive
  <2>4. KeepaliveOnly /\ ka.pc = "ringClip" BY <1>3 DEF RingRead, Back
  <2>5. ka.got.ring \in BOOLEAN BY <1>0 DEF Keepalive, Heard
  <2>6. \A holds \in BOOLEAN : Read(holds)' => Read(holds)
    BY ONLY <2>1, <2>3, <2>4, <2>5 DEF Read, Asking, Reading
  <2> QED BY <2>1, <2>3, <2>4, <2>6 DEF ReadsOn
<1>4. CASE RingChecked
  <2>1. /\ ka.wait = "got" /\ watch.hellos = ka.seen /\ watch.session = ka.got.session
        /\ ka' = To("ringNote")
    BY <1>1, <1>4 DEF RingChecked, Answered
  <2>2. /\ ka'.pc = "ringNote" /\ ka'.wait = "unasked" /\ ka'.cause = ka.cause
        /\ ka'.seen = ka.seen /\ ka'.ringSeen = ka.ringSeen /\ ka'.ring = ka.ring
    BY <1>0, <2>1, ToRing DEF Pcs
  <2>3. KeepaliveOnly /\ ka.pc = "ringStats" BY <1>4 DEF RingChecked, Back
  <2>4. \A holds \in BOOLEAN : Read(holds)' => Read(holds)
    BY ONLY <2>2, <2>3 DEF Read, Asking, Reading
  <2> QED BY <2>1, <2>2, <2>3, <2>4 DEF ReadsOn
<1> QED BY <1>2, <1>3, <1>4

LEMMA RecoveryReadsOn ==
  ASSUME ClipInv, LossInv', GenSeen \/ RingReread \/ Settle, ka'.pc # "top"
  PROVE  ReadsOn
<1>0. ka \in Keepalive /\ OneAnswer /\ OneAnswer' BY DEF ClipInv, LossInv, GhostInv, TypeOK
<1>1. To("top") \in Keepalive /\ To("top").pc = "top" BY <1>0, ToFields DEF Pcs
<1>2. CASE GenSeen
  <2>1. ka' = [To("clip") EXCEPT !.ringSeen = clip.gen] BY <1>2 DEF GenSeen
  <2>2. /\ To("clip") \in Keepalive /\ To("clip").pc = "clip" /\ To("clip").wait = "unasked"
        /\ To("clip").cause = ka.cause /\ To("clip").seen = ka.seen /\ To("clip").before = ka.before
    BY <1>0, ToRing DEF Pcs, Asks
  <2>3. /\ ka'.pc = "clip" /\ ka'.wait = "unasked" /\ ka'.cause = ka.cause
        /\ ka'.ringSeen = clip.gen /\ ka'.seen = ka.seen /\ ka'.before = ka.before
    BY ONLY <2>1, <2>2 DEF Keepalive
  <2>4. \A holds \in BOOLEAN : ~Read(holds)' BY <1>0, <2>3, NothingRead DEF Asking
  <2>5. KeepaliveOnly /\ ka.pc = "reseen" BY <1>2 DEF GenSeen, At
  <2>6. ka.wait # "asked" BY <1>0, <2>5 DEF OneAnswer, Asks
  <2> QED BY <2>3, <2>4, <2>5, <2>6 DEF ReadsOn
<1>3. CASE RingReread
  <2> DEFINE ring == IF ~Answered THEN "unread" ELSE IF ka.got.ring THEN "holds" ELSE "empty"
  <2>0. KeepaliveOnly /\ ka.pc = "clip" /\ ka.wait # "asked" BY <1>3 DEF RingReread, Back
  <2>1. ka' = [To(IF ka.up THEN "stats2" ELSE "top") EXCEPT !.up = FALSE, !.ring = ring]
    BY <1>3 DEF RingReread
  <2>2. ka.up
    <3> SUFFICES ASSUME ~ka.up PROVE FALSE OBVIOUS
    <3>1. ka' = [To("top") EXCEPT !.up = FALSE, !.ring = ring] BY <2>1
    <3>2. ka'.pc = "top" BY ONLY <1>1, <3>1 DEF Keepalive
    <3> QED BY <3>2
  <2>3. /\ To("stats2") \in Keepalive /\ To("stats2").pc = "stats2" /\ To("stats2").wait = "unasked"
        /\ To("stats2").cause = ka.cause /\ To("stats2").seen = ka.seen
        /\ To("stats2").before = ka.before /\ To("stats2").ringSeen = ka.ringSeen
    BY <1>0, ToRing DEF Pcs, Asks
  <2>4. ka' = [To("stats2") EXCEPT !.up = FALSE, !.ring = ring] BY <2>1, <2>2
  <2>5. /\ ka'.pc = "stats2" /\ ka'.wait = "unasked" /\ ka'.cause = ka.cause
        /\ ka'.seen = ka.seen /\ ka'.before = ka.before /\ ka'.ringSeen = ka.ringSeen
        /\ ka'.ring = ring
    BY ONLY <2>3, <2>4 DEF Keepalive
  <2>6. ka.got.ring \in BOOLEAN BY <1>0 DEF Keepalive, Heard
  <2>7. \A holds \in BOOLEAN : Read(holds)' => Read(holds)
    BY ONLY <2>0, <2>5, <2>6 DEF Read, Asking, Reading, Answered
  <2> QED BY <2>0, <2>5, <2>7 DEF ReadsOn
<1>4. CASE Settle
  <2>0. KeepaliveOnly /\ ka.pc = "stats2" /\ ka.wait # "asked" BY <1>4 DEF Settle, Back
  <2>1. ka' = To("noteRing") BY <1>1, <1>4 DEF Settle
  <2>2. /\ ka'.pc = "noteRing" /\ ka'.wait = "unasked" /\ ka'.cause = ka.cause /\ ka'.ring = ka.ring
        /\ ka'.seen = ka.seen /\ ka'.before = ka.before /\ ka'.ringSeen = ka.ringSeen
    BY <1>0, <2>1, ToRing DEF Pcs
  <2>3. \A holds \in BOOLEAN : Read(holds)' => Read(holds)
    BY ONLY <2>0, <2>2 DEF Read, Asking, Reading
  <2> QED BY <2>0, <2>2, <2>3 DEF ReadsOn
<1> QED BY <1>2, <1>3, <1>4

\* What a reading noted makes of the record.
LEMMA NoteFields ==
  ASSUME clip \in Clip, NEW seen, NEW holds \in BOOLEAN, NEW released \in BOOLEAN
  PROVE  /\ seen # clip.gen => Note(clip, seen, holds, released) = clip
         /\ seen = clip.gen =>
              /\ Note(clip, seen, holds, released).ring = holds
              /\ Note(clip, seen, holds, released).lost = (clip.lost \/ (released /\ clip.ring /\ ~holds))
              /\ Note(clip, seen, holds, released).loaded
                   = (clip.loaded /\ ~(released /\ clip.ring /\ ~holds))
<1>1. clip.ring \in BOOLEAN /\ clip.lost \in BOOLEAN /\ clip.loaded \in BOOLEAN BY DEF Clip
<1>2. CASE seen # clip.gen BY <1>2 DEF Note
<1>3. CASE seen = clip.gen
  <2>1. Note(clip, seen, holds, released)
          = [clip EXCEPT !.ring = holds,
                         !.lost = clip.lost \/ (released /\ clip.ring /\ ~holds),
                         !.loaded = clip.loaded /\ ~(released /\ clip.ring /\ ~holds)]
    BY <1>3 DEF Note
  <2> QED BY <1>1, <1>3, <2>1 DEF Clip
<1> QED BY <1>2, <1>3

\* A tick's reading that empties the record of a clip dropped comes of a recovery still to come.
LEMMA RingNoteKeeps ==
  ASSUME ClipInv, RingNote
  PROVE  RingKept' /\ TickReads' /\ (~blurred' => ReadingsGood')
<1>0. /\ ka \in Keepalive /\ clip \in Clip /\ RingKept /\ TickReads
      /\ clip.ring \in BOOLEAN /\ clip.loaded \in BOOLEAN /\ clip.lost \in BOOLEAN
  BY DEF ClipInv, LossInv, GhostInv, TypeOK, Clip
<1>1. /\ ka.pc = "ringNote" /\ UNCHANGED <<box, heard, watch, lock, fate>>
      /\ clip' = Note(clip, ka.ringSeen, ka.ring = "holds", FALSE)
      /\ blurred' = (blurred \/ EmptiedEarly(clip'))
  BY DEF RingNote, At
<1>2. ka'.pc = "tickLock" /\ ka'.cause = ka.cause
  <2>1. /\ To("tickLock") \in Keepalive /\ To("tickLock").pc = "tickLock"
        /\ To("tickLock").cause = ka.cause
    BY <1>0, ToRing DEF Pcs
  <2> QED BY <2>1 DEF RingNote, Keepalive
<1>3. ka.ring = "holds" \/ ka.ring = "empty" BY <1>0, <1>1 DEF TickReads, Keepalive
<1>4. /\ ka.ringSeen # clip.gen => clip' = clip
      /\ ka.ringSeen = clip.gen => clip'.ring = (ka.ring = "holds")
      /\ clip'.loaded = clip.loaded /\ clip'.lost = clip.lost
  <2>1. (ka.ring = "holds") \in BOOLEAN OBVIOUS
  <2> QED BY <1>0, <1>1, <2>1, NoteFields
<1>5. Read(ka.ring = "holds")
  <2>1. "ringNote" \in Reading BY DEF Reading
  <2> QED BY <1>1, <1>3, <2>1 DEF Read
<1>6. (Recorded' <=> Recorded) /\ (Unreported' <=> Unreported)
  BY <1>1, <1>4 DEF Recorded, Unreported
<1>7. RingKept' BY <1>0, <1>1, <1>4 DEF RingKept
<1>8. TickReads' BY <1>2 DEF TickReads
<1>9. ASSUME ~blurred'
      PROVE  ReadingsGood'
  <2>0. ~blurred /\ ~EmptiedEarly(clip') BY <1>1, <1>9
  <2>1. KeptIsRecorded /\ ReadingTrue /\ LossPending /\ LossFound /\ LossLeft
    BY <2>0 DEF ClipInv, ReadingsGood
  <2>2. KeptIsRecorded'
    <3> SUFFICES ASSUME Recorded, fate = "kept"
                 PROVE  clip'.loaded = box.ring /\ clip'.ring = box.ring /\ ~clip'.lost
      BY <1>1, <1>6 DEF KeptIsRecorded
    <3>1. clip.loaded = box.ring /\ clip.ring = box.ring /\ ~clip.lost BY <2>1 DEF KeptIsRecorded
    <3>2. ka.ringSeen = clip.gen => clip'.ring = box.ring
      <4> SUFFICES ASSUME ka.ringSeen = clip.gen PROVE box.ring = (ka.ring = "holds") BY <1>4
      <4>1. ReadingRing /\ Current BY <1>1 DEF ReadingRing, Current
      <4> QED BY <1>5, <2>1, <4>1 DEF ReadingTrue
    <3> QED BY <1>4, <3>1, <3>2
  <2>3. ReadingTrue' BY <1>2 DEF ReadingTrue, ReadingRing
  <2>4. LossPending'
    <3>1. Sign => Sign' BY <1>1, <1>2 DEF Sign, Due, HelloToCome
    <3>2. ASSUME Unreported, Recorded PROVE clip'.loaded /\ clip'.ring
      <4>1. clip.loaded /\ clip.ring BY <2>1, <3>2 DEF LossPending
      <4>2. ASSUME ka.ringSeen = clip.gen, ka.ring = "empty" PROVE FALSE
        <5>1. Current BY <3>2, <4>2 DEF Current
        <5>2. Read(FALSE) BY <1>1, <4>2 DEF Read, Reading
        <5>3. watch.owed \/ ka.cause # "none" BY <1>1, <2>1, <3>2, <5>1, <5>2 DEF LossLeft, GoneRead
        <5>4. ~clip'.ring BY <1>4, <4>2
        <5> QED BY <2>0, <4>1, <5>3, <5>4 DEF EmptiedEarly
      <4> QED BY <1>3, <1>4, <4>1, <4>2
    <3> QED BY <1>6, <2>1, <3>1, <3>2 DEF LossPending
  <2>5. LossFound' BY <1>2 DEF LossFound, PastResend
  <2>6. LossLeft' BY <1>2 DEF LossLeft
  <2> QED BY <2>2, <2>3, <2>4, <2>5, <2>6 DEF ReadingsGood
<1> QED BY <1>7, <1>8, <1>9

\* A recovery reports what it finds gone, unless it was dropped since.
LEMMA NoteRingKeeps ==
  ASSUME ClipInv, NoteRing
  PROVE  RingKept' /\ TickReads' /\ (~blurred' => ReadingsGood')
<1>0. /\ LossInv /\ ka \in Keepalive /\ clip \in Clip /\ RingKept /\ TickReads
      /\ clip.ring \in BOOLEAN /\ clip.loaded \in BOOLEAN /\ clip.lost \in BOOLEAN
      /\ box.ring \in BOOLEAN
  BY DEF ClipInv, LossInv, GhostInv, TypeOK, Clip, Box
<1>1. /\ ka.pc = "noteRing" /\ UNCHANGED <<box, heard, watch, lock, fate>>
      /\ clip' = IF ka.ring = "unread" THEN clip
                 ELSE Note(clip, ka.ringSeen, ka.ring = "holds", TRUE)
      /\ blurred' = (blurred \/ (clip.ring /\ ka.ring = "unread"))
  BY DEF NoteRing, At
<1>2. /\ ka'.pc = "noteSession" /\ ka'.cause = ka.cause /\ ka'.seen = ka.seen
      /\ ka'.before = ka.before
  <2>1. /\ To("noteSession") \in Keepalive /\ To("noteSession").pc = "noteSession"
        /\ To("noteSession").cause = ka.cause /\ To("noteSession").seen = ka.seen
        /\ To("noteSession").before = ka.before
    BY <1>0, ToRing DEF Pcs
  <2> QED BY <2>1 DEF NoteRing, Keepalive
<1>3. ka.ring \in {"unread", "holds", "empty"} BY <1>0 DEF Keepalive
<1>4. \/ clip' = clip /\ (ka.ring = "unread" \/ ka.ringSeen # clip.gen)
      \/ ka.ring = "holds" /\ ka.ringSeen = clip.gen /\ clip'.ring = TRUE /\ clip'.lost = clip.lost
           /\ clip'.loaded = clip.loaded
      \/ ka.ring = "empty" /\ ka.ringSeen = clip.gen /\ clip'.ring = FALSE
           /\ clip'.lost = (clip.lost \/ clip.ring) /\ clip'.loaded = (clip.loaded /\ ~clip.ring)
  <2>1. CASE ka.ring = "unread" BY <1>1, <2>1
  <2>2. CASE ka.ring = "holds"
    <3>1. clip' = Note(clip, ka.ringSeen, TRUE, TRUE) BY <1>1, <2>2
    <3> QED BY <1>0, <2>2, <3>1, NoteFields
  <2>3. CASE ka.ring = "empty"
    <3>1. clip' = Note(clip, ka.ringSeen, FALSE, TRUE) BY <1>1, <2>3
    <3> QED BY <1>0, <2>3, <3>1, NoteFields
  <2> QED BY <1>3, <2>1, <2>2, <2>3
<1>5. Recorded' <=> Recorded BY <1>1 DEF Recorded
<1>6. RingKept' BY ONLY <1>0, <1>1, <1>4 DEF RingKept
<1>7. TickReads' BY <1>2 DEF TickReads
<1>8. ASSUME ~blurred'
      PROVE  ReadingsGood'
  <2>0. ~blurred /\ ~(clip.ring /\ ka.ring = "unread") BY <1>1, <1>8
  <2>1. KeptIsRecorded /\ ReadingTrue /\ LossPending /\ LossFound /\ LossLeft
    BY <2>0 DEF ClipInv, ReadingsGood
  <2>2. Read(TRUE) <=> ka.ring = "holds" BY <1>1 DEF Read, Reading, Asking
  <2>3. Read(FALSE) <=> ka.ring = "empty" BY <1>1 DEF Read, Reading, Asking
  <2>4. KeptIsRecorded'
    <3> SUFFICES ASSUME Recorded, fate = "kept"
                 PROVE  clip'.loaded = box.ring /\ clip'.ring = box.ring /\ ~clip'.lost
      BY <1>1, <1>5 DEF KeptIsRecorded
    <3>1. clip.loaded = box.ring /\ clip.ring = box.ring /\ ~clip.lost BY <2>1 DEF KeptIsRecorded
    <3>2. ka.ringSeen = clip.gen =>
            (ka.ring = "holds" => box.ring = TRUE) /\ (ka.ring = "empty" => box.ring = FALSE)
      <4> SUFFICES ASSUME ka.ringSeen = clip.gen
                   PROVE  (ka.ring = "holds" => box.ring = TRUE) /\ (ka.ring = "empty" => box.ring = FALSE)
        OBVIOUS
      <4>1. ReadingRing /\ Current BY <1>1 DEF ReadingRing, Current
      <4>2. \A holds \in BOOLEAN : Read(holds) => box.ring = holds BY <2>1, <4>1 DEF ReadingTrue
      <4> QED BY <2>2, <2>3, <4>2
    <3> QED BY ONLY <1>0, <1>4, <3>1, <3>2
  <2>5. ReadingTrue' BY <1>2 DEF ReadingTrue, ReadingRing
  <2>6. Unreported' => Disturbed
    <3> SUFFICES ASSUME Unreported', Recorded, ~Disturbed PROVE FALSE
      <4>1. Unreported' /\ ~Recorded => Unreported BY <1>1, <1>5 DEF Unreported
      <4> QED BY <1>1, <2>1, <4>1 DEF LossFound, PastResend
    <3>1. fate = "dropped" /\ ~clip'.lost BY <1>1, <1>5 DEF Unreported
    <3>2. ~clip.lost BY ONLY <1>0, <1>4, <3>1
    <3>3. Unreported BY <3>1, <3>2 DEF Unreported
    <3>4. Current /\ ka.ring # "holds" /\ clip.ring
      BY <1>1, <2>1, <2>2, <3>3 DEF LossFound, LossPending
    <3>5. ka.ring = "empty" BY <1>3, <2>0, <3>4
    <3> QED BY <1>0, <1>4, <3>1, <3>4, <3>5 DEF Current
  <2>7. Disturbed => Disturbed' BY <1>1, <1>2 DEF Disturbed, Again, HelloToCome
  <2>8. LossPending'
    <3>1. Sign'
      <4>1. ka.cause # "none" BY <1>0, <1>1 DEF LossInv, Watched, InRecovery, PastResend
      <4> QED BY <1>2, <4>1 DEF Sign, Due
    <3>2. ASSUME Unreported', Recorded PROVE clip'.loaded /\ clip'.ring
      <4>1. fate = "dropped" /\ ~clip'.lost BY <1>1, <1>5, <3>2 DEF Unreported
      <4>2. ~clip.lost BY ONLY <1>0, <1>4, <4>1
      <4>3. clip.loaded /\ clip.ring BY <2>1, <3>2, <4>1, <4>2 DEF LossPending, Unreported
      <4> QED BY ONLY <1>0, <1>4, <4>1, <4>3
    <3> QED BY <1>5, <3>1, <3>2 DEF LossPending
  <2>9. LossFound' BY <1>2, <2>6, <2>7 DEF LossFound
  <2>10. LossLeft' BY <1>2 DEF LossLeft
  <2> QED BY <2>4, <2>5, <2>8, <2>9, <2>10 DEF ReadingsGood
<1> QED BY <1>6, <1>7, <1>8


-----------------------------------------------------------------------------
(* Every step keeps it.                                                     *)

\* The steps of the loop that neither read the ring nor note a reading.
LEMMA LoopElse ==
  ASSUME LossInv,
         \/ Top \/ LookAround \/ SessionRead \/ BeginRelease \/ TickLock
         \/ TickSend /\ ka.todo = {}
         \/ (RingSeen \/ RingRead \/ RingChecked) /\ ka'.pc = "tickLock"
  PROVE  /\ UNCHANGED <<clip, fate, blurred>> /\ ~ReadingRing'
         /\ lock' = lock \/ {lock, lock'} \subseteq {"free", "keepalive"}
<1>0. ka \in Keepalive /\ OnlyTheDesired BY DEF LossInv, GhostInv, TypeOK
<1>1. \A pc \in Pcs : To(pc) \in Keepalive /\ To(pc).pc = pc BY <1>0, ToFields
<1>2. {"top", "sess", "ringSeen", "begin", "tickSend"} \subseteq Pcs BY DEF Pcs, Asks
<1>3. CASE Top
  <2>1. UNCHANGED <<clip, lock, fate, blurred>> BY <1>3 DEF Top
  <2>2. ka'.pc \in {"caps", "idle"} BY <1>0, <1>3 DEF Top, Keepalive
  <2> QED BY <2>1, <2>2 DEF ReadingRing
<1>4. CASE LookAround
  <2>1. UNCHANGED <<clip, lock, fate, blurred>> BY <1>4 DEF LookAround, KeepaliveOnly
  <2>2. PICK p \in {"top", "sess", "ringSeen"}, tick \in BOOLEAN : ka' = [To(p) EXCEPT !.tick = tick]
    BY <1>4 DEF LookAround
  <2>3. ka'.pc = p BY ONLY <1>1, <1>2, <2>2 DEF Keepalive
  <2> QED BY <2>1, <2>3 DEF ReadingRing
<1>5. CASE SessionRead
  <2>1. UNCHANGED <<clip, lock, fate, blurred>> BY <1>5 DEF SessionRead
  <2>2. PICK p \in {"top", "begin", "ringSeen"} : ka' = To(p) BY <1>5 DEF SessionRead
  <2>3. ka'.pc = p BY ONLY <1>1, <1>2, <2>2
  <2> QED BY <2>1, <2>3 DEF ReadingRing
<1>6. CASE BeginRelease
  <2>1. UNCHANGED <<clip, lock, fate, blurred>> BY <1>6 DEF BeginRelease
  <2>2. ka' = [To("top") EXCEPT !.cause = "Released"] BY <1>6 DEF BeginRelease
  <2>3. ka'.pc = "top" BY ONLY <1>1, <1>2, <2>2 DEF Keepalive
  <2> QED BY <2>1, <2>3 DEF ReadingRing
<1>7. CASE TickLock
  <2>1. UNCHANGED <<clip, fate, blurred>> /\ lock = "free" /\ lock' = "keepalive"
    BY <1>7 DEF TickLock
  <2>2. ka' = [To("tickSend") EXCEPT !.todo = desired \cap TickKeys] BY <1>7 DEF TickLock
  <2>3. ka'.pc = "tickSend" BY ONLY <1>1, <1>2, <2>2 DEF Keepalive
  <2> QED BY <2>1, <2>3 DEF ReadingRing
<1>8. CASE TickSend /\ ka.todo = {}
  <2>1. UNCHANGED <<clip, fate, blurred>> /\ lock' = "free" /\ ka' = To("top") /\ ka.pc = "tickSend"
    BY <1>8 DEF TickSend, SendNext, At
  <2>2. ka'.pc = "top" BY ONLY <1>1, <1>2, <2>1
  <2>3. lock = "keepalive" BY <1>0, <2>1 DEF OnlyTheDesired
  <2> QED BY <2>1, <2>2, <2>3 DEF ReadingRing
<1>9. CASE (RingSeen \/ RingRead \/ RingChecked) /\ ka'.pc = "tickLock"
  <2>1. UNCHANGED <<clip, lock, fate, blurred>>
    BY <1>9 DEF RingSeen, RingRead, RingChecked, KeepaliveOnly
  <2> QED BY <1>9, <2>1 DEF ReadingRing
<1> QED BY <1>3, <1>4, <1>5, <1>6, <1>7, <1>8, <1>9

\* The same of a recovery's steps.
LEMMA RecoveryElse ==
  ASSUME LossInv,
         \/ CloneChecked \/ HellosSeen \/ BeforeRead \/ Relock \/ ResendFails \/ CloneRechecked
         \/ NoteSession \/ Count \/ Finish
         \/ Resend /\ ka.todo = {}
         \/ (GenSeen \/ RingReread \/ Settle) /\ ka'.pc = "top"
  PROVE  /\ UNCHANGED <<clip, fate, blurred>> /\ ~ReadingRing'
         /\ lock' = lock \/ {lock, lock'} \subseteq {"free", "keepalive"}
         /\ ka.pc \notin {"noteRing", "tickSend"} /\ (ka.pc = "resend" => lock = "keepalive")
<1>0. ka \in Keepalive /\ OnlyTheDesired BY DEF LossInv, GhostInv, TypeOK
<1>1. \A pc \in Pcs : To(pc) \in Keepalive /\ To(pc).pc = pc BY <1>0, ToFields
<1>2. {"top", "seen", "stats", "relock", "resend", "caps2", "reseen", "count", "finish"} \subseteq Pcs
  BY DEF Pcs, Asks
<1>3. ka.pc = "resend" => lock = "keepalive" BY <1>0 DEF OnlyTheDesired
<1>4. ka.pc \notin {"noteRing", "tickSend"}
  BY DEF CloneChecked, HellosSeen, BeforeRead, Relock, ResendFails, CloneRechecked, NoteSession, Count,
         Finish, Resend, GenSeen, RingReread, Settle, At, Back
<1>5. ASSUME UNCHANGED <<clip, lock, fate, blurred>>, NEW p \in Pcs,
             p \notin {"ringClip", "ringStats", "ringNote", "clip", "stats2", "noteRing"}, ka'.pc = p
      PROVE  /\ UNCHANGED <<clip, fate, blurred>> /\ ~ReadingRing'
             /\ lock' = lock \/ {lock, lock'} \subseteq {"free", "keepalive"}
  BY <1>5 DEF ReadingRing
<1>6. CASE CloneChecked
  <2>1. UNCHANGED <<clip, lock, fate, blurred>> BY <1>6 DEF CloneChecked, KeepaliveOnly
  <2>2. ka' = To("seen") \/ ka' = To("top") BY <1>6 DEF CloneChecked
  <2>3. ka'.pc = "seen" \/ ka'.pc = "top" BY ONLY <1>1, <1>2, <2>2
  <2> QED BY <1>2, <1>3, <1>4, <1>5, <2>1, <2>3
<1>7. CASE HellosSeen
  <2>1. UNCHANGED <<clip, lock, fate, blurred>> BY <1>7 DEF HellosSeen, KeepaliveOnly
  <2>2. ka' = [To("stats") EXCEPT !.seen = watch.hellos] BY <1>7 DEF HellosSeen
  <2>3. ka'.pc = "stats" BY ONLY <1>1, <1>2, <2>2 DEF Keepalive
  <2> QED BY <1>2, <1>3, <1>4, <1>5, <2>1, <2>3
<1>8. CASE BeforeRead
  <2>1. UNCHANGED <<clip, lock, fate, blurred>> BY <1>8 DEF BeforeRead, KeepaliveOnly
  <2>2. ka' = [To("relock") EXCEPT !.before = ka.got.session] \/ ka' = To("top")
    BY <1>8 DEF BeforeRead
  <2>3. ka'.pc = "relock" \/ ka'.pc = "top" BY ONLY <1>1, <1>2, <2>2 DEF Keepalive
  <2> QED BY <1>2, <1>3, <1>4, <1>5, <2>1, <2>3
<1>9. CASE Relock
  <2>1. UNCHANGED <<clip, fate, blurred>> /\ lock = "free" /\ lock' = "keepalive" BY <1>9 DEF Relock
  <2>2. ka' = [To("resend") EXCEPT !.todo = desired] BY <1>9 DEF Relock
  <2>3. ka'.pc = "resend" BY ONLY <1>1, <1>2, <2>2 DEF Keepalive
  <2> QED BY <1>3, <1>4, <2>1, <2>3 DEF ReadingRing
<1>10. CASE ResendFails \/ (Resend /\ ka.todo = {})
  <2>1. UNCHANGED <<clip, fate, blurred>> /\ lock' = "free" /\ (ka' = To("top") \/ ka' = To("caps2"))
    BY <1>10 DEF ResendFails, Resend, SendNext
  <2>2. ka'.pc = "top" \/ ka'.pc = "caps2" BY ONLY <1>1, <1>2, <2>1
  <2>3. lock = "keepalive" BY <1>3, <1>10 DEF ResendFails, Resend, At
  <2> QED BY <1>3, <1>4, <2>1, <2>2, <2>3 DEF ReadingRing
<1>11. CASE CloneRechecked
  <2>1. UNCHANGED <<clip, lock, fate, blurred>> BY <1>11 DEF CloneRechecked, KeepaliveOnly
  <2>2. ka' = [To("reseen") EXCEPT !.up = Answered /\ ka.got.up] BY <1>11 DEF CloneRechecked
  <2>3. ka'.pc = "reseen" BY ONLY <1>1, <1>2, <2>2 DEF Keepalive
  <2> QED BY <1>2, <1>3, <1>4, <1>5, <2>1, <2>3
<1>12. CASE NoteSession \/ Count
  <2>1. UNCHANGED <<clip, lock, fate, blurred>> /\ (ka' = To("count") \/ ka' = To("finish"))
    BY <1>12 DEF NoteSession, Count
  <2>2. ka'.pc = "count" \/ ka'.pc = "finish" BY ONLY <1>1, <1>2, <2>1
  <2> QED BY <1>2, <1>3, <1>4, <1>5, <2>1, <2>2
<1>13. CASE Finish
  <2>1. UNCHANGED <<clip, lock, fate, blurred>> BY <1>13 DEF Finish
  <2>2. ka' = [To("top") EXCEPT !.cause = "none"] \/ ka' = [To("top") EXCEPT !.cause = "Restart"]
    BY <1>13 DEF Finish
  <2>3. ka'.pc = "top" BY ONLY <1>1, <1>2, <2>2 DEF Keepalive
  <2> QED BY <1>2, <1>3, <1>4, <1>5, <2>1, <2>3
<1>14. CASE (GenSeen \/ RingReread \/ Settle) /\ ka'.pc = "top"
  <2>1. UNCHANGED <<clip, lock, fate, blurred>>
    BY <1>14 DEF GenSeen, RingReread, Settle, KeepaliveOnly
  <2> QED BY <1>2, <1>3, <1>4, <1>5, <1>14, <2>1
<1> QED BY <1>6, <1>7, <1>8, <1>9, <1>10, <1>11, <1>12, <1>13, <1>14

\* A frame of a re-send.
LEMMA SendKeepsClip ==
  ASSUME ClipInv, TypeOK', NEW after \in {"top", "caps2"}, SendNext(after), ka.todo # {},
         UNCHANGED <<watch, clip, fate, blurred>>
  PROVE  RingKept' /\ TickReads' /\ (~blurred' => ReadingsGood')
<1>0. ka \in Keepalive BY DEF ClipInv, LossInv, GhostInv, TypeOK
<1>1. PICK k \in ka.todo : /\ ka' = [ka EXCEPT !.todo = ka.todo \ {k}]
                           /\ box' = WithKey(Commanded(box), k) /\ heard' = heard \o Greeting(box)
                           /\ UNCHANGED lock
  BY DEF SendNext
<1>2. k \in Keys BY <1>0 DEF Keepalive
<1>3. Meanwhile /\ Longer /\ RingMoves BY <1>1, <1>2, KeyMoves
<1>4. ClipAlone BY <1>0, <1>1 DEF ClipAlone, ReadingsKept, Keepalive
<1> QED BY <1>3, <1>4, ClipAloneKeeps

LEMMA LoopStepKeepsClip ==
  ASSUME ClipInv, LossInv', LoopStep
  PROVE  RingKept' /\ TickReads' /\ (~blurred' => ReadingsGood')
<1>0. LossInv /\ TypeOK /\ TypeOK' /\ OneAnswer BY DEF ClipInv, LossInv, GhostInv
<1>1. CASE TickSend /\ ka.todo # {} BY <1>0, <1>1, SendKeepsClip DEF TickSend
<1>2. CASE RingNote BY <1>2, RingNoteKeeps
<1>3. CASE (RingSeen \/ RingRead \/ RingChecked) /\ ka'.pc # "tickLock"
  BY <1>0, <1>3, TickReadsOn, ReadsOnKeeps
<1>4. CASE \/ Top \/ LookAround \/ SessionRead \/ BeginRelease \/ TickLock
           \/ TickSend /\ ka.todo = {}
           \/ (RingSeen \/ RingRead \/ RingChecked) /\ ka'.pc = "tickLock"
  <2>1. ka.pc = "tickSend" => ka.todo = {}
    BY <1>4 DEF Top, LookAround, SessionRead, BeginRelease, RingSeen, RingRead, RingChecked, TickLock,
                At, Back
  <2>2. NothingSent /\ (TopDoes \/ LoopOn \/ BeginDoes) BY <1>0, <2>1, LoopDoes
  <2>3. /\ UNCHANGED <<clip, fate, blurred>> /\ ~ReadingRing'
        /\ lock' = lock \/ {lock, lock'} \subseteq {"free", "keepalive"}
    BY <1>0, <1>4, LoopElse
  <2> QED BY <2>2, <2>3, LoopKeepsClip
<1> QED BY <1>1, <1>2, <1>3, <1>4 DEF LoopStep

LEMMA RecoveryStepKeepsClip ==
  ASSUME ClipInv, LossInv', RecoveryStep
  PROVE  RingKept' /\ TickReads' /\ (~blurred' => ReadingsGood')
<1>0. LossInv /\ TypeOK /\ TypeOK' /\ OneAnswer BY DEF ClipInv, LossInv, GhostInv
<1>1. CASE Resend /\ ka.todo # {} BY <1>0, <1>1, SendKeepsClip DEF Resend
<1>2. CASE NoteRing BY <1>2, NoteRingKeeps
<1>3. CASE (GenSeen \/ RingReread \/ Settle) /\ ka'.pc # "top"
  BY <1>0, <1>3, RecoveryReadsOn, ReadsOnKeeps
<1>4. CASE \/ CloneChecked \/ HellosSeen \/ BeforeRead \/ Relock \/ ResendFails \/ CloneRechecked
           \/ NoteSession \/ Count \/ Finish
           \/ Resend /\ ka.todo = {}
           \/ (GenSeen \/ RingReread \/ Settle) /\ ka'.pc = "top"
  <2>1. ka.pc = "resend" => ka.todo = {} \/ ka'.pc # "resend"
    <3>1. ResendFails => ka'.pc = "top"
      <4>1. To("top").pc = "top" BY <1>0, ToFields DEF TypeOK, Pcs
      <4> QED BY <4>1 DEF ResendFails
    <3> QED BY <1>4, <3>1 DEF CloneChecked, HellosSeen, BeforeRead, Relock, CloneRechecked, NoteSession,
               Count, Finish, GenSeen, RingReread, Settle, At, Back
  <2>2. NothingSent /\ (StepBack \/ (FlagsKept /\ (ReadingOn \/ SendingOn)) \/ Ends)
    BY <1>0, <2>1, RecoveryDoes
  <2>3. /\ UNCHANGED <<clip, fate, blurred>> /\ ~ReadingRing'
        /\ lock' = lock \/ {lock, lock'} \subseteq {"free", "keepalive"}
        /\ ka.pc \notin {"noteRing", "tickSend"} /\ (ka.pc = "resend" => lock = "keepalive")
    BY <1>0, <1>4, RecoveryElse
  <2> QED BY <2>2, <2>3, RecoveryKeepsClip
<1> QED BY <1>1, <1>2, <1>3, <1>4 DEF RecoveryStep

LEMMA ClipStep == ~BlindSets /\ ClipInv /\ [Next]_vars => ClipInv'
<1> SUFFICES ASSUME ~BlindSets, ClipInv, [Next]_vars PROVE ClipInv' OBVIOUS
<1>1. LossInv' BY LossStep DEF ClipInv
<1>2. TypeOK /\ TypeOK' /\ HeldIsMarked BY <1>1 DEF ClipInv, LossInv, GhostInv
<1> SUFFICES RingKept' /\ TickReads' /\ (~blurred' => ReadingsGood') BY <1>1 DEF ClipInv
<1>3. CASE BoxStep
  <2>1. ClipAlone /\ Longer /\ RingMoves BY <1>2, <1>3, BoxStepMoves
  <2>2. Meanwhile BY <1>2, <1>3, BoxDoes
  <2> QED BY <1>2, <2>1, <2>2, ClipAloneKeeps
<1>4. CASE UserStep BY <1>2, <1>4, UserKeepsClip
<1>5. CASE Hear BY <1>2, <1>5, HearKeepsClip
<1>6. CASE Ask \/ TimeOut BY <1>2, <1>6, AskKeepsClip, TimeOutKeepsClip
<1>7. CASE LoopStep BY <1>1, <1>7, LoopStepKeepsClip
<1>8. CASE RecoveryStep BY <1>1, <1>8, RecoveryStepKeepsClip
<1>9. CASE UNCHANGED vars
  <2>1. ClipAlone /\ Longer /\ Meanwhile /\ TypeOK'
    <3>1. box.session \in Nat BY <1>2 DEF TypeOK, Box
    <3>2. box.session >= box.session BY ONLY <3>1
    <3> QED BY <1>2, <1>9, <3>2 DEF vars, ClipAlone, ReadingsKept, Longer, Meanwhile, HelloToCome
  <2>2. RingMoves BY <1>9 DEF vars, RingMoves, ClipInv, RingKept
  <2> QED BY <2>1, <2>2, ClipAloneKeeps
<1> QED BY <1>3, <1>4, <1>5, <1>6, <1>7, <1>8, <1>9 DEF Next

LEMMA ClipInit == Init => ClipInv
<1> SUFFICES ASSUME Init PROVE ClipInv OBVIOUS
<1>1. /\ ~box.ring /\ box.ring = FALSE /\ heard = <<>> /\ lock = "free" /\ fate = "kept"
      /\ clip.loaded = FALSE /\ clip.ring = FALSE /\ ~clip.lost /\ ka.pc = "top"
  BY DEF Init, Rest
<1>2. RingKept BY <1>1 DEF RingKept
<1>3. TickReads BY <1>1 DEF TickReads
<1>4. KeptIsRecorded BY <1>1 DEF KeptIsRecorded
<1>5. ReadingTrue BY <1>1 DEF ReadingTrue, ReadingRing
<1>6. LossPending /\ LossFound /\ LossLeft
  BY <1>1 DEF LossPending, LossFound, LossLeft, GoneRead, Unreported, PastResend
<1> QED BY <1>2, <1>3, <1>4, <1>5, <1>6, LossInit DEF ClipInv, ReadingsGood

LEMMA ClipInvReports == ClipInv => ClipReportIsTrue
<1> SUFFICES ASSUME ClipInv, ~blurred PROVE ClipLossReported /\ LossIsReal BY DEF ClipReportIsTrue
<1>1. KeptIsRecorded /\ LossPending BY DEF ClipInv, ReadingsGood
<1>2. watch.session \in Nat /\ box.session \in Nat BY SessionNumbers DEF ClipInv, LossInv, GhostInv
<1>3. Quiet => ~Sign
  <2>1. ~(watch.session > watch.session) BY ONLY <1>2
  <2> QED BY <2>1 DEF Quiet, Noticeable, Sign, Due
<1>4. ClipLossReported
  BY <1>1, <1>3 DEF ClipLossReported, LossPending, Unreported, Recorded
<1>5. LossIsReal BY <1>1 DEF LossIsReal, KeptIsRecorded, Recorded
<1> QED BY <1>4, <1>5

\* What ClipHandle::lost says is so, whatever boots, releases, detaches, resets, lost queries, failed
\* writes and calls cross the keepalive's readings of the ring: once nothing is owed, pending or to be
\* noticed, a clip the box dropped is reported, and one the box still holds never is (read_ring and
\* step, restart.rs:248-261, 296-306; clip_note_ring, reconcile.rs:247-257).  Not so, until the next
\* append or clear, after a tick emptied the record ahead of a recovery, after a recovery's question
\* about the ring got no answer, and after a reset within a reading, which the code all allows.
THEOREM ClipReportCorrect ==
  ASSUME ~BlindSets
  PROVE  Spec => []ClipReportIsTrue
<1>1. ClipInv /\ [Next]_vars => ClipInv' BY ClipStep
<1>2. ClipInv => ClipReportIsTrue BY ClipInvReports
<1> QED BY ClipInit, <1>1, <1>2, PTL DEF Spec
=============================================================================
