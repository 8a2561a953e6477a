-------------------------- MODULE ApiKeyCache_proofs --------------------------
(***************************************************************************)
(* A withdrawn or expired key leaves every replica's cache in time, and no *)
(* request is counted twice, for every number of replicas, verifications,  *)
(* routes and operations.                                                  *)
(***************************************************************************)
EXTENDS ApiKeyCache, FiniteSetTheorems, TLAPS

(* The types the argument needs; counters and epochs may be any number. *)
Lives == [Routes -> 0 .. TTL]
Seen  == Int \cup {Null}
Ops   == {"idle", "revoking", "deleting", "announcing"}
Sent  == [Flushes -> Int]
Reads == [Polls -> Seen]

Proc ==
    [validCache : Lives, pendingUsage : Int, flushing : Sent,
     lastSeenEpoch : Seen, polled : Reads, due : BOOLEAN, op : Ops, bumps : Int]

Typed ==
    /\ key \in [status : {"none", "stored", "deleted"}, isActive : BOOLEAN,
                usageCount : Int]
    /\ expires \in Nat \cup {Null}
    /\ covers \in Covers
    /\ epoch \in Int
    /\ proc \in [Replicas -> Proc]
    /\ check \in [Checks -> Check]
    /\ lost \in Lives

(* A verification under way is about a replica and a route. *)
Placed ==
    \A c \in Checks : check[c].pc # "idle" =>
        check[c].on \in Replicas /\ check[c].route \in Routes

(* An answer that is no longer true was asked for before the key lost the  *)
(* route, because verifyApiKey reads the clock before the database.        *)
AskedBeforeLoss ==
    \A c \in Checks, rt \in Routes :
        check[c].pc = "answered" /\ check[c].route = rt /\ ~Valid(rt) /\ Unexpired
            => check[c].age >= lost[rt]

(* Before the key exists nothing is known of it. *)
NothingBeforeCreation ==
    key.status = "none" =>
        /\ \A c \in Checks : check[c].pc = "idle"
        /\ \A p \in Replicas, rt \in Routes : proc[p].validCache[rt] = 0

IInv ==
    /\ Typed
    /\ Placed
    /\ AskedBeforeLoss
    /\ NothingBeforeCreation
    /\ WithdrawnWithinTTL
    /\ NeverCachedPastExpiry

USE OwnerAssumption, TimeAssumption, NullAssumption

------------------------------------------------------------------------------
(* The updates of a process keep its type, and drop its cache or keep it. *)

LEMMA FieldValues ==
    /\ Empty \in Lives /\ NoFlush \in Sent /\ NoPoll \in Reads
    /\ Null \in Seen /\ \A n \in Int : n \in Seen
    /\ \A o \in {"idle", "revoking", "deleting", "announcing"} : o \in Ops
  BY DEF Empty, Lives, Seen, Ops, NoFlush, Sent, NoPoll, Reads

LEMMA StartedOK ==
    Started \in Proc /\ Started.validCache = Empty
  BY FieldValues DEF Started, Proc

LEMMA InvalidatedOK ==
    ASSUME NEW s \in Proc, NEW op \in Ops
    PROVE  Invalidated(s, op) \in Proc /\ Invalidated(s, op).validCache = Empty
  <1>1. s.bumps + 1 \in Int
    BY DEF Proc
  <1>2. Invalidated(s, op) = [s EXCEPT !.validCache = Empty,
                                       !.bumps = s.bumps + 1, !.op = op]
    BY DEF Invalidated
  <1>3. Invalidated(s, op) \in Proc
    BY <1>1, <1>2, FieldValues DEF Proc
  <1> QED BY <1>2, <1>3 DEF Proc

LEMMA AfterPollOK ==
    ASSUME NEW s \in Proc, NEW k \in Polls
    PROVE  /\ AfterPoll(s, k) \in Proc
           /\ AfterPoll(s, k).validCache \in {Empty, s.validCache}
  <1> DEFINE rest == [s.polled EXCEPT ![k] = Null]
             now == IF s.lastSeenEpoch # 0 /\ s.polled[k] # s.lastSeenEpoch
                    THEN Empty ELSE s.validCache
  <1>1. rest \in Reads /\ s.polled[k] \in Seen
    BY FieldValues DEF Proc, Reads
  <1>2. now \in Lives /\ now \in {Empty, s.validCache}
    BY FieldValues DEF Proc
  <1>3. AfterPoll(s, k) = [s EXCEPT !.validCache = now, !.lastSeenEpoch = s.polled[k],
                                    !.polled = rest]
    BY DEF AfterPoll, Proc
  <1> HIDE DEF rest, now
  <1> QED BY <1>1, <1>2, <1>3 DEF Proc

LEMMA UsageOK ==
    ASSUME NEW s \in Proc
    PROVE  RecordUsage(s) \in Proc /\ RecordUsage(s).validCache = s.validCache
  <1>1. s.pendingUsage + 1 \in Int
    BY DEF Proc
  <1>2. RecordUsage(s) = [s EXCEPT !.pendingUsage = s.pendingUsage + 1]
    BY DEF RecordUsage
  <1> QED BY <1>1, <1>2 DEF Proc

LEMMA FlushedOK ==
    ASSUME NEW s \in Proc, NEW k \in Flushes
    PROVE  /\ Flushed(s, k) \in Proc /\ Flushed(s, k).validCache = s.validCache
           /\ [s EXCEPT !.flushing[k] = 0] \in Proc
           /\ [s EXCEPT !.flushing[k] = 0].validCache = s.validCache
  <1> DEFINE taken == [s.flushing EXCEPT ![k] = s.pendingUsage]
             done == [s.flushing EXCEPT ![k] = 0]
  <1>1. taken \in Sent /\ done \in Sent /\ 0 \in Int
    BY DEF Proc, Sent
  <1>2. /\ Flushed(s, k) = [s EXCEPT !.flushing = taken, !.pendingUsage = 0]
        /\ [s EXCEPT !.flushing[k] = 0] = [s EXCEPT !.flushing = done]
    BY DEF Flushed, Proc
  <1> HIDE DEF taken, done
  <1>3. [s EXCEPT !.flushing = taken, !.pendingUsage = 0] \in Proc
    BY <1>1 DEF Proc
  <1>4. [s EXCEPT !.flushing = done] \in Proc
    BY <1>1 DEF Proc
  <1> QED BY <1>2, <1>3, <1>4 DEF Proc

LEMMA IdleOK == Idle \in Check /\ Idle.pc = "idle"
  BY DEF Idle, Check

------------------------------------------------------------------------------
(* What a step may do to process p's state without touching the others. *)
CacheShrinks ==
    \A q \in Replicas, rt \in Routes :
        proc'[q].validCache[rt] \in {0, proc[q].validCache[rt]}

LEMMA OneProcess ==
    ASSUME Typed, NEW p \in Replicas, NEW s \in Proc,
           s.validCache \in {Empty, proc[p].validCache},
           proc' = [proc EXCEPT ![p] = s]
    PROVE  proc' \in [Replicas -> Proc] /\ CacheShrinks
  <1>1. proc' \in [Replicas -> Proc]
    BY DEF Typed
  <1>2. ASSUME NEW q \in Replicas, NEW rt \in Routes
        PROVE  proc'[q].validCache[rt] \in {0, proc[q].validCache[rt]}
    <2>1. proc'[q].validCache \in {Empty, proc[q].validCache}
      BY DEF Typed
    <2> QED BY <2>1 DEF Empty
  <1> QED BY <1>1, <1>2 DEF CacheShrinks

(* A step that only drops cache entries and pending answers, and keeps the *)
(* history, keeps the invariant.                                           *)
LEMMA Shrinking ==
    ASSUME IInv, Typed', expires' = expires, CacheShrinks,
           key'.status = "none" => key.status = "none",
           \A c \in Checks : \/ check'[c] = check[c]
                             \/ check'[c] = Idle,
           \A rt \in Routes : \/ Valid(rt)'
                              \/ Valid(rt) /\ lost'[rt] = 0
                              \/ ~Valid(rt) /\ lost'[rt] = lost[rt]
    PROVE  IInv'
  <1>1. Placed'
    BY IdleOK DEF IInv, Placed
  <1>2. AskedBeforeLoss'
    <2> SUFFICES ASSUME NEW c \in Checks, NEW rt \in Routes,
                        check'[c].pc = "answered", check'[c].route = rt,
                        ~Valid(rt)', Unexpired'
                 PROVE  check'[c].age >= lost'[rt]
      BY DEF AskedBeforeLoss
    <2>1. check'[c] = check[c]
      BY IdleOK
    <2>2. check[c].age \in Nat
      BY DEF IInv, Typed, Check
    <2>3. CASE lost'[rt] = 0
      BY <2>1, <2>2, <2>3
    <2>4. CASE ~Valid(rt) /\ lost'[rt] = lost[rt]
      <3>1. Unexpired
        BY DEF Unexpired
      <3> QED BY <2>1, <2>4, <3>1 DEF IInv, AskedBeforeLoss
    <2> QED BY <2>3, <2>4
  <1>3. NothingBeforeCreation'
    BY IdleOK DEF IInv, NothingBeforeCreation, CacheShrinks
  <1>4. WithdrawnWithinTTL'
    <2> SUFFICES ASSUME NEW q \in Replicas, NEW rt \in Routes,
                        proc'[q].validCache[rt] > 0, ~Valid(rt)'
                 PROVE  proc'[q].validCache[rt] + lost'[rt] <= TTL
      BY DEF WithdrawnWithinTTL
    <2>1. proc'[q].validCache[rt] \in 0 .. TTL /\ lost'[rt] \in 0 .. TTL
      BY DEF Typed, Proc, Lives
    <2>2. proc'[q].validCache[rt] = proc[q].validCache[rt]
      BY <2>1 DEF CacheShrinks
    <2> QED BY <2>1, <2>2 DEF IInv, WithdrawnWithinTTL
  <1>5. NeverCachedPastExpiry'
    <2> SUFFICES ASSUME NEW q \in Replicas, NEW rt \in Routes,
                        proc'[q].validCache[rt] > 0
                 PROVE  expires' = Null \/ proc'[q].validCache[rt] <= expires'
      BY DEF NeverCachedPastExpiry
    <2>1. proc'[q].validCache[rt] = proc[q].validCache[rt]
      BY DEF CacheShrinks
    <2> QED BY <2>1 DEF IInv, NeverCachedPastExpiry
  <1> QED BY <1>1, <1>2, <1>3, <1>4, <1>5 DEF IInv

(* The same, for a step that leaves key, coverage and history alone. *)
LEMMA Local ==
    ASSUME IInv, NEW p \in Replicas, NEW s \in Proc,
           s.validCache \in {Empty, proc[p].validCache},
           proc' = [proc EXCEPT ![p] = s], epoch' \in Int,
           UNCHANGED <<key, expires, covers, check, lost>>
    PROVE  IInv'
  <1>1. Typed' /\ CacheShrinks
    BY OneProcess DEF IInv, Typed
  <1>2. \A rt \in Routes : Valid(rt)' \/ (~Valid(rt) /\ lost'[rt] = lost[rt])
    BY DEF Valid, Usable, KeyCoversRoute, Unexpired
  <1> QED BY <1>1, <1>2, Shrinking

(* The same, for a step that writes the key or its coverage. *)
LEMMA Withdrawing ==
    ASSUME IInv, NEW p \in Replicas, NEW op \in Ops,
           proc' = [proc EXCEPT ![p].op = op],
           key' \in [status : {"none", "stored", "deleted"}, isActive : BOOLEAN,
                     usageCount : Int],
           key'.status = "none" => key.status = "none",
           covers' \in Covers, KeepHistory, UNCHANGED <<expires, epoch, check>>
    PROVE  IInv'
  <1> DEFINE s == [proc[p] EXCEPT !.op = op]
  <1>1. s \in Proc /\ s.validCache = proc[p].validCache
    BY DEF IInv, Typed, Proc
  <1>2. proc' \in [Replicas -> Proc] /\ CacheShrinks
    <2> HIDE DEF s
    <2>1. proc' = [proc EXCEPT ![p] = s]
      BY DEF s
    <2> QED BY <1>1, <2>1, OneProcess DEF IInv
  <1>3. \A rt \in Routes : \/ Valid(rt) /\ lost'[rt] = 0
                           \/ ~Valid(rt) /\ lost'[rt] = lost[rt]
    BY DEF KeepHistory
  <1>4. lost' \in Lives
    BY DEF KeepHistory, IInv, Typed, Lives
  <1>5. Typed'
    BY <1>2, <1>4 DEF IInv, Typed
  <1> QED BY <1>2, <1>3, <1>5, Shrinking

------------------------------------------------------------------------------
LEMMA InitOK == Init => IInv
  <1> SUFFICES ASSUME Init PROVE IInv
    OBVIOUS
  <1>1. Typed
    <2>1. lost \in Lives /\ \A rt \in Routes : lost[rt] = 0
      BY FieldValues DEF Init, Empty
    <2> QED BY <2>1, StartedOK, IdleOK DEF Init, Typed, Covers
  <1>2. Placed /\ AskedBeforeLoss
    BY IdleOK DEF Init, Placed, AskedBeforeLoss
  <1>3. \A p \in Replicas, rt \in Routes : proc[p].validCache[rt] = 0
    BY StartedOK DEF Init, Empty
  <1>4. NothingBeforeCreation
    BY <1>3, IdleOK DEF Init, NothingBeforeCreation
  <1>5. WithdrawnWithinTTL /\ NeverCachedPastExpiry
    BY <1>3 DEF WithdrawnWithinTTL, NeverCachedPastExpiry
  <1> QED BY <1>1, <1>2, <1>4, <1>5 DEF IInv

(* Before its creation the key is in no cache, so its coverage and expiry  *)
(* may be anything.                                                        *)
LEMMA CreateOK ==
    ASSUME IInv, NEW S \in SUBSET Routes, NEW B \in SUBSET Routes,
           NEW e \in {Lifetime, Null}, CreateApiKey(S, B, e)
    PROVE  IInv'
  <1>1. /\ \A c \in Checks : check'[c].pc = "idle"
        /\ \A p \in Replicas, rt \in Routes : proc'[p].validCache[rt] = 0
    BY DEF CreateApiKey, IInv, NothingBeforeCreation
  <1>2. key' \in [status : {"none", "stored", "deleted"}, isActive : BOOLEAN,
                  usageCount : Int]
    BY DEF CreateApiKey, IInv, Typed
  <1>3. covers' \in Covers
    BY DEF CreateApiKey, Covers
  <1>4. lost' \in Lives
    BY DEF CreateApiKey, KeepHistory, IInv, Typed, Lives
  <1>5. Typed'
    BY <1>2, <1>3, <1>4 DEF CreateApiKey, IInv, Typed
  <1>6. Placed' /\ AskedBeforeLoss' /\ NothingBeforeCreation'
    BY <1>1 DEF Placed, AskedBeforeLoss, NothingBeforeCreation
  <1>7. WithdrawnWithinTTL' /\ NeverCachedPastExpiry'
    BY <1>1 DEF WithdrawnWithinTTL, NeverCachedPastExpiry
  <1> QED BY <1>5, <1>6, <1>7 DEF IInv

(* The operations of the administrator. *)
LEMMA AdministerOK ==
    ASSUME IInv, NEW p \in Replicas, Administer(p)
    PROVE  IInv'
  <1> USE DEF Begin
  <1>0. /\ proc[p] \in Proc
        /\ key \in [status : {"none", "stored", "deleted"}, isActive : BOOLEAN,
                    usageCount : Int]
        /\ epoch \in Int
        /\ covers \in Covers
    BY DEF IInv, Typed
  <1>1. CASE RevokeApiKey(p) \/ DeleteApiKey(p) \/ Announce(p)
    <2>1. PICK op \in Ops : proc' = [proc EXCEPT ![p] = Invalidated(proc[p], op)]
      BY <1>1, FieldValues DEF RevokeApiKey, DeleteApiKey, Announce
    <2>2. UNCHANGED <<key, expires, covers, check, lost, epoch>>
      BY <1>1 DEF RevokeApiKey, DeleteApiKey, Announce
    <2>3. /\ Invalidated(proc[p], op) \in Proc
          /\ Invalidated(proc[p], op).validCache = Empty
      BY <1>0, InvalidatedOK
    <2> HIDE DEF Begin
    <2> QED BY <1>0, <2>1, <2>2, <2>3, Local
  <1>2. CASE RevokeWrite(p)
    <2>1. key' \in [status : {"none", "stored", "deleted"}, isActive : BOOLEAN,
                    usageCount : Int] /\ key'.status = key.status
      BY <1>0, <1>2 DEF RevokeWrite
    <2> QED BY <1>0, <1>2, <2>1, FieldValues, Withdrawing DEF RevokeWrite
  <1>3. CASE DeleteWrite(p)
    <2>1. key' \in [status : {"none", "stored", "deleted"}, isActive : BOOLEAN,
                    usageCount : Int] /\ key'.status = "deleted"
      BY <1>0, <1>3 DEF DeleteWrite
    <2>2. covers' \in Covers
      BY <1>0, <1>3 DEF DeleteWrite, Covers
    <2> QED BY <1>3, <2>1, <2>2, FieldValues, Withdrawing DEF DeleteWrite
  <1>4. CASE \E S, B \in SUBSET Routes : SetApiKeyRoutes(p, S, B)
    <2>1. covers' \in Covers
      BY <1>4 DEF SetApiKeyRoutes, Covers
    <2> QED BY <1>0, <1>4, <2>1, FieldValues, Withdrawing DEF SetApiKeyRoutes
  <1>5. CASE \E rt \in Routes : DetachApiKeyFromRoute(p, rt)
    <2>1. covers' \in Covers
      BY <1>0, <1>5 DEF DetachApiKeyFromRoute, Covers
    <2> QED BY <1>0, <1>5, <2>1, FieldValues, Withdrawing DEF DetachApiKeyFromRoute
  <1>6. CASE \E B \in SUBSET Routes : MoveRoutes(p, B)
    <2>1. covers' \in Covers
      BY <1>0, <1>6 DEF MoveRoutes, Covers
    <2> QED BY <1>0, <1>6, <2>1, FieldValues, Withdrawing DEF MoveRoutes
  <1> QED BY <1>1, <1>2, <1>3, <1>4, <1>5, <1>6 DEF Administer

(* Polls, bumps, flushes, questions and restarts. *)
LEMMA ServeOK ==
    ASSUME IInv, NEW p \in Replicas, Serve(p)
    PROVE  IInv'
  <1>0. proc[p] \in Proc /\ epoch \in Int
    BY DEF IInv, Typed
  <1>1. CASE BumpRevokeEpoch(p)
    <2> DEFINE s == [proc[p] EXCEPT !.bumps = proc[p].bumps - 1]
    <2>1. proc[p].bumps - 1 \in Int
      BY <1>0 DEF Proc
    <2>2. s \in Proc /\ s.validCache = proc[p].validCache
      BY <1>0, <2>1 DEF Proc
    <2>3. proc' = [proc EXCEPT ![p] = s] /\ epoch' \in Int
      BY <1>0, <1>1, BoundAssumption DEF BumpRevokeEpoch, Epoch
    <2>4. UNCHANGED <<key, expires, covers, check, lost>>
      BY <1>1 DEF BumpRevokeEpoch
    <2> HIDE DEF s
    <2> QED BY <2>2, <2>3, <2>4, Local
  <1>2. CASE \E k \in Polls : PollRead(p, k)
    <2>0. PICK k \in Polls : PollRead(p, k)
      BY <1>2
    <2> DEFINE now == [proc[p].polled EXCEPT ![k] = epoch]
               s == [proc[p] EXCEPT !.polled = now, !.due = FALSE]
    <2>1. now \in Reads
      BY <1>0, FieldValues DEF Proc, Reads
    <2>3. proc' = [proc EXCEPT ![p] = s]
      BY <1>0, <2>0 DEF PollRead, IInv, Typed
    <2> HIDE DEF now
    <2>2. s \in Proc /\ s.validCache = proc[p].validCache
      BY <1>0, <2>1 DEF Proc
    <2>4. UNCHANGED <<key, expires, covers, check, lost, epoch>>
      BY <2>0 DEF PollRead
    <2> HIDE DEF s
    <2> QED BY <1>0, <2>2, <2>3, <2>4, Local
  <1>3. CASE \E k \in Polls : PollApply(p, k)
    <2>0. PICK k \in Polls : PollApply(p, k)
      BY <1>3
    <2>1. /\ AfterPoll(proc[p], k) \in Proc
          /\ AfterPoll(proc[p], k).validCache \in {Empty, proc[p].validCache}
      BY <1>0, AfterPollOK
    <2> QED BY <1>0, <2>0, <2>1, Local DEF PollApply
  <1>4. CASE \E rt \in Routes : VerifyCached(p, rt)
    <2>1. /\ RecordUsage(proc[p]) \in Proc
          /\ RecordUsage(proc[p]).validCache = proc[p].validCache
      BY <1>0, UsageOK
    <2> QED BY <1>0, <1>4, <2>1, Local DEF VerifyCached
  <1>5. CASE \E c \in Checks, rt \in Routes : VerifyAsk(c, p, rt)
    <2>1. PICK c \in Checks, rt \in Routes : VerifyAsk(c, p, rt)
      BY <1>5
    <2> DEFINE asked == [pc |-> "asking", on |-> p, route |-> rt, age |-> 0,
                         unexpired |-> Unexpired]
    <2>2. asked \in Check
      BY DEF Check, Unexpired
    <2>3. check' = [check EXCEPT ![c] = asked]
      BY <2>1 DEF VerifyAsk
    <2>4. asked.pc = "asking" /\ asked.on = p /\ asked.route = rt
      OBVIOUS
    <2> HIDE DEF asked
    <2>5. /\ check' \in [Checks -> Check]
          /\ \A d \in Checks : check'[d] = check[d] \/ check'[d] = asked
      BY <2>2, <2>3 DEF IInv, Typed
    <2>6. UNCHANGED <<key, expires, covers, epoch, proc, lost>> /\ key.status # "none"
      BY <2>1 DEF VerifyAsk
    <2>7. Typed'
      BY <2>5, <2>6 DEF IInv, Typed
    <2>8. Placed'
      BY <2>4, <2>5 DEF IInv, Placed
    <2>9. \A r \in Routes : Valid(r)' = Valid(r)
      BY <2>6 DEF Valid, Usable, KeyCoversRoute, Unexpired
    <2>10. AskedBeforeLoss'
      BY <2>4, <2>5, <2>6, <2>9 DEF IInv, AskedBeforeLoss, Unexpired
    <2>11. NothingBeforeCreation'
      BY <2>6 DEF NothingBeforeCreation
    <2>12. WithdrawnWithinTTL' /\ NeverCachedPastExpiry'
      BY <2>6, <2>9 DEF IInv, WithdrawnWithinTTL, NeverCachedPastExpiry
    <2> QED BY <2>7, <2>8, <2>10, <2>11, <2>12 DEF IInv
  <1>6. CASE \E k \in Flushes : FlushUsage(p, k)
    <2>0. PICK k \in Flushes : FlushUsage(p, k)
      BY <1>6
    <2>1. /\ Flushed(proc[p], k) \in Proc
          /\ Flushed(proc[p], k).validCache = proc[p].validCache
      BY <1>0, FlushedOK
    <2> QED BY <1>0, <2>0, <2>1, Local DEF FlushUsage
  <1>7. CASE \E k \in Flushes : FlushWrite(p, k) \/ FlushFails(p, k)
    <2>0. PICK k \in Flushes : FlushWrite(p, k) \/ FlushFails(p, k)
      BY <1>7
    <2> DEFINE s == [proc[p] EXCEPT !.flushing[k] = 0]
    <2>1. s \in Proc /\ s.validCache = proc[p].validCache
      BY <1>0, FlushedOK
    <2>2. proc' = [proc EXCEPT ![p] = s]
      BY <1>0, <2>0 DEF FlushWrite, FlushFails
    <2>3. /\ key' \in [status : {"none", "stored", "deleted"}, isActive : BOOLEAN,
                       usageCount : Int]
          /\ key'.status = key.status /\ key'.isActive = key.isActive
      <3>1. key.usageCount + proc[p].flushing[k] \in Int
        BY <1>0 DEF Proc, Sent, IInv, Typed
      <3> QED BY <2>0, <3>1 DEF FlushWrite, FlushFails, IInv, Typed
    <2>4. UNCHANGED <<expires, covers, check, lost, epoch>>
      BY <2>0 DEF FlushWrite, FlushFails
    <2> HIDE DEF s
    <2>5. proc' \in [Replicas -> Proc] /\ CacheShrinks
      BY <2>1, <2>2, OneProcess DEF IInv
    <2>6. Typed'
      BY <2>3, <2>4, <2>5 DEF IInv, Typed
    <2>7. \A rt \in Routes : Valid(rt)' \/ (~Valid(rt) /\ lost'[rt] = lost[rt])
      BY <2>3, <2>4 DEF Valid, Usable, KeyCoversRoute, Unexpired
    <2> QED BY <2>3, <2>4, <2>5, <2>6, <2>7, Shrinking
  <1>8. CASE Restart(p)
    <2>1. proc' \in [Replicas -> Proc] /\ CacheShrinks
      BY <1>8, StartedOK, OneProcess DEF Restart, IInv
    <2>2. UNCHANGED <<key, expires, covers, epoch, lost>>
      BY <1>8 DEF Restart
    <2>3. /\ check' \in [Checks -> Check]
          /\ \A c \in Checks : check'[c] = check[c] \/ check'[c] = Idle
      BY <1>8, IdleOK DEF Restart, IInv, Typed
    <2>4. Typed'
      BY <2>1, <2>2, <2>3 DEF IInv, Typed
    <2>5. \A rt \in Routes : Valid(rt)' \/ (~Valid(rt) /\ lost'[rt] = lost[rt])
      BY <2>2 DEF Valid, Usable, KeyCoversRoute, Unexpired
    <2> QED BY <2>1, <2>2, <2>3, <2>4, <2>5, Shrinking
  <1> QED BY <1>1, <1>2, <1>3, <1>4, <1>5, <1>6, <1>7, <1>8 DEF Serve

(* The life verifyApiKey gives an entry fits what is left of the promise. *)
LEMMA EntryLifeOK ==
    ASSUME IInv, NEW c \in Checks, check[c].pc = "answered"
    PROVE  /\ EntryLife(c) \in 0 .. TTL
           /\ expires # Null => EntryLife(c) <= expires
           /\ EntryLife(c) > 0 /\ ~Valid(check[c].route)
                => EntryLife(c) + lost[check[c].route] <= TTL
  <1>1. /\ check[c].age \in 0 .. TTL
        /\ check[c].route \in Routes
        /\ expires \in Nat \cup {Null}
    BY DEF IInv, Typed, Placed, Check
  <1>2. lost[check[c].route] \in 0 .. TTL
    BY <1>1 DEF IInv, Typed, Lives
  <1>3. /\ EntryLife(c) \in 0 .. TTL
        /\ EntryLife(c) <= TTL - check[c].age
        /\ expires # Null => EntryLife(c) <= expires
    BY <1>1 DEF EntryLife, Least
  <1>4. ASSUME EntryLife(c) > 0, ~Valid(check[c].route)
        PROVE  EntryLife(c) + lost[check[c].route] <= TTL
    <2>1. Unexpired
      BY <1>1, <1>3, <1>4 DEF Unexpired
    <2>2. check[c].age >= lost[check[c].route]
      BY <1>1, <1>4, <2>1 DEF IInv, AskedBeforeLoss
    <2> QED BY <1>1, <1>2, <1>3, <2>2
  <1> QED BY <1>3, <1>4

(* The answers of the database. *)
LEMMA AnswerOK ==
    ASSUME IInv, NEW c \in Checks, Answer(c)
    PROVE  IInv'
  <1>0. \A rt \in Routes : UNCHANGED <<key, expires, covers>> => Valid(rt)' = Valid(rt)
    BY DEF Valid, Usable, KeyCoversRoute, Unexpired
  <1>1. CASE VerifyFound(c)
    <2>1. check[c] \in Check /\ check[c].route \in Routes /\ check[c].on \in Replicas
      BY <1>1 DEF VerifyFound, IInv, Typed, Placed
    <2>2. /\ check' \in [Checks -> Check]
          /\ \A d \in Checks \ {c} : check'[d] = check[d]
          /\ check'[c].pc = "answered" /\ check'[c].route = check[c].route
          /\ check'[c].on = check[c].on
      BY <1>1, <2>1 DEF VerifyFound, IInv, Typed, Check
    <2>3. UNCHANGED <<key, expires, covers, epoch, proc, lost>>
      BY <1>1 DEF VerifyFound
    <2>4. key.status # "none" /\ Usable(check[c].route)
      BY <1>1 DEF VerifyFound, Found, Usable
    <2>5. Typed'
      BY <2>2, <2>3 DEF IInv, Typed
    <2>6. Placed'
      BY <2>1, <2>2 DEF IInv, Placed
    <2>7. AskedBeforeLoss'
      <3> SUFFICES ASSUME NEW d \in Checks, NEW rt \in Routes,
                          check'[d].pc = "answered", check'[d].route = rt,
                          ~Valid(rt)', Unexpired'
                   PROVE  check'[d].age >= lost'[rt]
        BY DEF AskedBeforeLoss
      <3>1. ~Valid(rt) /\ Unexpired
        BY <1>0, <2>3 DEF Unexpired
      <3>2. d # c
        BY <2>2, <2>4, <3>1 DEF Valid
      <3> QED BY <2>2, <2>3, <3>1, <3>2 DEF IInv, AskedBeforeLoss
    <2>8. NothingBeforeCreation'
      BY <2>3, <2>4 DEF NothingBeforeCreation
    <2>9. WithdrawnWithinTTL' /\ NeverCachedPastExpiry'
      BY <1>0, <2>3 DEF IInv, WithdrawnWithinTTL, NeverCachedPastExpiry
    <2> QED BY <2>5, <2>6, <2>7, <2>8, <2>9 DEF IInv
  <1>2. CASE VerifyRefused(c)
    <2>1. /\ check' \in [Checks -> Check]
          /\ \A d \in Checks : check'[d] = check[d] \/ check'[d] = Idle
      BY <1>2, IdleOK DEF VerifyRefused, IInv, Typed
    <2>2. UNCHANGED <<key, expires, covers, epoch, proc, lost>>
      BY <1>2 DEF VerifyRefused
    <2>3. Typed' /\ CacheShrinks
      BY <2>1, <2>2 DEF IInv, Typed, CacheShrinks
    <2> QED BY <1>0, <2>1, <2>2, <2>3, Shrinking
  <1>3. CASE VerifyFill(c)
    <2> DEFINE p == check[c].on
               rt == check[c].route
               life == EntryLife(c)
               s == [RecordUsage(proc[p]) EXCEPT !.validCache[rt] = life]
    <2>1. p \in Replicas /\ rt \in Routes /\ check[c].pc = "answered"
      BY <1>3 DEF VerifyFill, IInv, Placed
    <2>2. /\ life \in 0 .. TTL
          /\ expires # Null => life <= expires
          /\ life > 0 /\ ~Valid(rt) => life + lost[rt] <= TTL
      BY <2>1, EntryLifeOK
    <2>3. proc[p] \in Proc /\ proc[p].validCache \in Lives
      BY <2>1 DEF IInv, Typed, Proc
    <2>4. /\ s \in Proc
          /\ s.validCache = [proc[p].validCache EXCEPT ![rt] = life]
      <3> DEFINE u == RecordUsage(proc[p])
      <3>1. u \in Proc /\ u.validCache = proc[p].validCache
        BY <2>3, UsageOK
      <3> HIDE DEF u, life, rt
      <3>2. [u.validCache EXCEPT ![rt] = life] \in Lives
        BY <2>1, <2>2, <2>3, <3>1 DEF Lives
      <3>3. s = [u EXCEPT !.validCache = [u.validCache EXCEPT ![rt] = life]]
        BY DEF u
      <3> HIDE DEF s
      <3> QED BY <3>1, <3>2, <3>3 DEF Proc
    <2>5. proc' = [proc EXCEPT ![p] = s]
      BY <1>3 DEF VerifyFill
    <2>6. /\ check' \in [Checks -> Check]
          /\ \A d \in Checks : check'[d] = check[d] \/ check'[d] = Idle
      BY <1>3, IdleOK DEF VerifyFill, IInv, Typed
    <2>7. UNCHANGED <<key, expires, covers, epoch, lost>>
      BY <1>3 DEF VerifyFill
    <2> HIDE DEF p, rt, life, s
    <2>8. /\ proc' \in [Replicas -> Proc]
          /\ \A q \in Replicas, r \in Routes :
                proc'[q].validCache[r] = proc[q].validCache[r]
                  \/ (q = p /\ r = rt /\ proc'[q].validCache[r] = life)
      BY <2>1, <2>3, <2>4, <2>5 DEF IInv, Typed, Lives
    <2>9. Typed'
      BY <2>6, <2>7, <2>8 DEF IInv, Typed
    <2>10. Placed'
      BY <2>6, IdleOK DEF IInv, Placed
    <2>11. AskedBeforeLoss'
      BY <1>0, <2>6, <2>7, IdleOK DEF IInv, AskedBeforeLoss, Unexpired
    <2>12. NothingBeforeCreation'
      <3>1. key.status # "none"
        BY <2>1 DEF IInv, NothingBeforeCreation
      <3> QED BY <2>7, <3>1 DEF NothingBeforeCreation
    <2>13. WithdrawnWithinTTL'
      BY <1>0, <2>2, <2>7, <2>8 DEF IInv, WithdrawnWithinTTL
    <2>14. NeverCachedPastExpiry'
      BY <2>2, <2>7, <2>8 DEF IInv, NeverCachedPastExpiry
    <2> QED BY <2>9, <2>10, <2>11, <2>12, <2>13, <2>14 DEF IInv
  <1> QED BY <1>1, <1>2, <1>3 DEF Answer

(* The clock: what an entry loses, the history gains. *)
LEMMA TickOK ==
    ASSUME IInv, Tick
    PROVE  IInv'
  <1>1. /\ UNCHANGED <<key, covers, epoch>>
        /\ expires' = IF expires = Null THEN Null ELSE Less(expires)
        /\ expires \in Nat \cup {Null}
    BY DEF Tick, IInv, Typed
  <1>2. \A p \in Replicas, rt \in Routes :
            /\ proc[p].validCache[rt] \in 0 .. TTL
            /\ proc'[p].validCache[rt] = Less(proc[p].validCache[rt])
            /\ proc'[p].validCache[rt] \in 0 .. TTL
    <2> SUFFICES ASSUME NEW p \in Replicas, NEW rt \in Routes
                 PROVE  /\ proc[p].validCache[rt] \in 0 .. TTL
                        /\ proc'[p].validCache[rt] = Less(proc[p].validCache[rt])
                        /\ proc'[p].validCache[rt] \in 0 .. TTL
      OBVIOUS
    <2>1. proc[p] \in Proc /\ proc[p].validCache[rt] \in 0 .. TTL
      BY DEF IInv, Typed, Proc, Lives
    <2>2. proc'[p].validCache = [r \in Routes |-> Less(proc[p].validCache[r])]
      BY <2>1 DEF Tick, Proc
    <2> QED BY <2>1, <2>2 DEF Less
  <1>3. proc' \in [Replicas -> Proc]
    <2> SUFFICES ASSUME NEW p \in Replicas
                 PROVE  [proc[p] EXCEPT !.due = TRUE,
                           !.validCache = [rt \in Routes |->
                                             Less(proc[p].validCache[rt])]] \in Proc
      BY DEF Tick
    <2> DEFINE f == [rt \in Routes |-> Less(proc[p].validCache[rt])]
    <2>1. f \in Lives
      BY <1>2 DEF Lives, Less
    <2>2. proc[p] \in Proc
      BY DEF IInv, Typed
    <2> HIDE DEF f
    <2>3. [proc[p] EXCEPT !.due = TRUE, !.validCache = f] \in Proc
      BY <2>1, <2>2 DEF Proc
    <2> QED BY <2>3 DEF f
  <1>4. /\ lost' \in Lives
        /\ \A rt \in Routes :
              /\ lost[rt] \in 0 .. TTL
              /\ lost'[rt] = IF Valid(rt) THEN 0 ELSE More(lost[rt])
    <2>1. lost \in Lives /\ \A rt \in Routes : lost[rt] \in 0 .. TTL
      BY DEF IInv, Typed, Lives
    <2>2. \A n \in 0 .. TTL : More(n) \in 0 .. TTL
      BY DEF More
    <2>3. lost' = [rt \in Routes |-> IF Valid(rt) THEN 0 ELSE More(lost[rt])]
      BY DEF Tick
    <2>4. \A rt \in Routes : lost'[rt] = IF Valid(rt) THEN 0 ELSE More(lost[rt])
      BY <2>3
    <2>5. \A rt \in Routes : (IF Valid(rt) THEN 0 ELSE More(lost[rt])) \in 0 .. TTL
      BY <2>1, <2>2
    <2>6. lost' \in Lives
      BY <2>3, <2>5 DEF Lives
    <2> QED BY <2>1, <2>4, <2>6
  <1>5. /\ check' \in [Checks -> Check]
        /\ \A c \in Checks :
              /\ check'[c].pc = check[c].pc /\ check'[c].on = check[c].on
              /\ check'[c].route = check[c].route
              /\ check[c].age \in 0 .. TTL
              /\ check[c].pc # "idle" => check'[c].age = More(check[c].age)
    <2> SUFFICES ASSUME NEW c \in Checks
                 PROVE  /\ check'[c] \in Check
                        /\ check'[c].pc = check[c].pc /\ check'[c].on = check[c].on
                        /\ check'[c].route = check[c].route
                        /\ check[c].age \in 0 .. TTL
                        /\ check[c].pc # "idle" => check'[c].age = More(check[c].age)
      BY DEF Tick
    <2>1. check[c] \in Check
      BY DEF IInv, Typed
    <2>2. More(check[c].age) \in 0 .. TTL
      BY <2>1 DEF Check, More
    <2>3. check'[c] = IF check[c].pc = "idle" THEN check[c]
                      ELSE [check[c] EXCEPT !.age = More(check[c].age)]
      BY DEF Tick
    <2> QED BY <2>1, <2>2, <2>3 DEF Check
  <1>6. /\ expires' \in Nat \cup {Null}
        /\ Unexpired' => Unexpired
        /\ expires' = Null <=> expires = Null
    BY <1>1 DEF Less, Unexpired
  <1>7. Typed'
    BY <1>1, <1>3, <1>4, <1>5, <1>6 DEF IInv, Typed
  <1>8. \A rt \in Routes : Valid(rt)' => Valid(rt)
    BY <1>1, <1>6 DEF Valid, Usable, KeyCoversRoute
  <1>9. Placed'
    BY <1>5 DEF IInv, Placed
  <1>10. AskedBeforeLoss'
    <2> SUFFICES ASSUME NEW c \in Checks, NEW rt \in Routes,
                        check'[c].pc = "answered", check'[c].route = rt, Unexpired'
                 PROVE  check'[c].age >= lost'[rt]
      BY DEF AskedBeforeLoss
    <2>1. check[c].pc = "answered" /\ check[c].route = rt
            /\ check'[c].age = More(check[c].age) /\ check[c].age \in 0 .. TTL
      BY <1>5
    <2>2. CASE Valid(rt)
      BY <1>4, <2>1, <2>2 DEF More
    <2>3. CASE ~Valid(rt)
      <3>1. check[c].age >= lost[rt]
        BY <1>6, <2>1, <2>3 DEF IInv, AskedBeforeLoss
      <3> QED BY <1>4, <2>1, <2>3, <3>1 DEF More
    <2> QED BY <2>2, <2>3
  <1>11. NothingBeforeCreation'
    <2>1. Less(0) = 0
      BY DEF Less
    <2>2. key'.status = "none" => \A p \in Replicas, rt \in Routes :
                                     proc'[p].validCache[rt] = 0
      BY <1>1, <1>2, <2>1 DEF IInv, NothingBeforeCreation
    <2>3. key'.status = "none" => \A c \in Checks : check'[c].pc = "idle"
      BY <1>1, <1>5 DEF IInv, NothingBeforeCreation
    <2> QED BY <2>2, <2>3 DEF NothingBeforeCreation
  <1>12. WithdrawnWithinTTL'
    <2> SUFFICES ASSUME NEW p \in Replicas, NEW rt \in Routes,
                        proc'[p].validCache[rt] > 0
                 PROVE  proc'[p].validCache[rt] + lost'[rt] <= TTL
      BY DEF WithdrawnWithinTTL
    <2>1. CASE Valid(rt)
      BY <1>2, <1>4, <2>1
    <2>2. CASE ~Valid(rt)
      <3>1. proc[p].validCache[rt] > 0
        BY <1>2 DEF Less
      <3>2. proc[p].validCache[rt] + lost[rt] <= TTL
        BY <2>2, <3>1 DEF IInv, WithdrawnWithinTTL
      <3> QED BY <1>2, <1>4, <2>2, <3>1, <3>2 DEF Less, More
    <2> QED BY <2>1, <2>2
  <1>13. NeverCachedPastExpiry'
    <2> SUFFICES ASSUME NEW p \in Replicas, NEW rt \in Routes,
                        proc'[p].validCache[rt] > 0, expires' # Null
                 PROVE  proc'[p].validCache[rt] <= expires'
      BY DEF NeverCachedPastExpiry
    <2>1. proc[p].validCache[rt] > 0
      BY <1>2 DEF Less
    <2>2. proc[p].validCache[rt] <= expires
      BY <1>6, <2>1 DEF IInv, NeverCachedPastExpiry
    <2> QED BY <1>1, <1>2, <1>6, <2>1, <2>2 DEF Less
  <1> QED BY <1>7, <1>9, <1>10, <1>11, <1>12, <1>13 DEF IInv

------------------------------------------------------------------------------
(* The invariant that carries both results. *)
THEOREM Inductive == Spec => []IInv
  <1>1. Init => IInv
    BY InitOK
  <1>2. IInv /\ [Next]_vars => IInv'
    <2> SUFFICES ASSUME IInv, [Next]_vars PROVE IInv'
      OBVIOUS
    <2>1. CASE \E S, B \in SUBSET Routes, e \in {Lifetime, Null} : CreateApiKey(S, B, e)
      BY <2>1, CreateOK
    <2>2. CASE \E p \in Replicas : Administer(p) \/ Serve(p)
      BY <2>2, AdministerOK, ServeOK
    <2>3. CASE \E c \in Checks : Answer(c)
      BY <2>3, AnswerOK
    <2>4. CASE Tick
      BY <2>4, TickOK
    <2>5. CASE UNCHANGED vars
      <3>1. UNCHANGED <<key, expires, covers, epoch, proc, check, lost>>
        BY <2>5 DEF vars
      <3>2. \A rt \in Routes : Valid(rt)' = Valid(rt)
        BY <3>1 DEF Valid, Usable, KeyCoversRoute, Unexpired
      <3>3. Typed' /\ CacheShrinks
        BY <3>1 DEF IInv, Typed, CacheShrinks
      <3> QED BY <3>1, <3>2, <3>3, Shrinking
    <2> QED BY <2>1, <2>2, <2>3, <2>4, <2>5 DEF Next
  <1> QED BY <1>1, <1>2, PTL DEF Spec

(* A replica accepts a withdrawn key no longer than POSITIVE_TTL_MS after  *)
(* the withdrawal: verifyApiKey dates an entry from before its query.      *)
THEOREM WithdrawalIsBounded == Spec => []WithdrawnWithinTTL
  <1>1. IInv => WithdrawnWithinTTL
    BY DEF IInv
  <1> QED BY <1>1, Inductive, PTL

(* No replica's cache accepts a key past the expiresAt verifyApiKey read.  *)
THEOREM ExpiryIsRespected == Spec => []NeverCachedPastExpiry
  <1>1. IInv => NeverCachedPastExpiry
    BY DEF IInv
  <1> QED BY <1>1, Inductive, PTL

------------------------------------------------------------------------------
(***************************************************************************)
(* The counters.  A step moves the requests of one place to another, or    *)
(* puts one more request in a place.                                       *)
(***************************************************************************)
Backed == used \in Nat /\ \E place : Explains(place)

LEMMA AtFinite ==
    ASSUME NEW place, NEW n \in Nat, NEW x
    PROVE  /\ IsFiniteSet(At(place, n, x))
           /\ Cardinality(At(place, n, x)) \in Nat /\ Cardinality(At(place, n, x)) <= n
  <1>1. IsFiniteSet(1 .. n) /\ Cardinality(1 .. n) = n
    BY FS_Interval
  <1>2. At(place, n, x) \in SUBSET (1 .. n)
    BY DEF At
  <1>3. IsFiniteSet(At(place, n, x)) /\ Cardinality(At(place, n, x)) <= Cardinality(1 .. n)
    BY <1>1, <1>2, FS_Subset
  <1> QED BY <1>1, <1>3, FS_CardinalityType

LEMMA PlacesDiffer ==
    /\ Counted # Lost
    /\ \A p : PendingOn(p) # Counted /\ PendingOn(p) # Lost
    /\ \A p, k : FlushingOn(p, k) # Counted /\ FlushingOn(p, k) # Lost
    /\ \A p, q, k : PendingOn(p) # FlushingOn(q, k)
    /\ \A p, q : p # q => PendingOn(p) # PendingOn(q)
    /\ \A p, q, j, k : p # q \/ j # k => FlushingOn(p, j) # FlushingOn(q, k)
  BY DEF Counted, Lost, PendingOn, FlushingOn

(* One more request, in place x. *)
OneMore(place, n, x) == [i \in 1 .. (n + 1) |-> IF i = n + 1 THEN x ELSE place[i]]

LEMMA OneMoreAt ==
    ASSUME NEW place, NEW n \in Nat, NEW x
    PROVE  /\ Cardinality(At(OneMore(place, n, x), n + 1, x)) = Cardinality(At(place, n, x)) + 1
           /\ \A y : y # x => At(OneMore(place, n, x), n + 1, y) = At(place, n, y)
  <1> DEFINE new == OneMore(place, n, x)
  <1>1. \A i \in 1 .. n : i \in 1 .. (n + 1) /\ i # n + 1 /\ new[i] = place[i]
    BY DEF OneMore
  <1>2. n + 1 \in 1 .. (n + 1) /\ new[n + 1] = x /\ n + 1 \notin 1 .. n
    BY DEF OneMore
  <1>3. \A i \in 1 .. (n + 1) : i \in 1 .. n \/ i = n + 1
    OBVIOUS
  <1> HIDE DEF new
  <1>4. At(new, n + 1, x) = At(place, n, x) \cup {n + 1} /\ n + 1 \notin At(place, n, x)
    BY <1>1, <1>2, <1>3 DEF At
  <1>5. \A y : y # x => At(new, n + 1, y) = At(place, n, y)
    BY <1>1, <1>2, <1>3 DEF At
  <1>6. Cardinality(At(new, n + 1, x)) = Cardinality(At(place, n, x)) + 1
    BY <1>4, AtFinite, FS_AddElement
  <1> QED BY <1>5, <1>6 DEF new

(* The requests of place x go to place z. *)
Moved(place, n, x, z) == [i \in 1 .. n |-> IF place[i] = x THEN z ELSE place[i]]

LEMMA MovedAt ==
    ASSUME NEW place, NEW n \in Nat, NEW x, NEW z, x # z
    PROVE  /\ Cardinality(At(Moved(place, n, x, z), n, x)) = 0
           /\ Cardinality(At(Moved(place, n, x, z), n, z))
                = Cardinality(At(place, n, z)) + Cardinality(At(place, n, x))
           /\ \A y : y # x /\ y # z => At(Moved(place, n, x, z), n, y) = At(place, n, y)
  <1> DEFINE new == Moved(place, n, x, z)
  <1>1. \A i \in 1 .. n : new[i] = IF place[i] = x THEN z ELSE place[i]
    BY DEF Moved
  <1> HIDE DEF new
  <1>2. At(new, n, x) = {} /\ At(new, n, z) = At(place, n, z) \cup At(place, n, x)
    BY <1>1 DEF At
  <1>3. At(place, n, z) \cap At(place, n, x) = {}
    BY DEF At
  <1>4. \A y : y # x /\ y # z => At(new, n, y) = At(place, n, y)
    BY <1>1 DEF At
  <1>5. Cardinality(At(new, n, x)) = 0
    BY <1>2, FS_EmptySet
  <1>6. Cardinality(At(new, n, z)) =
          Cardinality(At(place, n, z)) + Cardinality(At(place, n, x)) - Cardinality(At(place, n, z) \cap At(place, n, x))
    BY <1>2, AtFinite, FS_Union
  <1>7. Cardinality(At(place, n, z) \cap At(place, n, x)) = 0
    BY <1>3, FS_EmptySet
  <1>8. Cardinality(At(place, n, z)) \in Nat /\ Cardinality(At(place, n, x)) \in Nat
    BY AtFinite
  <1> QED BY <1>4, <1>5, <1>6, <1>7, <1>8 DEF new

(* Of the counters, a step changes at most those of p. *)
OthersCount(p) ==
    \A q \in Replicas \ {p} :
        proc'[q].pendingUsage = proc[q].pendingUsage /\ proc'[q].flushing = proc[q].flushing

LEMMA CountersKept ==
    ASSUME Backed, used' = used, key'.usageCount = key.usageCount,
           \A q \in Replicas :
               proc'[q].pendingUsage = proc[q].pendingUsage /\ proc'[q].flushing = proc[q].flushing
    PROVE  Backed'
  BY DEF Backed, Explains

LEMMA Explained ==
    ASSUME NEW place, used' \in Nat,
           Cardinality(At(place, used', Counted)) = key'.usageCount,
           \A q \in Replicas :
               /\ Cardinality(At(place, used', PendingOn(q))) = proc'[q].pendingUsage
               /\ \A j \in Flushes :
                     Cardinality(At(place, used', FlushingOn(q, j))) = proc'[q].flushing[j]
    PROVE  Backed'
  BY DEF Backed, Explains

(* recordUsage *)
LEMMA UseRecorded ==
    ASSUME Backed, NEW p \in Replicas, OthersCount(p), used' = used + 1, key'.usageCount = key.usageCount,
           proc'[p].pendingUsage = proc[p].pendingUsage + 1, proc'[p].flushing = proc[p].flushing
    PROVE  Backed'
  <1>1. PICK place : Explains(place)
    BY DEF Backed
  <1> DEFINE new == OneMore(place, used, PendingOn(p))
  <1>2. /\ Cardinality(At(new, used + 1, PendingOn(p))) = Cardinality(At(place, used, PendingOn(p))) + 1
        /\ \A y : y # PendingOn(p) => At(new, used + 1, y) = At(place, used, y)
    <2>1. used \in Nat
      BY DEF Backed
    <2> QED BY <2>1, OneMoreAt
  <1> HIDE DEF new
  <1>3. Cardinality(At(new, used', Counted)) = key'.usageCount
    BY <1>1, <1>2, PlacesDiffer DEF Explains
  <1>4. ASSUME NEW q \in Replicas
        PROVE  /\ Cardinality(At(new, used', PendingOn(q))) = proc'[q].pendingUsage
               /\ \A j \in Flushes :
                     Cardinality(At(new, used', FlushingOn(q, j))) = proc'[q].flushing[j]
    <2>1. CASE q = p
      BY <1>1, <1>2, <2>1, PlacesDiffer DEF Explains
    <2>2. CASE q # p
      BY <1>1, <1>2, <2>2, PlacesDiffer DEF Explains, OthersCount
    <2> QED BY <2>1, <2>2
  <1>u. used' \in Nat
    BY DEF Backed
  <1> QED BY <1>3, <1>4, <1>u, Explained

(* flushUsage takes the pending counts, while other flushes go on. *)
LEMMA FlushTaken ==
    ASSUME Backed, NEW p \in Replicas, NEW k \in Flushes, OthersCount(p), used' = used,
           key'.usageCount = key.usageCount, proc[p].flushing[k] = 0,
           proc'[p].flushing[k] = proc[p].pendingUsage, proc'[p].pendingUsage = 0,
           \A j \in Flushes \ {k} : proc'[p].flushing[j] = proc[p].flushing[j]
    PROVE  Backed'
  <1>1. PICK place : Explains(place)
    BY DEF Backed
  <1> DEFINE new == Moved(place, used, PendingOn(p), FlushingOn(p, k))
  <1>2. /\ Cardinality(At(new, used, PendingOn(p))) = 0
        /\ Cardinality(At(new, used, FlushingOn(p, k))) =
             Cardinality(At(place, used, FlushingOn(p, k))) + Cardinality(At(place, used, PendingOn(p)))
        /\ \A y : y # PendingOn(p) /\ y # FlushingOn(p, k) => At(new, used, y) = At(place, used, y)
    <2>1. used \in Nat
      BY DEF Backed
    <2>2. PendingOn(p) # FlushingOn(p, k)
      BY PlacesDiffer
    <2> QED BY <2>1, <2>2, MovedAt
  <1> HIDE DEF new
  <1>3. Cardinality(At(place, used, PendingOn(p))) \in Nat
    BY AtFinite DEF Backed
  <1>4. Cardinality(At(new, used', Counted)) = key'.usageCount
    BY <1>1, <1>2, PlacesDiffer DEF Explains
  <1>5. ASSUME NEW q \in Replicas
        PROVE  /\ Cardinality(At(new, used', PendingOn(q))) = proc'[q].pendingUsage
               /\ \A j \in Flushes :
                     Cardinality(At(new, used', FlushingOn(q, j))) = proc'[q].flushing[j]
    <2>1. CASE q = p
      <3>1. Cardinality(At(new, used', PendingOn(q))) = proc'[q].pendingUsage
        BY <1>2, <2>1
      <3>2. ASSUME NEW j \in Flushes
            PROVE  Cardinality(At(new, used', FlushingOn(q, j))) = proc'[q].flushing[j]
        <4>1. CASE j = k
          BY <1>1, <1>2, <1>3, <2>1, <4>1 DEF Explains
        <4>2. CASE j # k
          BY <1>1, <1>2, <2>1, <4>2, PlacesDiffer DEF Explains
        <4> QED BY <4>1, <4>2
      <3> QED BY <3>1, <3>2
    <2>2. CASE q # p
      BY <1>1, <1>2, <2>2, PlacesDiffer DEF Explains, OthersCount
    <2> QED BY <2>1, <2>2
  <1>u. used' \in Nat
    BY DEF Backed
  <1> QED BY <1>4, <1>5, <1>u, Explained

(* The increments of a flush reach the row. *)
LEMMA FlushWritten ==
    ASSUME Backed, NEW p \in Replicas, NEW k \in Flushes, OthersCount(p), used' = used,
           key'.usageCount = key.usageCount + proc[p].flushing[k],
           proc'[p].flushing[k] = 0, proc'[p].pendingUsage = proc[p].pendingUsage,
           \A j \in Flushes \ {k} : proc'[p].flushing[j] = proc[p].flushing[j]
    PROVE  Backed'
  <1>1. PICK place : Explains(place)
    BY DEF Backed
  <1> DEFINE new == Moved(place, used, FlushingOn(p, k), Counted)
  <1>2. /\ Cardinality(At(new, used, FlushingOn(p, k))) = 0
        /\ Cardinality(At(new, used, Counted)) =
             Cardinality(At(place, used, Counted)) + Cardinality(At(place, used, FlushingOn(p, k)))
        /\ \A y : y # FlushingOn(p, k) /\ y # Counted => At(new, used, y) = At(place, used, y)
    <2>1. used \in Nat
      BY DEF Backed
    <2>2. FlushingOn(p, k) # Counted
      BY PlacesDiffer
    <2> QED BY <2>1, <2>2, MovedAt
  <1> HIDE DEF new
  <1>3. Cardinality(At(new, used', Counted)) = key'.usageCount
    BY <1>1, <1>2 DEF Explains
  <1>4. ASSUME NEW q \in Replicas
        PROVE  /\ Cardinality(At(new, used', PendingOn(q))) = proc'[q].pendingUsage
               /\ \A j \in Flushes :
                     Cardinality(At(new, used', FlushingOn(q, j))) = proc'[q].flushing[j]
    <2>1. CASE q = p
      BY <1>1, <1>2, <2>1, PlacesDiffer DEF Explains
    <2>2. CASE q # p
      BY <1>1, <1>2, <2>2, PlacesDiffer DEF Explains, OthersCount
    <2> QED BY <2>1, <2>2
  <1>u. used' \in Nat
    BY DEF Backed
  <1> QED BY <1>3, <1>4, <1>u, Explained

(* The requests of the places X are lost. *)
Dropped(place, n, X) == [i \in 1 .. n |-> IF place[i] \in X THEN Lost ELSE place[i]]

LEMMA DroppedAt ==
    ASSUME NEW place, NEW n \in Nat, NEW X, Lost \notin X
    PROVE  /\ \A y \in X : Cardinality(At(Dropped(place, n, X), n, y)) = 0
           /\ \A y : y \notin X /\ y # Lost => At(Dropped(place, n, X), n, y) = At(place, n, y)
  <1> DEFINE new == Dropped(place, n, X)
  <1>1. \A i \in 1 .. n : new[i] = IF place[i] \in X THEN Lost ELSE place[i]
    BY DEF Dropped
  <1> HIDE DEF new
  <1>2. \A y \in X : At(new, n, y) = {}
    BY <1>1 DEF At
  <1>3. \A y : y \notin X /\ y # Lost => At(new, n, y) = At(place, n, y)
    BY <1>1 DEF At
  <1>4. \A y \in X : Cardinality(At(new, n, y)) = 0
    BY <1>2, FS_EmptySet
  <1> QED BY <1>3, <1>4 DEF new

(* The increments of the flushes F are lost, with what is pending or not. *)
LEMMA FlushLost ==
    ASSUME Backed, NEW p \in Replicas, NEW F \in SUBSET Flushes, OthersCount(p), used' = used,
           key'.usageCount = key.usageCount, proc'[p].pendingUsage \in {0, proc[p].pendingUsage},
           \A j \in F : proc'[p].flushing[j] = 0,
           \A j \in Flushes \ F : proc'[p].flushing[j] = proc[p].flushing[j]
    PROVE  Backed'
  <1>1. PICK place : Explains(place)
    BY DEF Backed
  <1> DEFINE G == IF proc'[p].pendingUsage = 0 THEN {PendingOn(p)} ELSE {}
             X == G \cup {FlushingOn(p, j) : j \in F}
             new == Dropped(place, used, X)
  <1>2. /\ Counted \notin X /\ Lost \notin X
        /\ \A q \in Replicas \ {p} : PendingOn(q) \notin X
        /\ \A q \in Replicas \ {p}, j \in Flushes : FlushingOn(q, j) \notin X
        /\ PendingOn(p) \in X <=> proc'[p].pendingUsage = 0
        /\ \A j \in F : FlushingOn(p, j) \in X
        /\ \A j \in Flushes \ F : FlushingOn(p, j) \notin X
    BY PlacesDiffer
  <1> HIDE DEF X, G
  <1>3. /\ \A y \in X : Cardinality(At(new, used, y)) = 0
        /\ \A y : y \notin X /\ y # Lost => At(new, used, y) = At(place, used, y)
    <2>1. used \in Nat
      BY DEF Backed
    <2> QED BY <1>2, <2>1, DroppedAt
  <1> HIDE DEF new
  <1>4. Cardinality(At(new, used', Counted)) = key'.usageCount
    BY <1>1, <1>2, <1>3, PlacesDiffer DEF Explains
  <1>5. ASSUME NEW q \in Replicas
        PROVE  /\ Cardinality(At(new, used', PendingOn(q))) = proc'[q].pendingUsage
               /\ \A j \in Flushes :
                     Cardinality(At(new, used', FlushingOn(q, j))) = proc'[q].flushing[j]
    <2>1. CASE q = p
      <3>1. Cardinality(At(new, used', PendingOn(p))) = proc'[p].pendingUsage
        <4>1. CASE proc'[p].pendingUsage = 0
          BY <1>2, <1>3, <4>1
        <4>2. CASE proc'[p].pendingUsage # 0
          BY <1>1, <1>2, <1>3, <4>2, PlacesDiffer DEF Explains
        <4> QED BY <4>1, <4>2
      <3>2. ASSUME NEW j \in Flushes
            PROVE  Cardinality(At(new, used', FlushingOn(p, j))) = proc'[p].flushing[j]
        <4>1. CASE j \in F
          BY <1>2, <1>3, <4>1
        <4>2. CASE j \notin F
          BY <1>1, <1>2, <1>3, <4>2, PlacesDiffer DEF Explains
        <4> QED BY <4>1, <4>2
      <3> QED BY <2>1, <3>1, <3>2
    <2>2. CASE q # p
      BY <1>1, <1>2, <1>3, <2>2, PlacesDiffer DEF Explains, OthersCount
    <2> QED BY <2>1, <2>2
  <1>u. used' \in Nat
    BY DEF Backed
  <1> QED BY <1>4, <1>5, <1>u, Explained

------------------------------------------------------------------------------
(* The bounds.  A call that has begun brings one bump, so the bumps under  *)
(* way on a replica are at most the calls begun, and fewer while one of    *)
(* them has still to announce itself.                                      *)
Ranged(s, n) ==
    /\ s.lastSeenEpoch \in Epoch
    /\ \A k \in Polls : s.polled[k] \in Epoch \cup {Null}
    /\ s.bumps \in Nat /\ s.bumps <= n
    /\ s.op = "announcing" => s.bumps < n

Bounded ==
    /\ expires \in (0 .. Lifetime) \cup {Null}
    /\ epoch \in Epoch
    /\ ops \in 0 .. MaxOps
    /\ used \in 0 .. MaxUses
    /\ \A p \in Replicas : Ranged(proc[p], ops)

Accounted == Bounded /\ Backed

LEMMA StillRanged ==
    ASSUME NEW s, NEW m \in Nat, NEW n \in Nat, m <= n, Ranged(s, m)
    PROVE  Ranged(s, n)
  BY DEF Ranged

(* A step of one replica, by what becomes of its state. *)
LEMMA OneReplica ==
    ASSUME IInv, Bounded, NEW p \in Replicas, NEW s, proc' = [proc EXCEPT ![p] = s],
           ops' \in 0 .. MaxOps, ops <= ops', Ranged(s, ops'),
           expires' = expires, epoch' \in Epoch, used' \in 0 .. MaxUses
    PROVE  Bounded' /\ OthersCount(p) /\ proc'[p] = s
  <1>1. proc'[p] = s /\ \A q \in Replicas \ {p} : proc'[q] = proc[q]
    BY DEF IInv, Typed
  <1>2. ops \in Nat /\ ops' \in Nat
    BY DEF Bounded
  <1>3. \A q \in Replicas : Ranged(proc'[q], ops')
    <2> SUFFICES ASSUME NEW q \in Replicas PROVE Ranged(proc'[q], ops')
      OBVIOUS
    <2>1. CASE q = p
      BY <1>1, <2>1
    <2>2. CASE q # p
      <3>1. proc'[q] = proc[q] /\ Ranged(proc[q], ops)
        BY <1>1, <2>2 DEF Bounded
      <3> QED BY <1>2, <3>1, StillRanged
    <2> QED BY <2>1, <2>2
  <1>4. (\A q \in Replicas : Ranged(proc[q], ops))'
    BY <1>3 DEF Ranged, Epoch
  <1>5. expires' \in (0 .. Lifetime) \cup {Null}
    BY DEF Bounded
  <1>6. Bounded'
    BY <1>4, <1>5 DEF Bounded, Epoch
  <1>7. OthersCount(p)
    BY <1>1 DEF OthersCount
  <1> QED BY <1>1, <1>6, <1>7

(* Of a replica's state, what its updates do to counters and bounds. *)
SameCounts(s, t) == t.pendingUsage = s.pendingUsage /\ t.flushing = s.flushing

LEMMA UpdateCounts ==
    ASSUME NEW s \in Proc, NEW n \in Nat, Ranged(s, n)
    PROVE  /\ \A op \in {"revoking", "deleting"} :
                 SameCounts(s, Invalidated(s, op)) /\ Ranged(Invalidated(s, op), n + 1)
           /\ s.op = "announcing" =>
                 SameCounts(s, Invalidated(s, "idle")) /\ Ranged(Invalidated(s, "idle"), n)
           /\ SameCounts(s, [s EXCEPT !.op = "idle"]) /\ Ranged([s EXCEPT !.op = "idle"], n)
           /\ SameCounts(s, [s EXCEPT !.op = "announcing"]) /\ Ranged([s EXCEPT !.op = "announcing"], n + 1)
           /\ s.bumps > 0 => /\ SameCounts(s, [s EXCEPT !.bumps = @ - 1])
                             /\ Ranged([s EXCEPT !.bumps = @ - 1], n)
           /\ \A e \in Epoch, k \in Polls :
                 /\ SameCounts(s, [s EXCEPT !.polled[k] = e, !.due = FALSE])
                 /\ Ranged([s EXCEPT !.polled[k] = e, !.due = FALSE], n)
           /\ \A k \in Polls : s.polled[k] # Null =>
                 SameCounts(s, AfterPoll(s, k)) /\ Ranged(AfterPoll(s, k), n)
  <1>0. Epoch \subseteq Int /\ Null \notin Epoch
    BY BoundAssumption DEF Epoch
  <1>1. \A op : /\ Invalidated(s, op).pendingUsage = s.pendingUsage
                /\ Invalidated(s, op).flushing = s.flushing
                /\ Invalidated(s, op).lastSeenEpoch = s.lastSeenEpoch
                /\ Invalidated(s, op).polled = s.polled
                /\ Invalidated(s, op).bumps = s.bumps + 1
                /\ Invalidated(s, op).op = op
    BY DEF Invalidated, Proc
  <1>2. \A op \in {"revoking", "deleting"} :
           SameCounts(s, Invalidated(s, op)) /\ Ranged(Invalidated(s, op), n + 1)
    BY <1>1 DEF SameCounts, Ranged
  <1>3. s.op = "announcing" =>
           SameCounts(s, Invalidated(s, "idle")) /\ Ranged(Invalidated(s, "idle"), n)
    BY <1>1 DEF SameCounts, Ranged
  <1>4. /\ SameCounts(s, [s EXCEPT !.op = "idle"]) /\ Ranged([s EXCEPT !.op = "idle"], n)
        /\ SameCounts(s, [s EXCEPT !.op = "announcing"]) /\ Ranged([s EXCEPT !.op = "announcing"], n + 1)
    BY DEF SameCounts, Ranged, Proc
  <1>5. s.bumps > 0 => /\ SameCounts(s, [s EXCEPT !.bumps = @ - 1])
                       /\ Ranged([s EXCEPT !.bumps = @ - 1], n)
    BY DEF SameCounts, Ranged, Proc
  <1>6. ASSUME NEW e \in Epoch, NEW k \in Polls
        PROVE  /\ SameCounts(s, [s EXCEPT !.polled[k] = e, !.due = FALSE])
               /\ Ranged([s EXCEPT !.polled[k] = e, !.due = FALSE], n)
    <2> DEFINE t == [s EXCEPT !.polled[k] = e, !.due = FALSE]
    <2>1. /\ t.pendingUsage = s.pendingUsage /\ t.flushing = s.flushing
          /\ t.lastSeenEpoch = s.lastSeenEpoch /\ t.polled = [s.polled EXCEPT ![k] = e]
          /\ t.bumps = s.bumps /\ t.op = s.op
      BY DEF Proc
    <2> HIDE DEF t
    <2>2. \A j \in Polls : t.polled[j] \in {e, s.polled[j]}
      BY <2>1 DEF Proc, Reads
    <2>3. SameCounts(s, t) /\ Ranged(t, n)
      BY <2>1, <2>2 DEF SameCounts, Ranged
    <2> QED BY <2>3 DEF t
  <1>7. ASSUME NEW k \in Polls, s.polled[k] # Null
        PROVE  SameCounts(s, AfterPoll(s, k)) /\ Ranged(AfterPoll(s, k), n)
    <2> DEFINE t == AfterPoll(s, k)
    <2>1. /\ t.pendingUsage = s.pendingUsage /\ t.flushing = s.flushing
          /\ t.lastSeenEpoch = s.polled[k] /\ t.polled = [s.polled EXCEPT ![k] = Null]
          /\ t.bumps = s.bumps /\ t.op = s.op
      BY DEF AfterPoll, Proc
    <2> HIDE DEF t
    <2>2. \A j \in Polls : t.polled[j] \in {Null, s.polled[j]}
      BY <2>1 DEF Proc, Reads
    <2>3. SameCounts(s, t) /\ Ranged(t, n)
      BY <1>7, <2>1, <2>2 DEF SameCounts, Ranged
    <2> QED BY <2>3 DEF t
  <1> QED BY <1>2, <1>3, <1>4, <1>5, <1>6, <1>7

(* A step of one replica that touches no counter. *)
LEMMA QuietReplica ==
    ASSUME IInv, Accounted, NEW p \in Replicas, NEW s, proc' = [proc EXCEPT ![p] = s],
           SameCounts(proc[p], s), ops' \in 0 .. MaxOps, ops <= ops', Ranged(s, ops'),
           key'.usageCount = key.usageCount, expires' = expires, epoch' \in Epoch, used' = used
    PROVE  Accounted'
  <1>1. used' \in 0 .. MaxUses
    BY DEF Accounted, Bounded
  <1>2. Bounded' /\ OthersCount(p) /\ proc'[p] = s
    BY <1>1, OneReplica DEF Accounted
  <1>3. \A q \in Replicas :
           proc'[q].pendingUsage = proc[q].pendingUsage /\ proc'[q].flushing = proc[q].flushing
    BY <1>2 DEF OthersCount, SameCounts
  <1>4. Backed'
    BY <1>3, CountersKept DEF Accounted
  <1> QED BY <1>2, <1>4 DEF Accounted

LEMMA AdministerCounts ==
    ASSUME IInv, Accounted, NEW p \in Replicas, Administer(p)
    PROVE  Accounted'
  <1>0. /\ proc[p] \in Proc /\ ops \in Nat /\ Ranged(proc[p], ops)
        /\ ops \in 0 .. MaxOps /\ ops <= ops /\ epoch \in Epoch
        /\ proc \in [Replicas -> Proc]
    BY BoundAssumption DEF IInv, Typed, Accounted, Bounded
  <1>1. ops < MaxOps => ops + 1 \in 0 .. MaxOps /\ ops <= ops + 1
    BY <1>0, BoundAssumption
  <1>2. \A op : [key EXCEPT !.isActive = op].usageCount = key.usageCount
    BY DEF IInv, Typed
  <1>3. \A op : [key EXCEPT !.status = op].usageCount = key.usageCount
    BY DEF IInv, Typed
  <1>4. CASE RevokeApiKey(p) \/ DeleteApiKey(p)
    <2>1. PICK op \in {"revoking", "deleting"} : proc' = [proc EXCEPT ![p] = Invalidated(proc[p], op)]
      BY <1>4 DEF RevokeApiKey, DeleteApiKey
    <2>2. /\ ops' = ops + 1 /\ ops < MaxOps /\ key' = key /\ expires' = expires
          /\ epoch' = epoch /\ used' = used
      BY <1>4 DEF RevokeApiKey, DeleteApiKey, Begin
    <2>3. SameCounts(proc[p], Invalidated(proc[p], op)) /\ Ranged(Invalidated(proc[p], op), ops + 1)
      BY <1>0, UpdateCounts
    <2> QED BY <1>0, <1>1, <2>1, <2>2, <2>3, QuietReplica
  <1>5. CASE RevokeWrite(p) \/ DeleteWrite(p)
    <2>1. proc' = [proc EXCEPT ![p] = [proc[p] EXCEPT !.op = "idle"]]
      BY <1>0, <1>5 DEF RevokeWrite, DeleteWrite
    <2>2. ops' = ops /\ expires' = expires /\ epoch' = epoch /\ used' = used
      BY <1>5 DEF RevokeWrite, DeleteWrite
    <2>3. key'.usageCount = key.usageCount
      BY <1>2, <1>3, <1>5 DEF RevokeWrite, DeleteWrite
    <2>4. SameCounts(proc[p], [proc[p] EXCEPT !.op = "idle"]) /\ Ranged([proc[p] EXCEPT !.op = "idle"], ops)
      BY <1>0, UpdateCounts
    <2> QED BY <1>0, <2>1, <2>2, <2>3, <2>4, QuietReplica
  <1>6. CASE \/ \E S, B \in SUBSET Routes : SetApiKeyRoutes(p, S, B)
             \/ \E rt \in Routes : DetachApiKeyFromRoute(p, rt)
             \/ \E B \in SUBSET Routes : MoveRoutes(p, B)
    <2>1. proc' = [proc EXCEPT ![p] = [proc[p] EXCEPT !.op = "announcing"]]
      BY <1>0, <1>6 DEF SetApiKeyRoutes, DetachApiKeyFromRoute, MoveRoutes
    <2>2. /\ ops' = ops + 1 /\ ops < MaxOps /\ key' = key /\ expires' = expires
          /\ epoch' = epoch /\ used' = used
      BY <1>6 DEF SetApiKeyRoutes, DetachApiKeyFromRoute, MoveRoutes, Begin
    <2>3. /\ SameCounts(proc[p], [proc[p] EXCEPT !.op = "announcing"])
          /\ Ranged([proc[p] EXCEPT !.op = "announcing"], ops + 1)
      BY <1>0, UpdateCounts
    <2> QED BY <1>0, <1>1, <2>1, <2>2, <2>3, QuietReplica
  <1>7. CASE Announce(p)
    <2>1. /\ proc' = [proc EXCEPT ![p] = Invalidated(proc[p], "idle")] /\ proc[p].op = "announcing"
          /\ ops' = ops /\ key' = key /\ expires' = expires /\ epoch' = epoch /\ used' = used
      BY <1>7 DEF Announce
    <2>2. SameCounts(proc[p], Invalidated(proc[p], "idle")) /\ Ranged(Invalidated(proc[p], "idle"), ops)
      BY <1>0, <2>1, UpdateCounts
    <2> QED BY <1>0, <2>1, <2>2, QuietReplica
  <1> QED BY <1>4, <1>5, <1>6, <1>7 DEF Administer

(* Accepting a request *)
LEMMA AcceptCounts ==
    ASSUME IInv, Accounted, NEW p \in Replicas, NEW s, proc' = [proc EXCEPT ![p] = s], Accepted,
           s.pendingUsage = proc[p].pendingUsage + 1, s.flushing = proc[p].flushing,
           Ranged(s, ops), UNCHANGED <<key, expires, epoch, ops>>
    PROVE  Accounted'
  <1>1. used' = used + 1 /\ used' \in 0 .. MaxUses
    BY BoundAssumption DEF Accepted, Accounted, Bounded
  <1>2. ops' \in 0 .. MaxOps /\ ops <= ops' /\ Ranged(s, ops') /\ epoch' \in Epoch /\ expires' = expires
    BY BoundAssumption DEF Accounted, Bounded, Epoch
  <1>3. Bounded' /\ OthersCount(p) /\ proc'[p] = s
    BY <1>1, <1>2, OneReplica DEF Accounted
  <1>4. Backed'
    BY <1>1, <1>3, UseRecorded DEF Accounted
  <1> QED BY <1>3, <1>4 DEF Accounted

(* A step that leaves the counters and what bounds them alone. *)
LEMMA SameAccounts ==
    ASSUME Accounted, UNCHANGED <<key, expires, epoch, proc, ops, used>>
    PROVE  Accounted'
  <1>1. Bounded'
    BY DEF Accounted, Bounded, Ranged, Epoch
  <1>2. Backed'
    BY CountersKept DEF Accounted
  <1> QED BY <1>1, <1>2 DEF Accounted

LEMMA UsageFields ==
    ASSUME NEW s \in Proc, NEW n \in Nat, Ranged(s, n)
    PROVE  /\ RecordUsage(s).pendingUsage = s.pendingUsage + 1
           /\ RecordUsage(s).flushing = s.flushing
           /\ Ranged(RecordUsage(s), n)
  <1>1. /\ RecordUsage(s).pendingUsage = s.pendingUsage + 1 /\ RecordUsage(s).flushing = s.flushing
        /\ RecordUsage(s).lastSeenEpoch = s.lastSeenEpoch /\ RecordUsage(s).polled = s.polled
        /\ RecordUsage(s).bumps = s.bumps /\ RecordUsage(s).op = s.op
    BY DEF RecordUsage, Proc
  <1> QED BY <1>1 DEF Ranged

LEMMA FlushFields ==
    ASSUME NEW s \in Proc, NEW n \in Nat, Ranged(s, n), NEW k \in Flushes
    PROVE  /\ Flushed(s, k).pendingUsage = 0 /\ Flushed(s, k).flushing[k] = s.pendingUsage
           /\ \A j \in Flushes \ {k} : Flushed(s, k).flushing[j] = s.flushing[j]
           /\ Ranged(Flushed(s, k), n)
           /\ [s EXCEPT !.flushing[k] = 0].pendingUsage = s.pendingUsage
           /\ [s EXCEPT !.flushing[k] = 0].flushing[k] = 0
           /\ \A j \in Flushes \ {k} : [s EXCEPT !.flushing[k] = 0].flushing[j] = s.flushing[j]
           /\ Ranged([s EXCEPT !.flushing[k] = 0], n)
  <1> DEFINE t == Flushed(s, k)
             u == [s EXCEPT !.flushing[k] = 0]
  <1>1. /\ t.pendingUsage = 0 /\ t.flushing = [s.flushing EXCEPT ![k] = s.pendingUsage]
        /\ t.lastSeenEpoch = s.lastSeenEpoch /\ t.polled = s.polled
        /\ t.bumps = s.bumps /\ t.op = s.op
    BY DEF Flushed, Proc
  <1>2. /\ u.pendingUsage = s.pendingUsage /\ u.flushing = [s.flushing EXCEPT ![k] = 0]
        /\ u.lastSeenEpoch = s.lastSeenEpoch /\ u.polled = s.polled
        /\ u.bumps = s.bumps /\ u.op = s.op
    BY DEF Proc
  <1>3. s.flushing \in Sent
    BY DEF Proc
  <1> HIDE DEF t, u
  <1>4. Ranged(t, n) /\ Ranged(u, n)
    BY <1>1, <1>2 DEF Ranged
  <1>5. /\ t.flushing[k] = s.pendingUsage /\ u.flushing[k] = 0
        /\ \A j \in Flushes \ {k} : t.flushing[j] = s.flushing[j] /\ u.flushing[j] = s.flushing[j]
    BY <1>1, <1>2, <1>3 DEF Sent
  <1> QED BY <1>1, <1>2, <1>4, <1>5 DEF t, u

LEMMA ServeCounts ==
    ASSUME IInv, Accounted, NEW p \in Replicas, Serve(p)
    PROVE  Accounted'
  <1>0. /\ proc[p] \in Proc /\ ops \in Nat /\ Ranged(proc[p], ops)
        /\ ops \in 0 .. MaxOps /\ ops <= ops /\ epoch \in Epoch /\ used \in 0 .. MaxUses
        /\ proc \in [Replicas -> Proc] /\ Backed /\ Bounded
    BY BoundAssumption DEF IInv, Typed, Accounted, Bounded
  <1>1. CASE BumpRevokeEpoch(p)
    <2>1. /\ proc' = [proc EXCEPT ![p] = [proc[p] EXCEPT !.bumps = @ - 1]] /\ proc[p].bumps > 0
          /\ ops' = ops /\ key' = key /\ expires' = expires /\ epoch' \in Epoch /\ used' = used
      BY <1>0, <1>1 DEF BumpRevokeEpoch
    <2>2. SameCounts(proc[p], [proc[p] EXCEPT !.bumps = @ - 1]) /\ Ranged([proc[p] EXCEPT !.bumps = @ - 1], ops)
      BY <1>0, <2>1, UpdateCounts
    <2> QED BY <1>0, <2>1, <2>2, QuietReplica
  <1>2. CASE \E k \in Polls : PollRead(p, k)
    <2>0. PICK k \in Polls : PollRead(p, k)
      BY <1>2
    <2>1. /\ proc' = [proc EXCEPT ![p] = [proc[p] EXCEPT !.polled[k] = epoch, !.due = FALSE]]
          /\ ops' = ops /\ key' = key /\ expires' = expires /\ epoch' = epoch /\ used' = used
      BY <1>0, <2>0 DEF PollRead
    <2>2. /\ SameCounts(proc[p], [proc[p] EXCEPT !.polled[k] = epoch, !.due = FALSE])
          /\ Ranged([proc[p] EXCEPT !.polled[k] = epoch, !.due = FALSE], ops)
      BY <1>0, UpdateCounts
    <2> QED BY <1>0, <2>1, <2>2, QuietReplica
  <1>3. CASE \E k \in Polls : PollApply(p, k)
    <2>0. PICK k \in Polls : PollApply(p, k)
      BY <1>3
    <2>1. /\ proc' = [proc EXCEPT ![p] = AfterPoll(proc[p], k)] /\ proc[p].polled[k] # Null
          /\ ops' = ops /\ key' = key /\ expires' = expires /\ epoch' = epoch /\ used' = used
      BY <2>0 DEF PollApply
    <2>2. SameCounts(proc[p], AfterPoll(proc[p], k)) /\ Ranged(AfterPoll(proc[p], k), ops)
      BY <1>0, <2>1, UpdateCounts
    <2> QED BY <1>0, <2>1, <2>2, QuietReplica
  <1>4. CASE \E rt \in Routes : VerifyCached(p, rt)
    <2>1. /\ proc' = [proc EXCEPT ![p] = RecordUsage(proc[p])] /\ Accepted
          /\ UNCHANGED <<key, expires, epoch, ops>>
      BY <1>4 DEF VerifyCached
    <2>2. /\ RecordUsage(proc[p]).pendingUsage = proc[p].pendingUsage + 1
          /\ RecordUsage(proc[p]).flushing = proc[p].flushing
          /\ Ranged(RecordUsage(proc[p]), ops)
      BY <1>0, UsageFields
    <2> QED BY <2>1, <2>2, AcceptCounts
  <1>5. CASE \E c \in Checks, rt \in Routes : VerifyAsk(c, p, rt)
    BY <1>5, SameAccounts DEF VerifyAsk
  <1>6. CASE \E k \in Flushes : FlushUsage(p, k)
    <2>0. PICK k \in Flushes : FlushUsage(p, k)
      BY <1>6
    <2> DEFINE s == Flushed(proc[p], k)
    <2>1. /\ proc' = [proc EXCEPT ![p] = s] /\ proc[p].flushing[k] = 0
          /\ UNCHANGED <<key, expires, epoch, ops, used>>
      BY <2>0 DEF FlushUsage
    <2>2. /\ s.pendingUsage = 0 /\ s.flushing[k] = proc[p].pendingUsage
          /\ \A j \in Flushes \ {k} : s.flushing[j] = proc[p].flushing[j]
          /\ Ranged(s, ops)
      <3>1. proc[p] \in Proc /\ ops \in Nat /\ Ranged(proc[p], ops)
        BY <1>0
      <3> QED BY <3>1, FlushFields, ZenonT(30)
    <2> HIDE DEF s
    <2>3. Bounded' /\ OthersCount(p) /\ proc'[p] = s
      <3>1. ops' = ops /\ expires' = expires /\ epoch' = epoch /\ used' = used
        BY <2>1
      <3> QED BY <1>0, <2>1, <2>2, <3>1, OneReplica
    <2>4. Backed'
      BY <1>0, <2>1, <2>2, <2>3, FlushTaken
    <2> QED BY <2>3, <2>4 DEF Accounted
  <1>7. CASE \E k \in Flushes : FlushWrite(p, k) \/ FlushFails(p, k)
    <2>0. PICK k \in Flushes : FlushWrite(p, k) \/ FlushFails(p, k)
      BY <1>7
    <2> DEFINE s == [proc[p] EXCEPT !.flushing[k] = 0]
    <2>1. proc' = [proc EXCEPT ![p] = s] /\ UNCHANGED <<expires, epoch, ops, used>>
      BY <1>0, <2>0 DEF FlushWrite, FlushFails
    <2>2. /\ s.pendingUsage = proc[p].pendingUsage /\ s.flushing[k] = 0
          /\ \A j \in Flushes \ {k} : s.flushing[j] = proc[p].flushing[j]
          /\ Ranged(s, ops)
      <3>1. proc[p] \in Proc /\ ops \in Nat /\ Ranged(proc[p], ops)
        BY <1>0
      <3> QED BY <3>1, FlushFields, ZenonT(30)
    <2> HIDE DEF s
    <2>3. Bounded' /\ OthersCount(p) /\ proc'[p] = s
      <3>1. ops' = ops /\ expires' = expires /\ epoch' = epoch /\ used' = used
        BY <2>1
      <3> QED BY <1>0, <2>1, <2>2, <3>1, OneReplica
    <2>4. CASE FlushWrite(p, k)
      <3>1. key'.usageCount = key.usageCount + proc[p].flushing[k]
        BY <2>4 DEF FlushWrite, IInv, Typed
      <3>2. Backed'
        BY <1>0, <2>1, <2>2, <2>3, <3>1, FlushWritten
      <3> QED BY <2>3, <3>2 DEF Accounted
    <2>5. CASE FlushFails(p, k)
      <3>1. key' = key
        BY <2>5 DEF FlushFails
      <3> DEFINE F == {k}
      <3>2. /\ F \in SUBSET Flushes /\ \A j \in F : proc'[p].flushing[j] = 0
            /\ \A j \in Flushes \ F : proc'[p].flushing[j] = proc[p].flushing[j]
        BY <2>2, <2>3
      <3> HIDE DEF F
      <3>3. Backed'
        BY <1>0, <2>1, <2>2, <2>3, <3>1, <3>2, FlushLost
      <3> QED BY <2>3, <3>3 DEF Accounted
    <2> QED BY <2>0, <2>4, <2>5
  <1>8. CASE Restart(p)
    <2>1. proc' = [proc EXCEPT ![p] = Started] /\ UNCHANGED <<key, expires, epoch, ops, used>>
      BY <1>8 DEF Restart
    <2>2. /\ Started.pendingUsage = 0 /\ \A k \in Flushes : Started.flushing[k] = 0
          /\ Ranged(Started, ops')
      BY <1>0, <2>1, BoundAssumption DEF Started, Ranged, Epoch, NoFlush, NoPoll
    <2>3. Bounded' /\ OthersCount(p) /\ proc'[p] = Started
      BY <1>0, <2>1, <2>2, OneReplica
    <2>4. Backed'
      BY <1>0, <2>1, <2>2, <2>3, FlushLost
    <2> QED BY <2>3, <2>4 DEF Accounted
  <1> QED BY <1>1, <1>2, <1>3, <1>4, <1>5, <1>6, <1>7, <1>8 DEF Serve

LEMMA AnswerCounts ==
    ASSUME IInv, Accounted, NEW c \in Checks, Answer(c)
    PROVE  Accounted'
  <1>1. CASE VerifyFound(c) \/ VerifyRefused(c)
    BY <1>1, SameAccounts DEF VerifyFound, VerifyRefused
  <1>2. CASE VerifyFill(c)
    <2> DEFINE p == check[c].on
               r == RecordUsage(proc[p])
               s == [r EXCEPT !.validCache[check[c].route] = EntryLife(c)]
    <2>1. p \in Replicas
      BY <1>2 DEF VerifyFill, IInv, Placed
    <2>2. proc[p] \in Proc /\ ops \in Nat /\ Ranged(proc[p], ops)
      BY <2>1, BoundAssumption DEF IInv, Typed, Accounted, Bounded
    <2>3. proc' = [proc EXCEPT ![p] = s] /\ Accepted /\ UNCHANGED <<key, expires, epoch, ops>>
      BY <1>2, <2>1 DEF VerifyFill, IInv, Typed
    <2>4. /\ r \in Proc /\ Ranged(r, ops)
          /\ r.pendingUsage = proc[p].pendingUsage + 1 /\ r.flushing = proc[p].flushing
      BY <2>2, UsageOK, UsageFields
    <2> HIDE DEF r
    <2>5. /\ s.pendingUsage = r.pendingUsage /\ s.flushing = r.flushing /\ s.lastSeenEpoch = r.lastSeenEpoch
          /\ s.polled = r.polled /\ s.bumps = r.bumps /\ s.op = r.op
      BY <2>4 DEF Proc
    <2> HIDE DEF s
    <2>6. Ranged(s, ops)
      BY <2>4, <2>5 DEF Ranged
    <2>7. s.pendingUsage = proc[p].pendingUsage + 1 /\ s.flushing = proc[p].flushing
      BY <2>4, <2>5
    <2> HIDE DEF p
    <2> QED BY <2>1, <2>3, <2>6, <2>7, AcceptCounts
  <1> QED BY <1>1, <1>2 DEF Answer

LEMMA CreateCounts ==
    ASSUME IInv, Accounted, NEW S \in SUBSET Routes, NEW B \in SUBSET Routes,
           NEW e \in {Lifetime, Null}, CreateApiKey(S, B, e)
    PROVE  Accounted'
  <1>1. UNCHANGED <<epoch, proc, ops, used>> /\ key'.usageCount = key.usageCount
    BY DEF CreateApiKey, IInv, Typed
  <1>2. expires' \in (0 .. Lifetime) \cup {Null}
    BY DEF CreateApiKey
  <1>3. Bounded'
    BY <1>1, <1>2 DEF Accounted, Bounded, Ranged, Epoch
  <1>4. Backed'
    BY <1>1, CountersKept DEF Accounted
  <1> QED BY <1>3, <1>4 DEF Accounted

LEMMA TickCounts ==
    ASSUME IInv, Accounted, Tick
    PROVE  Accounted'
  <1>1. UNCHANGED <<key, epoch, ops, used>>
    BY DEF Tick
  <1>2. ASSUME NEW p \in Replicas
        PROVE  /\ SameCounts(proc[p], proc'[p])
               /\ proc'[p].lastSeenEpoch = proc[p].lastSeenEpoch /\ proc'[p].polled = proc[p].polled
               /\ proc'[p].bumps = proc[p].bumps /\ proc'[p].op = proc[p].op
    BY <1>2, ZenonT(60) DEF Tick, SameCounts, IInv, Typed, Proc
  <1>3. expires' \in (0 .. Lifetime) \cup {Null}
    <2>1. CASE expires = Null
      BY <2>1 DEF Tick
    <2>2. CASE expires # Null
      <3>1. expires \in 0 .. Lifetime /\ expires' = Less(expires)
        BY <2>2 DEF Tick, Accounted, Bounded
      <3> QED BY <3>1 DEF Less
    <2> QED BY <2>1, <2>2
  <1>4. \A p \in Replicas : Ranged(proc'[p], ops')
    BY <1>1, <1>2 DEF Accounted, Bounded, Ranged
  <1>5. (\A p \in Replicas : Ranged(proc[p], ops))'
    BY <1>4 DEF Ranged, Epoch
  <1>6. Bounded'
    BY <1>1, <1>3, <1>5 DEF Accounted, Bounded, Epoch
  <1>7. Backed'
    BY <1>1, <1>2, CountersKept DEF Accounted, SameCounts
  <1> QED BY <1>6, <1>7 DEF Accounted

LEMMA InitCounts == Init => Accounted
  <1> SUFFICES ASSUME Init PROVE Accounted
    OBVIOUS
  <1>1. Ranged(Started, 0)
    BY BoundAssumption DEF Started, Ranged, Epoch, NoPoll
  <1>2. Bounded
    BY <1>1, BoundAssumption DEF Init, Bounded, Epoch
  <1>3. \A x : At(<<>>, 0, x) = {}
    BY DEF At
  <1>4. \A x : Cardinality(At(<<>>, 0, x)) = 0
    BY <1>3, FS_EmptySet
  <1>5. used = 0 /\ key.usageCount = 0 /\ \A p \in Replicas :
           proc[p].pendingUsage = 0 /\ \A k \in Flushes : proc[p].flushing[k] = 0
    BY DEF Init, Started, NoFlush
  <1>6. Explains(<<>>)
    BY <1>4, <1>5 DEF Explains
  <1>7. Backed
    BY <1>5, <1>6 DEF Backed
  <1> QED BY <1>2, <1>7 DEF Accounted

(* What the counters show of an accounted state. *)
LEMMA CountersBounded ==
    ASSUME IInv, Accounted
    PROVE  /\ key.usageCount \in 0 .. MaxUses /\ key.usageCount <= used
           /\ \A p \in Replicas :
                 /\ proc[p].pendingUsage \in 0 .. MaxUses
                 /\ \A k \in Flushes : proc[p].flushing[k] \in 0 .. MaxUses
  <1>1. PICK place : Explains(place)
    BY DEF Accounted, Backed
  <1>2. used \in Nat /\ used <= MaxUses
    BY DEF Accounted, Bounded
  <1>3. \A x : Cardinality(At(place, used, x)) \in Nat /\ Cardinality(At(place, used, x)) <= used
    BY <1>2, AtFinite
  <1>4. \A x : Cardinality(At(place, used, x)) \in 0 .. MaxUses
    BY <1>2, <1>3, BoundAssumption
  <1> QED BY <1>1, <1>3, <1>4 DEF Explains

(* The bounds and the account of the requests hold throughout. *)
THEOREM CountsInductive == Spec => []Accounted
  <1>1. Init => Accounted
    BY InitCounts
  <1>2. IInv /\ Accounted /\ [Next]_vars => Accounted'
    <2> SUFFICES ASSUME IInv, Accounted, [Next]_vars PROVE Accounted'
      OBVIOUS
    <2>1. CASE \E S, B \in SUBSET Routes, e \in {Lifetime, Null} : CreateApiKey(S, B, e)
      BY <2>1, CreateCounts
    <2>2. CASE \E p \in Replicas : Administer(p) \/ Serve(p)
      BY <2>2, AdministerCounts, ServeCounts
    <2>3. CASE \E c \in Checks : Answer(c)
      BY <2>3, AnswerCounts
    <2>4. CASE Tick
      BY <2>4, TickCounts
    <2>5. CASE UNCHANGED vars
      BY <2>5, SameAccounts DEF vars
    <2> QED BY <2>1, <2>2, <2>3, <2>4, <2>5 DEF Next
  <1> QED BY <1>1, <1>2, Inductive, PTL DEF Spec

(* The types, with the bounds on counters, epochs and calls under way.     *)
THEOREM TypeCorrect == Spec => []TypeOK
  <1>1. IInv /\ Accounted => TypeOK
    <2> SUFFICES ASSUME IInv, Accounted PROVE TypeOK
      OBVIOUS
    <2>1. key \in Key
      BY CountersBounded DEF IInv, Typed, Key
    <2>2. ASSUME NEW p \in Replicas
          PROVE  proc[p] \in Process
      <3>1. proc[p] \in Proc
        BY <2>2 DEF IInv, Typed
      <3>2. proc[p].pendingUsage \in 0 .. MaxUses /\ proc[p].flushing \in [Flushes -> 0 .. MaxUses]
        BY <2>2, <3>1, CountersBounded DEF Proc, Sent
      <3>3. /\ proc[p].lastSeenEpoch \in Epoch /\ proc[p].polled \in [Polls -> Epoch \cup {Null}]
            /\ proc[p].bumps \in 0 .. MaxOps
        BY <2>2, <3>1, BoundAssumption DEF Accounted, Bounded, Ranged, Proc, Reads
      <3> QED BY <3>1, <3>2, <3>3 DEF Proc, Process, Lives, Ops
    <2>3. proc \in [Replicas -> Process]
      BY <2>2 DEF IInv, Typed
    <2> QED BY <2>1, <2>3 DEF IInv, Typed, Accounted, Bounded, TypeOK, Lives
  <1> QED BY <1>1, Inductive, CountsInductive, PTL

(* Every accepted request is in one place: counted by the row, pending on  *)
(* one replica, in one of its flushes, or lost; however many flushes of a  *)
(* replica overlap, fail or die with it, flushUsage has none counted twice.*)
THEOREM UsageIsAccounted == Spec => []UsageNotOvercounted
  <1>1. Accounted => UsageNotOvercounted
    <2> SUFFICES ASSUME Accounted PROVE UsageNotOvercounted
      OBVIOUS
    <2>1. PICK place : Explains(place)
      BY DEF Accounted, Backed
    <2> DEFINE within == [i \in 1 .. used |-> IF place[i] \in Places THEN place[i] ELSE Lost]
    <2>2. within \in [1 .. used -> Places]
      BY DEF Places
    <2>3. \A i \in 1 .. used : within[i] = IF place[i] \in Places THEN place[i] ELSE Lost
      OBVIOUS
    <2> HIDE DEF within
    <2>4. ASSUME NEW x \in Places, x # Lost
          PROVE  At(within, used, x) = At(place, used, x)
      BY <2>3, <2>4 DEF At
    <2>5. Counted \in Places /\ \A p \in Replicas :
           PendingOn(p) \in Places /\ \A k \in Flushes : FlushingOn(p, k) \in Places
      BY DEF Places
    <2>6. Explains(within)
      BY <2>1, <2>4, <2>5, PlacesDiffer DEF Explains
    <2> QED BY <2>2, <2>6 DEF UsageNotOvercounted
  <1> QED BY <1>1, CountsInductive, PTL
==============================================================================
