--------------------------- MODULE DispensingProofs ---------------------------
(***************************************************************************)
(* Proofs about Dispensing, for any number of feeds of any length.         *)
(* DispensingInv is inductive: that a feed is announced once rests on what *)
(* the tasks have in hand (FeedsKnown), that the client's lock is never    *)
(* lost on who may hold it (LockOwned).                                    *)
(***************************************************************************)
EXTENDS Dispensing, TLAPS

-----------------------------------------------------------------------------
(* The places of a feed in a sequence that has got one more element. *)
LEMMA PlacesOfAppend ==
  ASSUME NEW s \in Seq(Feeds), NEW e \in Feeds, NEW f
  PROVE  /\ Append(s, e) \in Seq(Feeds)
         /\ f # e => Places(f, Append(s, e)) = Places(f, s)
         /\ Places(f, s) # {} => Places(f, Append(s, e)) # {}
         /\ Places(e, Append(s, e)) = Places(e, s) \cup {Len(s) + 1}
  BY DEF Places

(* The feeder starts with nothing in hand. *)
LEMMA DispensingStarts == Init => DispensingInv
<1> SUFFICES ASSUME Init PROVE DispensingInv
  OBVIOUS
<1>1. TypeOK
  BY DispensingAssumption DEF Init, TypeOK, Feeders
<1>2. ImageReturnsAll /\ LockOwned
  BY DEF Init, ImageReturnsAll, LockOwned, Feeders
<1>3. FeedsKnown /\ AnnouncedOnceEnded
  <2>1. \A f : Places(f, published) = {}
    BY DEF Init, Places
  <2>2. \A t \in Feeders : ~Busy(t)
    BY DEF Init, Busy, Feeders
  <2>3. \A f \in Feeds : ~(f <= feeds)
    BY DispensingAssumption DEF Init, Feeds
  <2>4. \A t \in Feeders : step[t] = "idle"
    BY DEF Init
  <2> QED
    BY <2>1, <2>2, <2>3, <2>4 DEF FeedsKnown, AnnouncedOnceEnded
<1> QED
  BY <1>1, <1>2, <1>3 DEF DispensingInv

(* Types. *)
LEMMA TypesKept == DispensingInv /\ [Next]_vars => TypeOK'
<1> SUFFICES ASSUME DispensingInv, [Next]_vars PROVE TypeOK'
  OBVIOUS
<1> USE DispensingAssumption DEF DispensingInv, Feeds, Feeders
<1>1. ASSUME NEW t \in Feeders, NEW rotations \in 0..MaxRotations,
             BeginFeed(t, rotations)
      PROVE  TypeOK'
  <2>1. feeds' \in 0..MaxFeeds /\ unsaid' \subseteq Feeds
    BY <1>1 DEF BeginFeed, TypeOK
  <2>2. lock' \in {"free", "image"} \cup Feeders
    BY <1>1 DEF BeginFeed, TakesOrder, TypeOK
  <2>3. /\ feed' \in [Feeders -> 0..MaxFeeds]
        /\ left' \in [Feeders -> 0..MaxRotations]
        /\ step' \in [Feeders -> {"idle", "turning", "publishing", "weighing", "sending"}]
    BY <1>1 DEF BeginFeed, TypeOK
  <2> QED
    BY <1>1, <2>1, <2>2, <2>3 DEF BeginFeed, imageVars, TypeOK
<1>2. ASSUME NEW t \in Feeders, FeedStep(t)
      PROVE  TypeOK'
  <2>1. CASE Turn(t)
    BY <2>1 DEF Turn, imageVars, TypeOK
  <2>2. CASE StopTurning(t)
    <3>1. feed[t] \in Feeds
      BY <2>2 DEF StopTurning, TypeOK, FeedsKnown, Busy
    <3> QED
      BY <2>2, <3>1 DEF StopTurning, imageVars, TypeOK
  <2>3. CASE PublishLast(t)
    <3>1. feed[t] \in Feeds
      BY <2>3 DEF PublishLast, TypeOK, FeedsKnown, Busy
    <3> QED
      BY <2>3, <3>1 DEF PublishLast, imageVars, TypeOK
  <2>4. CASE Weighed(t)
    BY <2>4 DEF Weighed, imageVars, TypeOK
  <2>5. CASE SendQuantity(t)
    BY <2>5 DEF SendQuantity, imageVars, TypeOK
  <2> QED
    BY <1>2, <2>1, <2>2, <2>3, <2>4, <2>5 DEF FeedStep
<1>3. CASE BeginReport
  BY <1>3 DEF BeginReport, imageVars, TypeOK
<1>4. CASE LinkChanges
  BY <1>4 DEF LinkChanges, feedVars, imageVars, TypeOK
<1>5. CASE ImageStep
  BY <1>5 DEF ImageStep, TakeFrame, TakeSemaphore, LockForImage, SendImage,
              ReturnFrame, feedVars, imageVars, TypeOK
<1>6. CASE UNCHANGED vars
  BY <1>6 DEF vars, feedVars, imageVars, TypeOK
<1> QED
  BY <1>1, <1>2, <1>3, <1>4, <1>5, <1>6 DEF Next

(* Who has the lock, the frame and the semaphore. *)
LEMMA HoldersKept == DispensingInv /\ [Next]_vars => (ImageReturnsAll /\ LockOwned)'
<1> SUFFICES ASSUME DispensingInv, [Next]_vars PROVE (ImageReturnsAll /\ LockOwned)'
  OBVIOUS
<1> USE DEF DispensingInv, ImageReturnsAll, LockOwned, Feeders
<1>1. ASSUME NEW t \in Feeders, NEW rotations \in 0..MaxRotations,
             BeginFeed(t, rotations)
      PROVE  (ImageReturnsAll /\ LockOwned)'
  BY <1>1 DEF BeginFeed, TakesOrder, imageVars, TypeOK
<1>2. ASSUME NEW t \in Feeders, FeedStep(t)
      PROVE  (ImageReturnsAll /\ LockOwned)'
  <2>1. CASE Turn(t)
    BY <2>1 DEF Turn, imageVars
  <2>2. CASE StopTurning(t)
    BY <2>2 DEF StopTurning, imageVars, TypeOK
  <2>3. CASE PublishLast(t)
    BY <2>3 DEF PublishLast, imageVars, TypeOK
  <2>4. CASE Weighed(t)
    BY <2>4 DEF Weighed, imageVars, TypeOK
  <2>5. CASE SendQuantity(t)
    BY <2>5 DEF SendQuantity, MayTake, imageVars, TypeOK
  <2> QED
    BY <1>2, <2>1, <2>2, <2>3, <2>4, <2>5 DEF FeedStep
<1>3. CASE BeginReport
  BY <1>3 DEF BeginReport, imageVars, TypeOK
<1>4. CASE LinkChanges
  BY <1>4 DEF LinkChanges, feedVars, imageVars
<1>5. CASE ImageStep
  BY <1>5 DEF ImageStep, TakeFrame, TakeSemaphore, LockForImage, SendImage,
              ReturnFrame, feedVars, imageVars, TypeOK
<1>6. CASE UNCHANGED vars
  BY <1>6 DEF vars, feedVars, imageVars
<1> QED
  BY <1>1, <1>2, <1>3, <1>4, <1>5, <1>6 DEF Next

(* What is known of the feeds depends on the feed variables only. *)
LEMMA FeedsUntouched ==
  ASSUME DispensingInv, UNCHANGED feedVars
  PROVE  (FeedsKnown /\ AnnouncedOnceEnded)'
  BY DEF DispensingInv, FeedsKnown, AnnouncedOnceEnded, feedVars, Places, Busy, UnderWay

(* A feed that begins is known to one task only. *)
LEMMA FeedsKnownBegin ==
  ASSUME DispensingInv, NEW t \in Feeders, NEW rotations \in 0..MaxRotations,
         BeginFeed(t, rotations)
  PROVE  (FeedsKnown /\ AnnouncedOnceEnded)'
<1> USE DEF DispensingInv
<1> DEFINE new == feeds + 1
<1>1. /\ feeds \in Nat /\ new \in Feeds /\ feeds' = new
      /\ step \in [Feeders -> {"idle", "turning", "publishing", "weighing", "sending"}]
      /\ feed \in [Feeders -> 0..MaxFeeds]
  BY DispensingAssumption DEF BeginFeed, TypeOK, Feeds
<1>2. /\ published' = published /\ ended' = ended
      /\ \A f : f \in unsaid => f \in unsaid'
  BY DEF BeginFeed
<1>3. /\ ~Busy(t)
      /\ step'[t] = "turning" /\ feed'[t] = new
      /\ \A u \in Feeders : u # t => step'[u] = step[u] /\ feed'[u] = feed[u]
  BY <1>1 DEF BeginFeed, Busy
<1>4. \A u \in Feeders : Busy(u)' <=> u = t \/ Busy(u)
  BY <1>3 DEF Busy
<1>5. \A u \in Feeders : Busy(u) => feed[u] \in 1..feeds /\ u # t
  BY <1>3 DEF FeedsKnown
<1>6. \A f : /\ Places(f, published') = Places(f, published)
             /\ Places(f, ended') = Places(f, ended)
  BY <1>2
<1>7. FeedsKnown'
  <2>1. \A u \in Feeders : Busy(u)' => feed'[u] \in 1..feeds'
    BY <1>1, <1>3, <1>4, <1>5
  <2>2. \A u, w \in Feeders : Busy(u)' /\ Busy(w)' /\ feed'[u] = feed'[w] => u = w
    <3> SUFFICES ASSUME NEW u \in Feeders, NEW w \in Feeders,
                        Busy(u)', Busy(w)', feed'[u] = feed'[w]
                 PROVE  u = w
      OBVIOUS
    <3>1. CASE u = t /\ w # t
      BY <3>1, <1>1, <1>3, <1>4, <1>5
    <3>2. CASE w = t /\ u # t
      BY <3>2, <1>1, <1>3, <1>4, <1>5
    <3>3. CASE u # t /\ w # t
      BY <3>3, <1>3, <1>4 DEF FeedsKnown
    <3> QED
      BY <3>1, <3>2, <3>3
  <2>3. Places(new, published) = {}
    BY <1>1 DEF FeedsKnown
  <2>4. \A u \in Feeders : Busy(u)' => Places(feed'[u], published') = {}
    BY <1>3, <1>4, <1>6, <2>3 DEF FeedsKnown
  <2>5. \A u \in Feeders : step'[u] = "publishing" => Places(feed'[u], ended') # {}
    BY <1>3, <1>6 DEF FeedsKnown
  <2>6. \A f \in Feeds : f > feeds' => Places(f, published') = {}
    <3>1. \A f \in Feeds : f > feeds' => f > feeds
      BY <1>1 DEF Feeds
    <3> QED
      BY <3>1, <1>6 DEF FeedsKnown
  <2> QED
    BY <2>1, <2>2, <2>4, <2>5, <2>6 DEF FeedsKnown
<1>8. AnnouncedOnceEnded'
  <2> SUFFICES ASSUME NEW f \in Feeds
               PROVE  /\ \A i, j \in Places(f, published') : i = j
                      /\ Places(f, published') # {} => Places(f, ended') # {}
                      /\ f <= feeds' /\ ~UnderWay(f)'
                           => f \in unsaid' \/ Places(f, published') # {}
    BY DEF AnnouncedOnceEnded
  <2>1. f = new => UnderWay(f)'
    <3> SUFFICES ASSUME f = new PROVE UnderWay(f)'
      OBVIOUS
    <3>1. Busy(t)' /\ feed'[t] = f
      BY <1>3, <1>4
    <3> QED
      BY <3>1 DEF UnderWay
  <2>2. UnderWay(f) => UnderWay(f)'
    BY <1>3, <1>4, <1>5 DEF UnderWay
  <2>3. f <= feeds' => f = new \/ f <= feeds
    BY <1>1 DEF Feeds
  <2> QED
    <3>1. /\ \A i, j \in Places(f, published') : i = j
          /\ Places(f, published') # {} => Places(f, ended') # {}
      BY <1>6 DEF AnnouncedOnceEnded
    <3>2. f <= feeds' /\ ~UnderWay(f)' => f \in unsaid' \/ Places(f, published') # {}
      <4> SUFFICES ASSUME f <= feeds', ~UnderWay(f)'
                   PROVE  f \in unsaid' \/ Places(f, published') # {}
        OBVIOUS
      <4>1. f <= feeds /\ ~UnderWay(f)
        BY <2>1, <2>2, <2>3
      <4>2. f \in unsaid \/ Places(f, published) # {}
        BY <4>1 DEF AnnouncedOnceEnded
      <4> QED
        BY <4>2, <1>2, <1>6
    <3> QED
      BY <3>1, <3>2
<1> QED
  BY <1>7, <1>8

(* A step of a feed that moves no feed from hand to hand: the set of feeds
   under way and the histories stay. *)
LEMMA FeedsKnownCarried ==
  ASSUME DispensingInv,
         UNCHANGED <<feeds, unsaid, published, ended>>,
         \A u \in Feeders : Busy(u)' <=> Busy(u),
         \A u \in Feeders : Busy(u) => feed'[u] = feed[u],
         \A u \in Feeders : step'[u] = "publishing" <=> step[u] = "publishing"
  PROVE  (FeedsKnown /\ AnnouncedOnceEnded)'
<1> USE DEF DispensingInv
<1>1. \A f : /\ Places(f, published') = Places(f, published)
             /\ Places(f, ended') = Places(f, ended)
  OBVIOUS
<1>2. \A f : UnderWay(f)' <=> UnderWay(f)
  BY DEF UnderWay
<1>3. \A u \in Feeders : step[u] = "publishing" => Busy(u)
  BY DEF Busy
<1>4. FeedsKnown'
  BY <1>1, <1>3 DEF FeedsKnown
<1>5. AnnouncedOnceEnded'
  BY <1>1, <1>2 DEF AnnouncedOnceEnded
<1> QED
  BY <1>4, <1>5

(* The wheel stops: the feed is ended, and announced next or unsaid. *)
LEMMA FeedsKnownStop ==
  ASSUME DispensingInv, NEW t \in Feeders, StopTurning(t)
  PROVE  (FeedsKnown /\ AnnouncedOnceEnded)'
<1> USE DEF DispensingInv
<1> DEFINE g == feed[t]
<1>1. /\ step \in [Feeders -> {"idle", "turning", "publishing", "weighing", "sending"}]
      /\ ended \in Seq(Feeds) /\ Busy(t)
  BY DEF StopTurning, TypeOK, Busy
<1>2. g \in Feeds
  BY <1>1 DEF TypeOK, FeedsKnown, Feeds
<1>3. /\ UNCHANGED <<feed, feeds, unsaid, published>>
      /\ ended' = Append(ended, g)
      /\ step'[t] = IF g \in unsaid THEN "weighing" ELSE "publishing"
      /\ \A u \in Feeders : u # t => step'[u] = step[u]
  BY <1>1 DEF StopTurning
<1>4. \A u \in Feeders : Busy(u)' => Busy(u)
  BY <1>1, <1>3 DEF Busy
<1>5. \A f : Places(f, ended) # {} => Places(f, ended') # {}
  <2> SUFFICES ASSUME NEW f, Places(f, ended) # {} PROVE Places(f, ended') # {}
    OBVIOUS
  <2>1. Places(f, Append(ended, g)) # {}
    BY <1>1, <1>2, PlacesOfAppend
  <2> QED
    BY <2>1, <1>3
<1>6. Places(g, ended') # {}
  BY <1>1, <1>2, <1>3, PlacesOfAppend
<1>7. \A f : Places(f, published') = Places(f, published)
  BY <1>3
<1>8. FeedsKnown'
  <2>1. \A u \in Feeders : step'[u] = "publishing" => Places(feed'[u], ended') # {}
    BY <1>3, <1>5, <1>6 DEF FeedsKnown
  <2> QED
    BY <1>3, <1>4, <1>7, <2>1 DEF FeedsKnown
<1>9. \A f : UnderWay(f) => UnderWay(f)' \/ f \in unsaid
  <2> SUFFICES ASSUME NEW f, NEW u \in Feeders, Busy(u), feed[u] = f
               PROVE  UnderWay(f)' \/ f \in unsaid
    BY DEF UnderWay
  <2>1. CASE u # t
    BY <2>1, <1>3 DEF Busy, UnderWay
  <2>2. CASE u = t
    BY <2>2, <1>3 DEF Busy, UnderWay
  <2> QED
    BY <2>1, <2>2
<1>10. AnnouncedOnceEnded'
  BY <1>3, <1>5, <1>7, <1>9 DEF AnnouncedOnceEnded
<1> QED
  BY <1>8, <1>10

(* The message: the feed leaves the hands of its task. *)
LEMMA FeedsKnownPublish ==
  ASSUME DispensingInv, NEW t \in Feeders, PublishLast(t)
  PROVE  (FeedsKnown /\ AnnouncedOnceEnded)'
<1> USE DEF DispensingInv
<1> DEFINE g == feed[t]
<1>1. /\ step \in [Feeders -> {"idle", "turning", "publishing", "weighing", "sending"}]
      /\ published \in Seq(Feeds) /\ Busy(t) /\ step[t] = "publishing"
  BY DEF PublishLast, TypeOK, Busy
<1>2. g \in Feeds /\ g <= feeds
  BY <1>1 DEF TypeOK, FeedsKnown, Feeds
<1>3. /\ UNCHANGED <<feed, feeds, unsaid, ended>>
      /\ published' = Append(published, g)
      /\ step'[t] = "weighing"
      /\ \A u \in Feeders : u # t => step'[u] = step[u]
  BY <1>1 DEF PublishLast
<1>4. \A u \in Feeders : Busy(u)' <=> Busy(u) /\ u # t
  BY <1>1, <1>3 DEF Busy
<1>5. \A f : f # g => Places(f, published') = Places(f, published)
  BY <1>1, <1>2, <1>3, PlacesOfAppend
<1>6. Places(g, published') = {Len(published) + 1}
  <2>1. Places(g, published) = {}
    BY <1>1 DEF FeedsKnown
  <2> QED
    BY <1>1, <1>2, <1>3, <2>1, PlacesOfAppend
<1>7. Places(g, ended) # {}
  BY <1>1 DEF FeedsKnown
<1>8. FeedsKnown'
  <2>1. \A u \in Feeders : Busy(u)' => feed[u] # g
    BY <1>1, <1>4 DEF FeedsKnown
  <2>2. \A u \in Feeders : step'[u] = "publishing" => step[u] = "publishing"
    BY <1>3
  <2>3. \A f \in Feeds : f > feeds => f # g
    <3>1. feeds \in Nat /\ g \in Nat /\ g <= feeds
      BY <1>2 DEF TypeOK, Feeds
    <3> QED
      BY <3>1 DEF Feeds
  <2>4. \A f \in Feeds : f > feeds' => Places(f, published') = {}
    BY <1>3, <1>5, <2>3 DEF FeedsKnown
  <2> QED
    BY <1>3, <1>4, <1>5, <2>1, <2>2, <2>4 DEF FeedsKnown
<1>9. AnnouncedOnceEnded'
  <2> SUFFICES ASSUME NEW f \in Feeds
               PROVE  /\ \A i, j \in Places(f, published') : i = j
                      /\ Places(f, published') # {} => Places(f, ended') # {}
                      /\ f <= feeds' /\ ~UnderWay(f)'
                           => f \in unsaid' \/ Places(f, published') # {}
    BY DEF AnnouncedOnceEnded
  <2>1. CASE f = g
    BY <2>1, <1>3, <1>6, <1>7
  <2>2. CASE f # g
    <3>1. UnderWay(f) => UnderWay(f)'
      BY <2>2, <1>3, <1>4 DEF UnderWay
    <3> QED
      BY <2>2, <3>1, <1>3, <1>5 DEF AnnouncedOnceEnded
  <2> QED
    BY <2>1, <2>2
<1> QED
  BY <1>8, <1>9

(* The two parts together, for every step. *)
LEMMA FeedsKept == DispensingInv /\ [Next]_vars => (FeedsKnown /\ AnnouncedOnceEnded)'
<1> SUFFICES ASSUME DispensingInv, [Next]_vars
             PROVE  (FeedsKnown /\ AnnouncedOnceEnded)'
  OBVIOUS
<1> DEFINE Steps == {"idle", "turning", "publishing", "weighing", "sending"}
<1>1. step \in [Feeders -> Steps] /\ feed \in [Feeders -> 0..MaxFeeds]
  BY DEF DispensingInv, TypeOK
<1>2. ASSUME NEW t \in Feeders, NEW rotations \in 0..MaxRotations,
             BeginFeed(t, rotations)
      PROVE  (FeedsKnown /\ AnnouncedOnceEnded)'
  BY <1>2, FeedsKnownBegin
<1>3. ASSUME NEW t \in Feeders, FeedStep(t)
      PROVE  (FeedsKnown /\ AnnouncedOnceEnded)'
  <2>1. CASE Turn(t)
    BY <2>1, FeedsKnownCarried DEF Turn, Busy
  <2>2. CASE StopTurning(t)
    BY <2>2, FeedsKnownStop
  <2>3. CASE PublishLast(t)
    BY <2>3, FeedsKnownPublish
  <2>4. CASE Weighed(t)
    <3>1. /\ UNCHANGED <<feed, feeds, unsaid, published, ended>>
          /\ \A u \in Feeders : Busy(u)' <=> Busy(u)
          /\ \A u \in Feeders : step'[u] = "publishing" <=> step[u] = "publishing"
      BY <2>4, <1>1 DEF Weighed, Busy
    <3> QED
      BY <3>1, FeedsKnownCarried
  <2>5. CASE SendQuantity(t)
    <3>1. /\ UNCHANGED <<feed, feeds, unsaid, published, ended>>
          /\ \A u \in Feeders : Busy(u)' <=> Busy(u)
          /\ \A u \in Feeders : step'[u] = "publishing" <=> step[u] = "publishing"
      BY <2>5, <1>1 DEF SendQuantity, Busy
    <3> QED
      BY <3>1, FeedsKnownCarried
  <2> QED
    BY <1>3, <2>1, <2>2, <2>3, <2>4, <2>5 DEF FeedStep
<1>4. CASE BeginReport
  <2>1. /\ UNCHANGED <<feeds, unsaid, published, ended>>
        /\ \A u \in Feeders : Busy(u)' <=> Busy(u)
        /\ \A u \in Feeders : step'[u] = "publishing" <=> step[u] = "publishing"
        /\ \A u \in Feeders : Busy(u) => feed'[u] = feed[u]
    BY <1>4, <1>1 DEF BeginReport, Busy, Feeders
  <2> QED
    BY <2>1, FeedsKnownCarried
<1>5. CASE LinkChanges \/ ImageStep \/ UNCHANGED vars
  <2>1. UNCHANGED feedVars
    BY <1>5 DEF LinkChanges, ImageStep, TakeFrame, TakeSemaphore, LockForImage,
                SendImage, ReturnFrame, vars
  <2> QED
    BY <2>1, FeedsUntouched
<1> QED
  BY <1>2, <1>3, <1>4, <1>5 DEF Next

LEMMA DispensingInductive == DispensingInv /\ [Next]_vars => DispensingInv'
  BY TypesKept, HoldersKept, FeedsKept DEF DispensingInv

-----------------------------------------------------------------------------
(* The two tasks, the lock and the feeds stay in the inductive invariant: the
   lock has the owner the steps of the tasks say (client.c:63-67, 200-238),
   and every feed is in one task's hand or announced (croquettes.c:13-31). *)
THEOREM DispensingInvariance == Spec => []DispensingInv
  BY DispensingStarts, DispensingInductive, PTL DEF Spec

(* A feed that is over is announced exactly once and only after its wheel
   has stopped, for any number of feeds: distribute_croquettes run by two
   tasks at once (croquettes.c:13-31). *)
THEOREM EveryFeedAnnouncedOnce == Spec => []AnnouncedOnceEnded
<1>1. DispensingInv => AnnouncedOnceEnded
  BY DEF DispensingInv
<1> QED
  BY DispensingInvariance, <1>1, PTL

(* The upload semaphore and the frame buffer always come back
   (client.c:200-222). *)
THEOREM UploadReturnsAll == Spec => []ImageReturnsAll
<1>1. DispensingInv => ImageReturnsAll
  BY DEF DispensingInv
<1> QED
  BY DispensingInvariance, <1>1, PTL
=============================================================================
