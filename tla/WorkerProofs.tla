----------------------------- MODULE WorkerProofs -----------------------------
(***************************************************************************)
(* What the worker's services compute over any amount of data: the bumps    *)
(* and fees a paymaster sponsors, the costs a meter attributes, the windows *)
(* a backfill writes and the obligations a plan opens.  The sums, folds and *)
(* minima of the models are recursive functions or choices; an induction    *)
(* over them takes a smallest counterexample (WFMin), which exists since    *)
(* the naturals are well-founded.                                           *)
(***************************************************************************)
EXTENDS Sponsorship, CostMeter, Backfill, Verification, FiniteSetTheorems,
        FunctionTheorems, SequenceTheorems, WellFoundedInduction, TLAPS

-----------------------------------------------------------------------------
(* A set of naturals that is not empty has a smallest element.               *)
LEMMA NatMin ==
    ASSUME NEW S \in SUBSET Nat, S # {}
    PROVE  \E n \in S : \A m \in S : n <= m
<1> DEFINE R == {p \in Nat \X Nat : p[1] < p[2]}
<1>1. IsWellFoundedOn(R, Nat)
  BY NatLessThanWellFounded DEF OpToRel
<1>2. PICK x \in S : \A y \in S : ~(<<y, x>> \in R)
  BY <1>1, WFMin
<1>3. \A y \in S : <<y, x>> \in R <=> y < x
  OBVIOUS
<1> HIDE DEF R
<1>4. \A y \in S : ~(y < x)
  BY <1>2, <1>3
<1> QED BY <1>4

(* So Min is one of them, and not above any.                                 *)
LEMMA MinIs ==
    ASSUME NEW S \in SUBSET Nat, S # {}
    PROVE  Min(S) \in S /\ \A m \in S : Min(S) <= m
BY NatMin DEF Min

-----------------------------------------------------------------------------
(* Backfill.  A window starts at a multiple of its size.                     *)
Aligned(w) == w \in Nat /\ WindowStartFor(w) = w

(* A ledger is in the window of its start, and in no other.                  *)
LEMMA WindowFacts ==
    /\ \A l \in Nat : /\ Aligned(WindowStartFor(l)) /\ WindowStartFor(l) <= l
                      /\ l < WindowStartFor(l) + WindowSize
    /\ \A v, w : Aligned(v) /\ Aligned(w) /\ v < w => v + WindowSize <= w
    /\ \A w : Aligned(w) => Aligned(w + WindowSize)
    /\ \A e \in Nat : EndsWindow(e) => Aligned(e + 1)
    /\ Aligned(0)
<1> USE BackfillAssumption
<1>1. \A l \in Nat : /\ l \div WindowSize \in Nat
                     /\ (l \div WindowSize) * WindowSize <= l
                     /\ l < (l \div WindowSize) * WindowSize + WindowSize
  OBVIOUS
<1>2. \A q \in Nat : (q * WindowSize) \in Nat /\ (q * WindowSize) \div WindowSize = q
  OBVIOUS
<1>3. \A q, r \in Nat : q < r => q * WindowSize + WindowSize <= r * WindowSize
  OBVIOUS
<1>4. \A q \in Nat : q * WindowSize + WindowSize = (q + 1) * WindowSize
  OBVIOUS
<1>5. \A e \in Nat : EndsWindow(e) => \E q \in Nat : e + 1 = q * WindowSize
  BY DEF EndsWindow
<1>6. \A w : Aligned(w) <=> \E q \in Nat : w = q * WindowSize
  BY <1>1, <1>2 DEF Aligned, WindowStartFor
<1>7. \A l \in Nat : /\ Aligned(WindowStartFor(l)) /\ WindowStartFor(l) <= l
                     /\ l < WindowStartFor(l) + WindowSize
  BY <1>1, <1>6 DEF WindowStartFor
<1>8. \A v, w : Aligned(v) /\ Aligned(w) /\ v < w => v + WindowSize <= w
  <2> SUFFICES ASSUME NEW v, NEW w, Aligned(v), Aligned(w), v < w
               PROVE  v + WindowSize <= w
    OBVIOUS
  <2>1. PICK q \in Nat : v = q * WindowSize
    BY <1>6
  <2>2. PICK r \in Nat : w = r * WindowSize
    BY <1>6
  <2>3. q < r
    BY <2>1, <2>2
  <2> QED BY <1>3, <2>1, <2>2, <2>3
<1>9. \A w : Aligned(w) => Aligned(w + WindowSize)
  <2> SUFFICES ASSUME NEW w, Aligned(w) PROVE Aligned(w + WindowSize)
    OBVIOUS
  <2>1. PICK q \in Nat : w = q * WindowSize
    BY <1>6
  <2>2. w + WindowSize = (q + 1) * WindowSize /\ q + 1 \in Nat
    BY <1>4, <2>1
  <2> QED BY <1>6, <2>2
<1>10. Aligned(0)
  <2>1. 0 = 0 * WindowSize
    OBVIOUS
  <2> QED BY <1>6, <2>1
<1> QED BY <1>5, <1>6, <1>7, <1>8, <1>9, <1>10

(* Ledgers are naturals.                                                     *)
LEMMA BackfillTypes ==
    WindowSize \in Nat \ {0} /\ FirstLedger \in Nat /\ RangeEnds \subseteq Nat
BY BackfillAssumption

(* The same of one ledger.                                                   *)
LEMMA WindowStart ==
    ASSUME NEW l \in Nat
    PROVE  /\ WindowStartFor(l) \in Nat /\ Aligned(WindowStartFor(l))
           /\ WindowStartFor(l) <= l /\ l < WindowStartFor(l) + WindowSize
BY WindowFacts DEF Aligned

(* The subjects with an event in window w up to ledger n.                    *)
SubjectsIn(w, n) ==
    {s \in UNION {export[l] : l \in DOMAIN export} : EventsIn(s, w, n) # {}}

Verdicts(w, n) == [s \in SubjectsIn(w, n) |-> EventsIn(s, w, n)]

(* The events read from the windows past the checkpoint are in the buckets.  *)
BucketsHold ==
    /\ batch.next \in Nat /\ FirstLedger <= batch.next /\ batch.end \in RangeEnds
    /\ \E i \in DOMAIN ends : ends[i] = batch.end
    /\ ckpt < batch.next \/ batch.end < batch.next
    /\ \A w \in DOMAIN batch.buckets :
          /\ Aligned(w) /\ ckpt < w /\ w < batch.next /\ batch.next <= batch.end + 1
          /\ batch.buckets[w] = Verdicts(w, batch.next - 1)
    /\ \A l \in DOMAIN export : FirstLedger <= l /\ l < batch.next /\ export[l] # {} =>
          WindowStartFor(l) <= ckpt \/ WindowStartFor(l) \in DOMAIN batch.buckets

(* The windows being flushed are the first ones and have been read; of the   *)
(* first, the verdicts that are not left are written.                        *)
FlushSound ==
    /\ batch.todo # {} /\ batch.todo \subseteq DOMAIN batch.buckets
    /\ \A w \in batch.todo : w + WindowSize < batch.next \/ batch.next = batch.end + 1
    /\ \A w \in batch.todo : \A v \in DOMAIN batch.buckets \ batch.todo : w < v
    /\ batch.left \subseteq DOMAIN batch.buckets[Min(batch.todo)]
    /\ \A s \in DOMAIN batch.buckets[Min(batch.todo)] \ batch.left :
          <<s, Min(batch.todo)>> \in DOMAIN sink

(* The sink holds what a run over one of the ranges writes...                *)
SinkSound ==
    \A k \in DOMAIN sink : \E i \in DOMAIN ends :
        sink[k] = EventsIn(k[1], k[2], ends[i]) /\ sink[k] # {}

(* ... and everything up to the checkpoint and of the last run that returned.*)
SinkCovers ==
    /\ \A e \in RangeEnds : SameRange(e) =>
          \A k \in Uninterrupted(e) : k[2] <= ckpt => k \in DOMAIN sink
    /\ complete # -1 /\ SameRange(complete) => Uninterrupted(complete) \subseteq DOMAIN sink

BatchInv ==
    /\ batch \in [at : {"idle", "reading", "flushing"}, next : Int, end : Int,
                  buckets : {batch.buckets}, todo : {batch.todo}, left : {batch.left}]
    /\ batch.at # "idle" => BucketsHold
    /\ IF batch.at = "flushing" THEN FlushSound ELSE batch.left = {}

BackfillInv ==
    /\ export \in Exports /\ ends \in Seq(RangeEnds)
    /\ ckpt \in Int /\ Aligned(ckpt + 1)
    /\ complete = -1 \/ complete \in RangeEnds
    /\ BatchInv /\ SinkSound /\ SinkCovers

(* What is written for a key over one range is what is written over another. *)
LEMMA RangesAgree ==
    ASSUME BackfillInv, NEW e \in RangeEnds, SameRange(e), NEW k \in Uninterrupted(e),
           NEW i \in DOMAIN ends, EventsIn(k[1], k[2], ends[i]) # {}
    PROVE  EventsIn(k[1], k[2], ends[i]) = EventsIn(k[1], k[2], e)
<1> USE BackfillAssumption
<1>1. ends[i] \in Nat /\ e \in Nat /\ ends[i] \in RangeEnds
  <2>1. ends \in Seq(RangeEnds)
    BY DEF BackfillInv
  <2>2. ends[i] \in RangeEnds
    BY ONLY <2>1, i \in DOMAIN ends
  <2> QED BY <2>2
<1>2. PICK l \in FirstLedger .. e : \E s \in export[l] : k = <<s, WindowStartFor(l)>>
  BY DEF Uninterrupted
<1> DEFINE w == WindowStartFor(l)
<1>3. k[2] = w /\ l \in Nat
  BY <1>2
<1>4. PICK m \in DOMAIN export : m \in FirstLedger .. ends[i] /\ WindowStartFor(m) = k[2]
  BY DEF EventsIn
<1>5. m \in Nat /\ w = WindowStartFor(m)
  BY <1>3, <1>4
<1>6. CASE ends[i] = e
  BY <1>6
<1>7. CASE EndsWindow(ends[i]) /\ (ends[i] < e \/ EndsWindow(e))
  <2> HIDE DEF w
  <2>1. Aligned(w) /\ w <= l /\ w <= m
    BY <1>3, <1>5, WindowFacts DEF w
  <2>2. w + WindowSize <= ends[i] + 1
    <3>1. Aligned(ends[i] + 1) /\ w < ends[i] + 1
      BY <1>1, <1>4, <1>5, <1>7, <2>1, WindowFacts DEF Aligned
    <3> QED BY <2>1, <3>1, WindowFacts
  <2>3. w + WindowSize <= e + 1
    <3>1. CASE ends[i] < e
      BY <1>1, <2>1, <2>2, <3>1 DEF Aligned
    <3>2. CASE EndsWindow(e)
      <4>1. Aligned(e + 1) /\ w < e + 1
        BY <1>1, <1>2, <1>3, <2>1, <3>2, WindowFacts DEF Aligned
      <4> QED BY <2>1, <4>1, WindowFacts
    <3> QED BY <1>7, <3>1, <3>2
  <2>4. \A n \in DOMAIN export :
           n \in FirstLedger .. ends[i] /\ WindowStartFor(n) = w <=>
           n \in FirstLedger .. e /\ WindowStartFor(n) = w
    <3> TAKE n \in DOMAIN export
    <3>1. n \in Nat /\ WindowStartFor(n) = w => n < w + WindowSize
      BY WindowFacts
    <3> QED BY <1>1, <2>1, <2>2, <2>3, <3>1 DEF Aligned
  <2> QED BY <1>3, <2>4 DEF EventsIn
<1> QED BY <1>6, <1>7 DEF SameRange

(* So the invariant implies the property.                                    *)
LEMMA BackfillInvImplies == BackfillInv => BackfillResumes
<1> SUFFICES ASSUME BackfillInv PROVE BackfillResumes
  OBVIOUS
<1> USE BackfillAssumption
<1>1. ASSUME NEW e \in RangeEnds, SameRange(e), NEW k \in Uninterrupted(e), k \in DOMAIN sink
      PROVE  sink[k] = EventsIn(k[1], k[2], e)
  <2>1. PICK i \in DOMAIN ends : sink[k] = EventsIn(k[1], k[2], ends[i]) /\ sink[k] # {}
    BY <1>1 DEF BackfillInv, SinkSound
  <2> QED BY <1>1, <2>1, RangesAgree
<1>2. ResumesWhole
  <2> SUFFICES ASSUME complete # -1, SameRange(complete), NEW k \in Uninterrupted(complete)
               PROVE  k \in DOMAIN sink /\ sink[k] = EventsIn(k[1], k[2], complete)
    BY DEF ResumesWhole
  <2>1. k \in DOMAIN sink /\ complete \in RangeEnds
    BY DEF BackfillInv, SinkCovers
  <2> QED BY <1>1, <2>1
<1>3. CheckpointCovers
  <2> SUFFICES ASSUME batch.at # "idle", SameRange(batch.end), NEW k \in Uninterrupted(batch.end),
                      k[2] <= ckpt
               PROVE  k \in DOMAIN sink /\ sink[k] = EventsIn(k[1], k[2], batch.end)
    BY DEF CheckpointCovers
  <2>1. batch.end \in RangeEnds
    BY DEF BackfillInv, BatchInv, BucketsHold
  <2>2. k \in DOMAIN sink
    BY <2>1 DEF BackfillInv, SinkCovers
  <2> QED BY <1>1, <2>1, <2>2
<1> QED BY <1>2, <1>3 DEF BackfillResumes

(* What the export says does not change.                                     *)
LEMMA ExportStays ==
    ASSUME export' = export
    PROVE  /\ \A s, w, n : EventsIn(s, w, n)' = EventsIn(s, w, n)
           /\ \A w, n : SubjectsIn(w, n)' = SubjectsIn(w, n)
           /\ \A w, n : Verdicts(w, n)' = Verdicts(w, n)
           /\ \A e : Uninterrupted(e)' = Uninterrupted(e)
<1>1. \A s, w, n : EventsIn(s, w, n)' = EventsIn(s, w, n)
  BY DEF EventsIn
<1>2. \A w, n : SubjectsIn(w, n)' = SubjectsIn(w, n)
  BY <1>1 DEF SubjectsIn
<1>3. \A w, n : Verdicts(w, n)' = Verdicts(w, n)
  BY <1>1, <1>2 DEF Verdicts
<1> QED BY <1>1, <1>2, <1>3 DEF Uninterrupted

(* A step that leaves the stores and the list of runs preserves what they    *)
(* hold.                                                                     *)
LEMMA SinkStays ==
    ASSUME SinkSound, SinkCovers, UNCHANGED <<export, sink, ckpt, ends, complete>>
    PROVE  SinkSound' /\ SinkCovers'
<1>1. SinkSound'
  BY ExportStays DEF SinkSound
<1>2. \A e : SameRange(e)' = SameRange(e)
  BY DEF SameRange, EndsWindow
<1> QED BY <1>1, <1>2, ExportStays DEF SinkCovers

(* run() starts at the first window the checkpoint has not passed.           *)
LEMMA RunStep ==
    ASSUME BackfillInv, NEW end \in RangeEnds, Run(end)
    PROVE  BackfillInv'
<1> USE BackfillTypes
<1> DEFINE start == IF ckpt = -1 THEN FirstLedger
                    ELSE Max({WindowStartFor(ckpt + 1), FirstLedger})
<1>1. /\ batch' = [NoBatch EXCEPT !.at = "reading", !.next = start, !.end = end]
      /\ ends' = Append(ends, end) /\ UNCHANGED <<export, sink, ckpt, complete>>
  BY DEF Run
<1>2. ckpt \in Int /\ Aligned(ckpt + 1) /\ ends \in Seq(RangeEnds)
  BY DEF BackfillInv
<1>3. start \in Nat /\ start >= FirstLedger /\ start > ckpt /\ (start = FirstLedger \/ start = ckpt + 1)
  <2>1. CASE ckpt = -1
    BY <2>1
  <2>2. CASE ckpt # -1
    <3>1. WindowStartFor(ckpt + 1) = ckpt + 1 /\ ckpt + 1 \in Nat
      BY <1>2 DEF Aligned
    <3>2. Max({ckpt + 1, FirstLedger}) \in {ckpt + 1, FirstLedger}
          /\ \A y \in {ckpt + 1, FirstLedger} : Max({ckpt + 1, FirstLedger}) >= y
      <4>1. \E x \in {ckpt + 1, FirstLedger} : \A y \in {ckpt + 1, FirstLedger} : x >= y
        BY <3>1
      <4> QED BY <4>1 DEF Max
    <3>3. start = Max({ckpt + 1, FirstLedger})
      BY <2>2, <3>1
    <3>4. start = ckpt + 1 \/ start = FirstLedger
      BY <3>2, <3>3
    <3>5. start >= ckpt + 1 /\ start >= FirstLedger
      BY <3>2, <3>3
    <3> HIDE DEF start
    <3> QED BY <1>2, <3>1, <3>4, <3>5
  <2> QED BY <2>1, <2>2
<1> HIDE DEF start
<1>4. /\ batch'.at = "reading" /\ batch'.next = start /\ batch'.end = end
      /\ batch'.buckets = <<>> /\ batch'.left = {}
      /\ batch' = [at |-> "reading", next |-> start, end |-> end, buckets |-> <<>>,
                   todo |-> {}, left |-> {}]
  BY <1>1 DEF NoBatch
<1>5. ends' \in Seq(RangeEnds) /\ Len(ends') = Len(ends) + 1 /\ ends'[Len(ends) + 1] = end
      /\ \A i \in DOMAIN ends : i \in DOMAIN ends' /\ ends'[i] = ends[i]
  BY <1>1, <1>2
<1>6. BucketsHold'
  <2>1. \E i \in DOMAIN ends' : ends'[i] = end
    <3>1. Len(ends) + 1 \in DOMAIN ends'
      BY <1>1, <1>2
    <3> QED BY <1>5, <3>1
  <2>2. \A l \in DOMAIN export : FirstLedger <= l /\ l < start => WindowStartFor(l) <= ckpt
    <3> SUFFICES ASSUME NEW l \in DOMAIN export, FirstLedger <= l, l < start
                 PROVE  WindowStartFor(l) <= ckpt
      OBVIOUS
    <3>1. l \in Nat
      BY BackfillAssumption DEF BackfillInv
    <3>2. l <= ckpt
      BY <1>2, <1>3, <3>1
    <3>3. WindowStartFor(l) \in Nat /\ WindowStartFor(l) <= l
      BY <3>1, WindowStart
    <3> QED BY <1>2, <3>1, <3>2, <3>3
  <2> QED BY <1>1, <1>3, <1>4, <2>1, <2>2 DEF BucketsHold
<1>7. BatchInv'
  BY <1>3, <1>4, <1>6 DEF BatchInv
<1>8. SinkSound'
  <2> SUFFICES ASSUME NEW k \in DOMAIN sink
               PROVE  \E i \in DOMAIN ends' : sink[k] = EventsIn(k[1], k[2], ends'[i]) /\ sink[k] # {}
    BY <1>1, ExportStays DEF SinkSound
  <2>1. PICK i \in DOMAIN ends : sink[k] = EventsIn(k[1], k[2], ends[i]) /\ sink[k] # {}
    BY DEF BackfillInv, SinkSound
  <2> QED BY <1>5, <2>1
<1>9. SinkCovers'
  <2>1. \A e : SameRange(e)' => SameRange(e)
    BY <1>5 DEF SameRange, EndsWindow
  <2> QED BY <1>1, <2>1, ExportStays DEF BackfillInv, SinkCovers
<1> QED BY <1>1, <1>5, <1>7, <1>8, <1>9 DEF BackfillInv

(* One more ledger adds its events.                                          *)
LEMMA OneMoreLedger ==
    ASSUME NEW l \in Nat, l \in DOMAIN export, FirstLedger <= l, DOMAIN export \subseteq Nat
    PROVE  /\ \A s, w : EventsIn(s, w, l) =
                  EventsIn(s, w, l - 1) \cup (IF WindowStartFor(l) = w /\ s \in export[l] THEN {l} ELSE {})
           /\ \A w : SubjectsIn(w, l) =
                  SubjectsIn(w, l - 1) \cup (IF WindowStartFor(l) = w THEN export[l] ELSE {})
<1> USE BackfillTypes
<1>1. ASSUME NEW s, NEW w
      PROVE  EventsIn(s, w, l) =
                  EventsIn(s, w, l - 1) \cup (IF WindowStartFor(l) = w /\ s \in export[l] THEN {l} ELSE {})
  <2>1. \A n \in DOMAIN export : n \in FirstLedger .. l <=> n \in FirstLedger .. l - 1 \/ n = l
    OBVIOUS
  <2>2. \A n \in DOMAIN export : n \in EventsIn(s, w, l) <=>
            n \in EventsIn(s, w, l - 1) \/ (n = l /\ WindowStartFor(l) = w /\ s \in export[l])
    BY <2>1 DEF EventsIn
  <2>3. EventsIn(s, w, l) \subseteq DOMAIN export /\ EventsIn(s, w, l - 1) \subseteq DOMAIN export
    BY DEF EventsIn
  <2> QED BY <2>2, <2>3
<1>2. ASSUME NEW w
      PROVE  SubjectsIn(w, l) =
                  SubjectsIn(w, l - 1) \cup (IF WindowStartFor(l) = w THEN export[l] ELSE {})
  <2>1. \A s \in UNION {export[n] : n \in DOMAIN export} :
           s \in SubjectsIn(w, l) <=>
           s \in SubjectsIn(w, l - 1) \/ (WindowStartFor(l) = w /\ s \in export[l])
    BY <1>1 DEF SubjectsIn
  <2>2. export[l] \subseteq UNION {export[n] : n \in DOMAIN export}
    OBVIOUS
  <2> QED BY <2>1, <2>2 DEF SubjectsIn
<1> QED BY <1>1, <1>2

(* A bucket holds the events of its window read so far.                      *)
LEMMA BucketGrows ==
    ASSUME BackfillInv, batch.at = "reading", batch.next <= batch.end,
           NEW w, w \in DOMAIN batch.buckets \/ (w = WindowStartFor(batch.next) /\ export[batch.next] # {})
    PROVE  /\ batch.next \in DOMAIN export /\ batch.next \in Nat
           /\ Bucketed(w, batch.next) = Verdicts(w, batch.next)
           /\ Aligned(w) /\ ckpt < w /\ w <= batch.next
<1> USE BackfillTypes
<1>1. BucketsHold /\ export \in Exports
  BY DEF BackfillInv, BatchInv
<1>2. PICK l \in Nat : l = batch.next
  BY <1>1 DEF BucketsHold
<1>3. l \in DOMAIN export /\ DOMAIN export \subseteq Nat /\ FirstLedger <= l
  <2>1. batch.end \in RangeEnds /\ FirstLedger <= l /\ l <= batch.end
    BY <1>1, <1>2 DEF BucketsHold
  <2>2. DOMAIN export \subseteq Nat /\ FirstLedger .. batch.end \subseteq DOMAIN export
    BY <1>1, <2>1, BackfillAssumption
  <2>3. l \in FirstLedger .. batch.end
    BY <2>1
  <2> QED BY <2>1, <2>2, <2>3
<1>4. WindowStartFor(l) \in Nat /\ Aligned(WindowStartFor(l)) /\ WindowStartFor(l) <= l
      /\ l < WindowStartFor(l) + WindowSize
  BY WindowStart
<1>5. ckpt < WindowStartFor(l)
  <2>1. ckpt \in Int /\ Aligned(ckpt + 1) /\ ckpt < l
    <3>1. ckpt < batch.next \/ batch.end < batch.next
      BY <1>1 DEF BucketsHold
    <3>2. batch.end \in Nat
      BY <1>1 DEF BucketsHold
    <3> QED BY <1>2, <3>1, <3>2 DEF BackfillInv
  <2>2. WindowStartFor(l) < ckpt + 1 => WindowStartFor(l) + WindowSize <= ckpt + 1
    BY <1>4, <2>1, WindowFacts
  <2> QED BY <1>4, <2>1, <2>2
<1>6. Aligned(w) /\ ckpt < w /\ w <= l
  <2>1. CASE w \in DOMAIN batch.buckets
    <3>1. Aligned(w) /\ ckpt < w /\ w < batch.next
      BY <1>1, <2>1 DEF BucketsHold
    <3> QED BY <1>2, <3>1 DEF Aligned
  <2> QED BY <1>2, <1>4, <1>5, <2>1
<1> DEFINE old == IF w \in DOMAIN batch.buckets THEN batch.buckets[w] ELSE <<>>
           new == IF WindowStartFor(l) = w THEN export[l] ELSE {}
<1>7. DOMAIN old = SubjectsIn(w, l - 1) /\ \A s \in DOMAIN old : old[s] = EventsIn(s, w, l - 1)
  <2>1. CASE w \in DOMAIN batch.buckets
    <3>1. old = Verdicts(w, l - 1)
      BY <1>1, <1>2, <2>1 DEF BucketsHold
    <3> QED BY <3>1 DEF Verdicts
  <2>2. CASE w \notin DOMAIN batch.buckets
    <3>1. \A n \in DOMAIN export : n \in FirstLedger .. l - 1 /\ WindowStartFor(n) = w => export[n] = {}
      <4> SUFFICES ASSUME NEW n \in DOMAIN export, n \in FirstLedger .. l - 1,
                          WindowStartFor(n) = w, export[n] # {}
                   PROVE  FALSE
        OBVIOUS
      <4>1. FirstLedger <= n /\ n < batch.next
        BY <1>2
      <4>2. w <= ckpt
        BY <1>1, <2>2, <4>1 DEF BucketsHold
      <4> QED BY <1>6, <4>2 DEF Aligned, BackfillInv
    <3>2. SubjectsIn(w, l - 1) = {}
      BY <3>1 DEF SubjectsIn, EventsIn
    <3> QED BY <2>2, <3>2
  <2> QED BY <2>1, <2>2
<1>8. Bucketed(w, l) = [s \in DOMAIN old \cup new |->
            (IF s \in DOMAIN old THEN old[s] ELSE {}) \cup (IF s \in new THEN {l} ELSE {})]
  BY DEF Bucketed
<1> HIDE DEF old
<1>9. SubjectsIn(w, l) = DOMAIN old \cup new
  BY <1>3, <1>7, OneMoreLedger
<1>10. ASSUME NEW s \in DOMAIN old \cup new
       PROVE  (IF s \in DOMAIN old THEN old[s] ELSE {}) \cup (IF s \in new THEN {l} ELSE {})
                = EventsIn(s, w, l)
  <2>1. EventsIn(s, w, l) = EventsIn(s, w, l - 1) \cup (IF s \in new THEN {l} ELSE {})
    BY <1>3, OneMoreLedger
  <2>2. s \notin DOMAIN old => EventsIn(s, w, l - 1) = {}
    <3>1. s \notin DOMAIN old => s \in UNION {export[n] : n \in DOMAIN export}
      BY <1>3, <1>10
    <3> QED BY <1>7, <3>1 DEF SubjectsIn
  <2> QED BY <1>7, <2>1, <2>2
<1>11. Bucketed(w, l) = Verdicts(w, l)
  BY <1>8, <1>9, <1>10 DEF Verdicts
<1> QED BY <1>2, <1>3, <1>6, <1>11

(* The windows flushed are naturals, so that one of them is the first.       *)
LEMMA FirstToFlush ==
    ASSUME BackfillInv, batch.at = "flushing"
    PROVE  /\ Min(batch.todo) \in batch.todo /\ Min(batch.todo) \in DOMAIN batch.buckets
           /\ Aligned(Min(batch.todo))
           /\ \A v \in DOMAIN batch.buckets : v # Min(batch.todo) => Min(batch.todo) < v
<1>1. BucketsHold /\ FlushSound
  BY DEF BackfillInv, BatchInv
<1>2. DOMAIN batch.buckets \subseteq Nat
  BY <1>1 DEF BucketsHold, Aligned
<1>3. batch.todo \in SUBSET Nat /\ batch.todo # {} /\ batch.todo \subseteq DOMAIN batch.buckets
  BY <1>1, <1>2 DEF FlushSound
<1>4. Min(batch.todo) \in batch.todo /\ \A m \in batch.todo : Min(batch.todo) <= m
  BY <1>3, MinIs
<1>5. \A v \in DOMAIN batch.buckets \ batch.todo : Min(batch.todo) < v
  BY <1>1, <1>4 DEF FlushSound
<1>6. Min(batch.todo) \in DOMAIN batch.buckets /\ Aligned(Min(batch.todo))
  BY <1>1, <1>3, <1>4 DEF BucketsHold
<1>7. \A v \in DOMAIN batch.buckets : v # Min(batch.todo) => Min(batch.todo) < v
  <2> SUFFICES ASSUME NEW v \in DOMAIN batch.buckets, v # Min(batch.todo)
               PROVE  Min(batch.todo) < v
    OBVIOUS
  <2>1. v \in Nat /\ Min(batch.todo) \in Nat
    BY <1>2, <1>6
  <2>2. CASE v \in batch.todo
    BY <1>4, <2>1, <2>2
  <2> QED BY <1>5, <2>2
<1> QED BY <1>4, <1>6, <1>7

(* A ledger is read.                                                         *)
LEMMA ReadLedgerStep ==
    ASSUME BackfillInv, ReadLedger
    PROVE  BackfillInv'
<1> USE BackfillTypes
<1>1. BucketsHold /\ batch.at = "reading" /\ batch.next <= batch.end
  BY DEF ReadLedger, BackfillInv, BatchInv
<1>2. PICK l \in Nat : l = batch.next
  BY <1>1 DEF BucketsHold
<1> DEFINE keys == DOMAIN batch.buckets \cup (IF export[l] = {} THEN {} ELSE {WindowStartFor(l)})
           new == [w \in keys |-> Bucketed(w, l)]
           full == {w \in keys : FullyRead(w)}
           left == IF full = {} THEN {} ELSE DOMAIN new[Min(full)]
           at == IF full = {} THEN "reading" ELSE "flushing"
<1>3. /\ batch' = [batch EXCEPT !.next = l + 1, !.buckets = new, !.todo = full, !.at = at, !.left = left]
      /\ UNCHANGED <<export, sink, ckpt, ends, complete>>
  BY <1>2 DEF ReadLedger
<1>4. \A w \in keys : /\ Bucketed(w, l) = Verdicts(w, l)
                      /\ Aligned(w) /\ ckpt < w /\ w <= l
  BY <1>1, <1>2, BucketGrows
<1>5. \A w \in keys : new[w] = Verdicts(w, l)
  BY <1>4
<1>6. DOMAIN new = keys
  OBVIOUS
<1>7. \A w \in keys : w \in full <=> l >= w + WindowSize
  BY <1>2 DEF FullyRead
<1> HIDE DEF new, left, at
<1>8. /\ batch'.next = l + 1 /\ batch'.end = batch.end /\ batch'.buckets = new
      /\ batch'.todo = full /\ batch'.at = at /\ batch'.left = left
  BY <1>3 DEF BackfillInv, BatchInv
<1>9. batch' \in [at : {"idle", "reading", "flushing"}, next : Int, end : Int,
                  buckets : {batch'.buckets}, todo : {batch'.todo}, left : {batch'.left}]
  <2>1. batch' = [at |-> at, next |-> l + 1, end |-> batch.end, buckets |-> new, todo |-> full,
                  left |-> left]
    BY <1>3 DEF BackfillInv, BatchInv
  <2>2. batch.end \in Int
    BY DEF BackfillInv, BatchInv
  <2>3. at \in {"reading", "flushing"}
    BY DEF at
  <2> QED BY <1>8, <2>1, <2>2, <2>3
<1>10. BucketsHold'
  <2>1. batch.end \in RangeEnds /\ FirstLedger <= l + 1 /\ l + 1 <= batch.end + 1
    <3>1. batch.end \in RangeEnds /\ FirstLedger <= l
      BY <1>1, <1>2 DEF BucketsHold
    <3>2. batch.end \in Nat /\ l <= batch.end
      BY <1>1, <1>2, <3>1
    <3> QED BY <3>1, <3>2
  <2>2. \E i \in DOMAIN ends' : ends'[i] = batch'.end
    BY <1>1, <1>3, <1>8 DEF BucketsHold
  <2>3. ckpt < l + 1 \/ batch.end < l + 1
    <3>1. ckpt \in Int /\ batch.end \in Nat
      BY <2>1 DEF BackfillInv
    <3> QED BY <1>1, <1>2, <3>1 DEF BucketsHold
  <2>4. \A w \in keys : Aligned(w) /\ ckpt < w /\ w < l + 1 /\ new[w] = Verdicts(w, (l + 1) - 1)
    <3>1. (l + 1) - 1 = l
      OBVIOUS
    <3> QED BY <1>4, <1>5, <3>1 DEF Aligned
  <2>5. \A n \in DOMAIN export : FirstLedger <= n /\ n < l + 1 /\ export[n] # {} =>
            WindowStartFor(n) <= ckpt \/ WindowStartFor(n) \in keys
    <3> SUFFICES ASSUME NEW n \in DOMAIN export, FirstLedger <= n, n < l + 1, export[n] # {}
                 PROVE  WindowStartFor(n) <= ckpt \/ WindowStartFor(n) \in keys
      OBVIOUS
    <3>1. n \in Nat
      BY BackfillAssumption DEF BackfillInv
    <3>2. CASE n = l
      BY <3>2
    <3>3. CASE n < batch.next
      BY <1>1, <3>3 DEF BucketsHold
    <3> QED BY <1>2, <3>1, <3>2, <3>3
  <2> HIDE DEF keys, full
  <2> QED BY <1>3, <1>6, <1>8, <2>1, <2>2, <2>3, <2>4, <2>5, ExportStays DEF BucketsHold
<1>11. ASSUME full # {} PROVE FlushSound'
  <2>1. left = DOMAIN new[Min(full)]
    BY <1>11 DEF left
  <2>2. \A w \in full : w + WindowSize < l + 1
    BY <1>4, <1>7 DEF Aligned
  <2>3. \A w \in full : \A v \in keys \ full : w < v
    BY <1>4, <1>7 DEF Aligned
  <2>4. full \subseteq keys
    OBVIOUS
  <2> HIDE DEF keys, full
  <2> QED BY <1>3, <1>6, <1>8, <1>11, <2>1, <2>2, <2>3, <2>4 DEF FlushSound
<1>12. at = "flushing" <=> full # {}
  BY DEF at
<1>13. full = {} => left = {}
  BY DEF left
<1>14. BatchInv'
  <2> HIDE DEF full, keys
  <2> QED BY <1>8, <1>9, <1>10, <1>11, <1>12, <1>13 DEF BatchInv
<1> QED BY <1>3, <1>14, SinkStays DEF BackfillInv

(* The range has been read.                                                  *)
LEMMA FlushTrailingStep ==
    ASSUME BackfillInv, FlushTrailing
    PROVE  BackfillInv'
<1> USE BackfillTypes
<1>1. /\ BucketsHold /\ batch.at = "reading" /\ batch.next > batch.end /\ DOMAIN batch.buckets # {}
      /\ batch' = [batch EXCEPT !.at = "flushing", !.todo = DOMAIN batch.buckets,
                          !.left = DOMAIN batch.buckets[Min(DOMAIN batch.buckets)]]
      /\ UNCHANGED <<export, sink, ckpt, ends, complete>>
  BY DEF FlushTrailing, BackfillInv, BatchInv, Trailing
<1>2. /\ batch'.next = batch.next /\ batch'.end = batch.end /\ batch'.buckets = batch.buckets
      /\ batch'.todo = DOMAIN batch.buckets /\ batch'.at = "flushing"
      /\ batch'.left = DOMAIN batch.buckets[Min(DOMAIN batch.buckets)]
      /\ batch' \in [at : {"idle", "reading", "flushing"}, next : Int, end : Int,
                     buckets : {batch'.buckets}, todo : {batch'.todo}, left : {batch'.left}]
  BY <1>1 DEF BackfillInv, BatchInv
<1>3. BucketsHold'
  BY <1>1, <1>2, ExportStays DEF BucketsHold
<1>4. batch.next = batch.end + 1
  <2>1. PICK w : w \in DOMAIN batch.buckets
    BY <1>1
  <2>2. batch.next <= batch.end + 1 /\ batch.next \in Nat /\ batch.end \in RangeEnds
    BY <1>1, <2>1 DEF BucketsHold
  <2>3. batch.end \in Nat
    BY <2>2
  <2> QED BY <1>1, <2>2, <2>3
<1>5. FlushSound'
  BY <1>1, <1>2, <1>4 DEF FlushSound
<1>6. BatchInv'
  BY <1>2, <1>3, <1>5 DEF BatchInv
<1> QED BY <1>1, <1>6, SinkStays DEF BackfillInv

(* Nothing the range has of a window being flushed is left to read.          *)
LEMMA WindowRead ==
    ASSUME BackfillInv, batch.at = "flushing", NEW w \in batch.todo, NEW s
    PROVE  /\ EventsIn(s, w, batch.next - 1) = EventsIn(s, w, batch.end)
           /\ w \in DOMAIN batch.buckets /\ batch.buckets[w] = Verdicts(w, batch.next - 1)
           /\ batch.next \in Nat /\ batch.end \in Nat /\ batch.next <= batch.end + 1
<1> USE BackfillTypes
<1>1. BucketsHold /\ FlushSound
  BY DEF BackfillInv, BatchInv
<1>2. w \in DOMAIN batch.buckets
  BY <1>1 DEF FlushSound
<1>3. /\ batch.next \in Nat /\ batch.end \in RangeEnds /\ Aligned(w) /\ batch.next <= batch.end + 1
      /\ batch.buckets[w] = Verdicts(w, batch.next - 1)
  BY <1>1, <1>2 DEF BucketsHold
<1>4. batch.end \in Nat
  BY <1>3
<1>5. w + WindowSize < batch.next \/ batch.next = batch.end + 1
  BY <1>1 DEF FlushSound
<1>6. \A n \in DOMAIN export : WindowStartFor(n) = w =>
         (n \in FirstLedger .. batch.next - 1 <=> n \in FirstLedger .. batch.end)
  <2> SUFFICES ASSUME NEW n \in DOMAIN export, WindowStartFor(n) = w
               PROVE  n \in FirstLedger .. batch.next - 1 <=> n \in FirstLedger .. batch.end
    OBVIOUS
  <2>1. n \in Nat
    BY BackfillAssumption DEF BackfillInv
  <2>2. n < w + WindowSize /\ w \in Nat
    BY <2>1, WindowStart
  <2> QED BY <1>3, <1>4, <1>5, <2>1, <2>2
<1> QED BY <1>2, <1>3, <1>4, <1>6 DEF EventsIn

(* A verdict is written.                                                     *)
LEMMA UpsertStep ==
    ASSUME BackfillInv, NEW s, Upsert(s)
    PROVE  BackfillInv'
<1> USE BackfillTypes
<1> DEFINE w == Min(batch.todo)
<1>1. /\ BucketsHold /\ FlushSound /\ batch.at = "flushing" /\ s \in batch.left
      /\ sink' = [k \in DOMAIN sink \cup {<<s, w>>} |->
                      IF k = <<s, w>> THEN batch.buckets[w][s] ELSE sink[k]]
      /\ batch' = [batch EXCEPT !.left = batch.left \ {s}]
      /\ UNCHANGED <<export, ckpt, ends, complete>>
  BY DEF Upsert, BackfillInv, BatchInv
<1>2. /\ w \in batch.todo /\ w \in DOMAIN batch.buckets /\ Aligned(w)
  BY <1>1, FirstToFlush
<1> HIDE DEF w
<1>3. /\ batch'.next = batch.next /\ batch'.end = batch.end /\ batch'.buckets = batch.buckets
      /\ batch'.todo = batch.todo /\ batch'.at = "flushing" /\ batch'.left = batch.left \ {s}
      /\ batch' \in [at : {"idle", "reading", "flushing"}, next : Int, end : Int,
                     buckets : {batch'.buckets}, todo : {batch'.todo}, left : {batch'.left}]
  BY <1>1 DEF BackfillInv, BatchInv
<1>4. DOMAIN sink' = DOMAIN sink \cup {<<s, w>>} /\ sink'[<<s, w>>] = batch.buckets[w][s]
      /\ \A k \in DOMAIN sink : k # <<s, w>> => sink'[k] = sink[k]
  BY <1>1
<1>5. BucketsHold'
  BY <1>1, <1>3, ExportStays DEF BucketsHold
<1>6. FlushSound'
  BY <1>1, <1>3, <1>4 DEF FlushSound, w
<1>7. BatchInv'
  BY <1>3, <1>5, <1>6 DEF BatchInv
<1>8. sink'[<<s, w>>] = EventsIn(s, w, batch.end) /\ EventsIn(s, w, batch.end) # {}
  <2>1. s \in DOMAIN batch.buckets[w] /\ batch.buckets[w] = Verdicts(w, batch.next - 1)
    BY <1>1, <1>2, WindowRead DEF FlushSound, w
  <2>2. s \in SubjectsIn(w, batch.next - 1) /\ batch.buckets[w][s] = EventsIn(s, w, batch.next - 1)
    BY <2>1 DEF Verdicts
  <2>3. EventsIn(s, w, batch.next - 1) = EventsIn(s, w, batch.end)
    BY <1>1, <1>2, WindowRead
  <2> QED BY <1>4, <2>2, <2>3 DEF SubjectsIn
<1>9. SinkSound'
  <2>0. export' = export /\ ends' = ends
    BY <1>1
  <2> SUFFICES ASSUME NEW k \in DOMAIN sink'
               PROVE  \E i \in DOMAIN ends : sink'[k] = EventsIn(k[1], k[2], ends[i]) /\ sink'[k] # {}
    BY <2>0, ExportStays DEF SinkSound
  <2>1. CASE k = <<s, w>>
    <3>1. PICK i \in DOMAIN ends : ends[i] = batch.end
      BY <1>1 DEF BucketsHold
    <3>2. k[1] = s /\ k[2] = w
      BY <2>1
    <3> QED BY <1>8, <2>1, <3>1, <3>2
  <2>2. CASE k # <<s, w>>
    BY <1>4, <2>2 DEF BackfillInv, SinkSound
  <2> QED BY <2>1, <2>2
<1>10. SinkCovers'
  <2>1. \A e : SameRange(e)' = SameRange(e)
    BY <1>1 DEF SameRange, EndsWindow
  <2>2. DOMAIN sink \subseteq DOMAIN sink'
    BY <1>4
  <2>3. SinkCovers
    BY DEF BackfillInv
  <2> QED BY <1>1, <2>1, <2>2, <2>3, ExportStays DEF SinkCovers
<1> QED BY <1>1, <1>7, <1>9, <1>10 DEF BackfillInv

(* The checkpoint passes a window: whatever range a later run asks for, what *)
(* that range has of the windows passed is written.                          *)
LEMMA SavedIsCovered ==
    ASSUME BackfillInv, batch.at = "flushing", batch.left = {},
           NEW e \in RangeEnds, SameRange(e), NEW k \in Uninterrupted(e),
           k[2] <= Min(batch.todo) + WindowSize - 1
    PROVE  k \in DOMAIN sink
<1> USE BackfillTypes
<1>1. BucketsHold /\ FlushSound /\ SinkCovers /\ ckpt \in Int /\ export \in Exports
  BY DEF BackfillInv, BatchInv
<1>0. PICK l \in FirstLedger .. e : \E s \in export[l] : k = <<s, WindowStartFor(l)>>
  BY DEF Uninterrupted
<1>2. PICK s \in export[l] : k = <<s, WindowStartFor(l)>>
  BY <1>0
<1>3. CASE k[2] <= ckpt
  BY <1>1, <1>3 DEF SinkCovers
<1>4. CASE ~(k[2] <= ckpt)
  <2> DEFINE w == Min(batch.todo)
             v == WindowStartFor(l)
  <2>1. /\ w \in batch.todo /\ w \in DOMAIN batch.buckets /\ Aligned(w)
        /\ \A u \in DOMAIN batch.buckets : u # w => w < u
    BY FirstToFlush
  <2> HIDE DEF w
  <2>2. l \in Nat /\ k[2] = v /\ k[1] = s /\ l \in DOMAIN export
    <3>1. e \in Nat /\ FirstLedger .. e \subseteq DOMAIN export
      BY <1>1, BackfillAssumption
    <3> QED BY <1>2, <3>1
  <2>3. v \in Nat /\ Aligned(v) /\ v <= l /\ l < v + WindowSize
    BY <2>2, WindowStart
  <2> HIDE DEF v
  <2>4. v <= w
    <3>1. v < w + WindowSize
      BY <2>1, <2>2, <2>3 DEF Aligned, w
    <3>2. w < v => w + WindowSize <= v
      BY <2>1, <2>3, WindowFacts
    <3> QED BY <2>1, <2>3, <3>1, <3>2 DEF Aligned
  <2>5. /\ batch.next \in Nat /\ batch.end \in Nat /\ batch.next <= batch.end + 1
        /\ batch.buckets[w] = Verdicts(w, batch.next - 1)
    BY <2>1, WindowRead
  <2>6. l < batch.next
    <3> SUFFICES ASSUME batch.next <= l PROVE FALSE
      BY <2>2, <2>5
    <3>1. w < batch.next
      BY <1>1, <2>1 DEF BucketsHold
    <3>2. CASE w + WindowSize < batch.next
      BY <2>1, <2>2, <2>3, <2>4, <2>5, <3>2 DEF Aligned
    <3>3. CASE batch.next = batch.end + 1
      <4>1. PICK i \in DOMAIN ends : ends[i] = batch.end
        BY <1>1 DEF BucketsHold
      <4>2. l <= e /\ e \in Nat
        BY <1>2
      <4>3. batch.end < e
        BY <2>2, <2>5, <3>3, <4>2
      <4>4. EndsWindow(batch.end)
        BY <2>5, <4>1, <4>2, <4>3 DEF SameRange
      <4>5. Aligned(batch.next)
        BY <2>5, <3>3, <4>4, WindowFacts
      <4>6. w + WindowSize <= batch.next
        BY <2>1, <3>1, <4>5, WindowFacts
      <4> QED BY <2>1, <2>2, <2>3, <2>4, <2>5, <4>6 DEF Aligned
    <3> QED BY <1>1, <2>1, <3>2, <3>3 DEF FlushSound
  <2>7. v \in DOMAIN batch.buckets
    <3>1. FirstLedger <= l /\ export[l] # {}
      BY <1>2
    <3> QED BY <1>1, <1>4, <2>2, <2>6, <3>1 DEF BucketsHold, v
  <2>8. v = w
    BY <2>1, <2>3, <2>4, <2>7 DEF Aligned
  <2>9. s \in DOMAIN batch.buckets[w]
    <3>1. l \in EventsIn(s, w, batch.next - 1)
      <4>1. l \in FirstLedger .. batch.next - 1
        BY <1>2, <2>2, <2>5, <2>6
      <4> QED BY <1>2, <2>2, <2>8, <4>1 DEF EventsIn, v
    <3>2. s \in UNION {export[n] : n \in DOMAIN export}
      BY <1>2, <2>2
    <3> QED BY <2>5, <3>1, <3>2 DEF Verdicts, SubjectsIn
  <2>10. <<s, w>> \in DOMAIN sink
    BY <1>1, <2>9 DEF FlushSound, w
  <2> QED BY <1>2, <2>8, <2>10 DEF v
<1> QED BY <1>3, <1>4

(* The checkpoint is saved.                                                  *)
LEMMA SaveCheckpointStep ==
    ASSUME BackfillInv, SaveCheckpoint
    PROVE  BackfillInv'
<1> USE BackfillTypes
<1> DEFINE w == Min(batch.todo)
           rest == batch.todo \ {w}
           new == [v \in DOMAIN batch.buckets \ {w} |-> batch.buckets[v]]
           at == IF rest = {} THEN "reading" ELSE "flushing"
           left == IF rest = {} THEN {} ELSE DOMAIN batch.buckets[Min(rest)]
<1>1. /\ BucketsHold /\ FlushSound /\ batch.at = "flushing" /\ batch.left = {}
      /\ ckpt' = w + WindowSize - 1
      /\ batch' = [batch EXCEPT !.buckets = new, !.todo = rest, !.at = at, !.left = left]
      /\ UNCHANGED <<export, sink, ends, complete>>
  BY DEF SaveCheckpoint, MaySave, BackfillInv, BatchInv
<1>2. /\ w \in batch.todo /\ w \in DOMAIN batch.buckets /\ Aligned(w)
      /\ \A u \in DOMAIN batch.buckets : u # w => w < u
  BY <1>1, FirstToFlush
<1>3. DOMAIN new = DOMAIN batch.buckets \ {w} /\ \A v \in DOMAIN new : new[v] = batch.buckets[v]
  OBVIOUS
<1>4. (at = "flushing" <=> rest # {}) /\ at \in {"reading", "flushing"}
      /\ (rest = {} => left = {}) /\ (rest # {} => left = DOMAIN batch.buckets[Min(rest)])
  OBVIOUS
<1>5. rest \subseteq batch.todo /\ w \notin rest /\ rest = batch.todo \ {w}
  OBVIOUS
<1> HIDE DEF new, at, left, rest, w
<1>6. /\ batch'.next = batch.next /\ batch'.end = batch.end /\ batch'.buckets = new
      /\ batch'.todo = rest /\ batch'.at = at /\ batch'.left = left
      /\ batch' \in [at : {"idle", "reading", "flushing"}, next : Int, end : Int,
                     buckets : {batch'.buckets}, todo : {batch'.todo}, left : {batch'.left}]
  <2>1. batch' = [at |-> at, next |-> batch.next, end |-> batch.end, buckets |-> new,
                  todo |-> rest, left |-> left] /\ batch.next \in Int /\ batch.end \in Int
    BY <1>1 DEF BackfillInv, BatchInv
  <2> QED BY <1>4, <2>1
<1>7. w \in Nat /\ ckpt' \in Int /\ Aligned(ckpt' + 1) /\ ckpt \in Int /\ ckpt < w
  <2>1. w \in Nat /\ ckpt \in Int /\ ckpt < w
    BY <1>1, <1>2 DEF Aligned, BackfillInv, BucketsHold
  <2>2. ckpt' \in Int /\ ckpt' + 1 = w + WindowSize
    BY <1>1, <2>1
  <2> QED BY <1>2, <2>1, <2>2, WindowFacts
<1>8. /\ batch.next \in Nat /\ batch.end \in Nat /\ batch.next <= batch.end + 1
  BY <1>1, <1>2, WindowRead
<1>9. BucketsHold'
  <2>1. ckpt' < batch.next \/ batch.end < batch.next
    <3>1. w + WindowSize < batch.next \/ batch.next = batch.end + 1
      BY <1>1, <1>2 DEF FlushSound
    <3> QED BY <1>1, <1>7, <1>8, <3>1
  <2>2. \A v \in DOMAIN new : Aligned(v) /\ ckpt' < v
    <3> SUFFICES ASSUME NEW v \in DOMAIN new PROVE Aligned(v) /\ ckpt' < v
      OBVIOUS
    <3>1. Aligned(v) /\ w < v
      BY <1>1, <1>2, <1>3 DEF BucketsHold
    <3>2. w + WindowSize <= v
      BY <1>2, <3>1, WindowFacts
    <3> QED BY <1>1, <1>7, <3>1, <3>2 DEF Aligned
  <2>3. \A v \in DOMAIN new : /\ v < batch.next /\ batch.next <= batch.end + 1
                              /\ new[v] = Verdicts(v, batch.next - 1)
    BY <1>1, <1>3 DEF BucketsHold
  <2>4. \A l \in DOMAIN export : FirstLedger <= l /\ l < batch.next /\ export[l] # {} =>
            WindowStartFor(l) <= ckpt' \/ WindowStartFor(l) \in DOMAIN new
    <3> SUFFICES ASSUME NEW l \in DOMAIN export, FirstLedger <= l, l < batch.next, export[l] # {},
                        WindowStartFor(l) \notin DOMAIN new
                 PROVE  WindowStartFor(l) <= ckpt'
      OBVIOUS
    <3>1. WindowStartFor(l) <= ckpt \/ WindowStartFor(l) = w
      BY <1>1, <1>3 DEF BucketsHold
    <3>2. WindowStartFor(l) \in Nat
      <4>1. l \in Nat
        BY BackfillAssumption DEF BackfillInv
      <4> QED BY <4>1, WindowStart
    <3> QED BY <1>1, <1>7, <3>1, <3>2
  <2>5. /\ FirstLedger <= batch.next /\ batch.end \in RangeEnds
        /\ \E i \in DOMAIN ends' : ends'[i] = batch.end
    BY <1>1 DEF BucketsHold
  <2>6. export' = export
    BY <1>1
  <2> QED BY <1>6, <1>8, <2>1, <2>2, <2>3, <2>4, <2>5, <2>6, ExportStays DEF BucketsHold
<1>10. ASSUME rest # {} PROVE FlushSound'
  <2>1. rest \in SUBSET Nat
    <3>1. \A u \in DOMAIN batch.buckets : u \in Nat
      BY <1>1 DEF BucketsHold, Aligned
    <3> QED BY <1>1, <1>5, <3>1 DEF FlushSound
  <2>2. Min(rest) \in rest
    BY <1>10, <2>1, MinIs
  <2>3. rest \subseteq DOMAIN new
    BY <1>1, <1>3, <1>5 DEF FlushSound
  <2>4. new[Min(rest)] = batch.buckets[Min(rest)]
    BY <1>3, <2>2, <2>3
  <2>5. \A u \in rest : u + WindowSize < batch.next \/ batch.next = batch.end + 1
    BY <1>1, <1>5 DEF FlushSound
  <2>6. \A u \in rest : \A v \in DOMAIN new \ rest : u < v
    BY <1>1, <1>3, <1>5 DEF FlushSound
  <2>7. left = DOMAIN new[Min(rest)]
    BY <1>4, <1>10, <2>4
  <2> QED BY <1>6, <1>10, <2>3, <2>5, <2>6, <2>7 DEF FlushSound
<1>11. BatchInv'
  BY <1>4, <1>6, <1>9, <1>10 DEF BatchInv
<1>12. export' = export /\ sink' = sink /\ ends' = ends /\ complete' = complete
  BY <1>1
<1>13. SinkSound'
  BY <1>12, ExportStays DEF BackfillInv, SinkSound
<1>14. SinkCovers'
  <2>1. \A e : SameRange(e)' = SameRange(e)
    BY <1>12 DEF SameRange, EndsWindow
  <2>2. ASSUME NEW e \in RangeEnds, SameRange(e), NEW k \in Uninterrupted(e), k[2] <= ckpt'
        PROVE  k \in DOMAIN sink
    <3>1. k[2] <= Min(batch.todo) + WindowSize - 1
      BY <1>1, <2>2 DEF w
    <3> QED BY <1>1, <2>2, <3>1, SavedIsCovered
  <2>3. SinkCovers
    BY DEF BackfillInv
  <2> QED BY <1>12, <2>1, <2>2, <2>3, ExportStays DEF SinkCovers
<1> QED BY <1>7, <1>11, <1>12, <1>13, <1>14 DEF BackfillInv

(* The run returns, or dies.                                                 *)
LEMMA RunEnds ==
    ASSUME BackfillInv, RunReturns \/ RunFails
    PROVE  BackfillInv'
<1> USE BackfillTypes
<1>1. batch' = NoBatch /\ export' = export /\ sink' = sink /\ ckpt' = ckpt /\ ends' = ends
      /\ batch.at # "idle" /\ (complete' = complete \/ (RunReturns /\ complete' = batch.end))
  BY DEF RunReturns, RunFails
<1>2. BatchInv'
  BY <1>1 DEF BatchInv, NoBatch
<1>3. BucketsHold
  BY <1>1 DEF BackfillInv, BatchInv
<1>4. SinkSound'
  BY <1>1, ExportStays DEF BackfillInv, SinkSound
<1>5. complete' = -1 \/ complete' \in RangeEnds
  BY <1>1, <1>3 DEF BackfillInv, BucketsHold
<1>6. SinkCovers'
  <2>1. \A e : SameRange(e)' = SameRange(e)
    BY <1>1 DEF SameRange, EndsWindow
  <2>2. ASSUME RunReturns, SameRange(batch.end), NEW k \in Uninterrupted(batch.end)
        PROVE  k \in DOMAIN sink
    <3>1. PICK l \in FirstLedger .. batch.end : \E s \in export[l] : k = <<s, WindowStartFor(l)>>
      BY DEF Uninterrupted
    <3>2. batch.end \in RangeEnds /\ batch.next > batch.end /\ DOMAIN batch.buckets = {}
      BY <1>3, <2>2 DEF RunReturns, Trailing, BucketsHold
    <3>3. batch.end \in Nat /\ batch.next \in Nat /\ FirstLedger .. batch.end \subseteq DOMAIN export
      BY <1>3, <3>2, BackfillAssumption DEF BackfillInv, BucketsHold
    <3>4. l \in DOMAIN export /\ FirstLedger <= l /\ l < batch.next /\ export[l] # {}
      BY <3>1, <3>2, <3>3
    <3>5. WindowStartFor(l) <= ckpt
      BY <1>3, <3>2, <3>4 DEF BucketsHold
    <3>6. k[2] <= ckpt
      BY <3>1, <3>5
    <3> QED BY <2>2, <3>2, <3>6 DEF BackfillInv, SinkCovers
  <2>3. SinkCovers
    BY DEF BackfillInv
  <2> QED BY <1>1, <2>1, <2>2, <2>3, ExportStays DEF SinkCovers
<1> QED BY <1>1, <1>2, <1>4, <1>5, <1>6 DEF BackfillInv

(* BackfillResumes, for every export, window size and sequence of runs: a    *)
(* backfill that dies anywhere and runs again leaves in the sink what one    *)
(* uninterrupted run writes, and its checkpoint is never ahead of the sink.  *)
THEOREM BackfillIsWhole == BackfillSpec => []BackfillResumes
<1>1. BackfillInit => BackfillInv
  <2> SUFFICES ASSUME BackfillInit PROVE BackfillInv
    OBVIOUS
  <2>1. Aligned(ckpt + 1) /\ ckpt \in Int
    <3>1. ckpt = -1
      BY DEF BackfillInit
    <3>2. ckpt + 1 = 0
      BY <3>1
    <3> QED BY <3>1, <3>2, WindowFacts
  <2>2. SinkSound
    BY DEF BackfillInit, SinkSound
  <2>3. SinkCovers
    <3> SUFFICES ASSUME NEW e \in RangeEnds, NEW k \in Uninterrupted(e), k[2] <= ckpt
                 PROVE  FALSE
      BY DEF BackfillInit, SinkCovers
    <3>1. PICK l \in FirstLedger .. e : \E s \in export[l] : k = <<s, WindowStartFor(l)>>
      BY DEF Uninterrupted
    <3>2. l \in Nat
      BY BackfillTypes
    <3>3. k[2] \in Nat
      BY <3>1, <3>2, WindowStart
    <3>4. ckpt = -1
      BY DEF BackfillInit
    <3> QED BY <3>3, <3>4
  <2>4. BatchInv
    BY DEF BackfillInit, BatchInv, NoBatch
  <2>5. ends \in Seq(RangeEnds) /\ export \in Exports /\ complete = -1
    BY DEF BackfillInit
  <2> QED BY <2>1, <2>2, <2>3, <2>4, <2>5 DEF BackfillInv
<1>2. BackfillInv /\ [BackfillNext]_backfillVars => BackfillInv'
  <2> SUFFICES ASSUME BackfillInv, [BackfillNext]_backfillVars PROVE BackfillInv'
    OBVIOUS
  <2>1. CASE \E end \in RangeEnds : Run(end)
    BY <2>1, RunStep
  <2>2. CASE \E s \in batch.left : Upsert(s)
    BY <2>2, UpsertStep
  <2>3. CASE ReadLedger
    BY <2>3, ReadLedgerStep
  <2>4. CASE FlushTrailing
    BY <2>4, FlushTrailingStep
  <2>5. CASE SaveCheckpoint
    BY <2>5, SaveCheckpointStep
  <2>6. CASE RunReturns \/ RunFails
    BY <2>6, RunEnds
  <2>7. CASE UNCHANGED backfillVars
    <3>1. UNCHANGED <<export, sink, ckpt, batch, ends, complete>>
      BY <2>7 DEF backfillVars
    <3>2. SinkSound' /\ SinkCovers'
      BY <3>1, SinkStays DEF BackfillInv
    <3>3. BucketsHold' = BucketsHold
      BY <3>1, ExportStays DEF BucketsHold
    <3>4. FlushSound' = FlushSound
      BY <3>1 DEF FlushSound
    <3>5. BatchInv'
      BY <3>1, <3>3, <3>4 DEF BackfillInv, BatchInv
    <3> QED BY <3>1, <3>2, <3>5 DEF BackfillInv
  <2> QED BY <2>1, <2>2, <2>3, <2>4, <2>5, <2>6, <2>7 DEF BackfillNext
<1> QED BY <1>1, <1>2, BackfillInvImplies, PTL DEF BackfillSpec

-----------------------------------------------------------------------------
(***************************************************************************)
(* Folds over finite sets                                                   *)
(***************************************************************************)
(* Of the subsets of a finite set with some property there is a smallest     *)
(* one; what is left when one of its elements is taken out has it no more.   *)
LEMMA SmallestSet ==
    ASSUME NEW S, IsFiniteSet(S), NEW B \in SUBSET SUBSET S, B # {}
    PROVE  \E s \in B : \A x \in s : \A t \in SUBSET (s \ {x}) : t \notin B
<1>1. \A s \in SUBSET S : IsFiniteSet(s) /\ Cardinality(s) \in Nat
  BY FS_Subset, FS_CardinalityType
<1> DEFINE Sizes == {Cardinality(s) : s \in B}
<1>2. Sizes \in SUBSET Nat /\ Sizes # {}
  BY <1>1
<1>3. PICK n \in Sizes : \A m \in Sizes : n <= m
  BY <1>2, NatMin
<1>4. PICK s \in B : \A t \in B : Cardinality(s) <= Cardinality(t)
  BY <1>3
<1>5. ASSUME NEW x \in s, NEW t \in SUBSET (s \ {x}), t \in B PROVE FALSE
  <2>1. s \in SUBSET S /\ t \in SUBSET s /\ t # s
    OBVIOUS
  <2>2. IsFiniteSet(s) /\ Cardinality(s) \in Nat /\ Cardinality(t) \in Nat
    BY <1>1, <2>1
  <2>3. Cardinality(t) <= Cardinality(s) /\ (Cardinality(s) = Cardinality(t) => s = t)
    BY <2>1, <2>2, FS_Subset
  <2> QED BY <1>4, <1>5, <2>1, <2>2, <2>3
<1> QED BY <1>5

(* A fold over a finite set S: choose picks the next element of a set, and   *)
(* step[x] says what x makes of what the rest came to.                       *)
IsFold(g, base, step, choose, S) ==
    \A s \in SUBSET S : g[s] = IF s = {} THEN base ELSE step[choose[s]][g[s \ {choose[s]}]]

(* There is one, and its values are where the steps lead.                    *)
LEMMA FoldExists ==
    ASSUME NEW S, IsFiniteSet(S), NEW V, NEW base \in V,
           NEW step, \A x \in S, v \in V : step[x][v] \in V,
           NEW choose, \A s \in SUBSET S : s # {} => choose[s] \in s
    PROVE  \E g \in [SUBSET S -> V] : IsFold(g, base, step, choose, S)
<1> DEFINE Upto(n) == {s \in SUBSET S : Cardinality(s) <= n}
           Has(n) == \E g \in [Upto(n) -> V] : \A s \in Upto(n) :
                        g[s] = IF s = {} THEN base ELSE step[choose[s]][g[s \ {choose[s]}]]
           Bad == {n \in Nat : ~Has(n)}
<1>1. \A s \in SUBSET S : /\ IsFiniteSet(s) /\ Cardinality(s) \in Nat
                          /\ Cardinality(s) <= Cardinality(S)
                          /\ Cardinality(s) = 0 <=> s = {}
  BY FS_Subset, FS_CardinalityType, FS_EmptySet
<1>2. \A s \in SUBSET S : s # {} => /\ choose[s] \in S /\ s \ {choose[s]} \in SUBSET S
                                    /\ Cardinality(s \ {choose[s]}) = Cardinality(s) - 1
  BY <1>1, FS_RemoveElement
<1>3. Has(0)
  <2>1. \A s \in Upto(0) : s = {}
    BY <1>1
  <2>2. [s \in Upto(0) |-> base] \in [Upto(0) -> V]
    OBVIOUS
  <2> QED BY <2>1, <2>2
<1>4. ASSUME NEW n \in Nat, Has(n) PROVE Has(n + 1)
  <2>1. PICK g \in [Upto(n) -> V] : \A s \in Upto(n) :
                        g[s] = IF s = {} THEN base ELSE step[choose[s]][g[s \ {choose[s]}]]
    BY <1>4
  <2> DEFINE h == [s \in Upto(n + 1) |-> IF s \in Upto(n) THEN g[s]
                                         ELSE step[choose[s]][g[s \ {choose[s]}]]]
  <2>2. Upto(n) \subseteq Upto(n + 1)
    BY <1>1
  <2>3. \A s \in Upto(n + 1) : s # {} => s \ {choose[s]} \in Upto(n)
    BY <1>1, <1>2
  <2>4. \A s \in Upto(n + 1) \ Upto(n) : s # {}
    BY <1>1
  <2> HIDE DEF Upto
  <2>5. h \in [Upto(n + 1) -> V]
    <3>1. ASSUME NEW s \in Upto(n + 1) \ Upto(n)
          PROVE  step[choose[s]][g[s \ {choose[s]}]] \in V
      <4>1. choose[s] \in S /\ g[s \ {choose[s]}] \in V
        BY <1>2, <2>1, <2>3, <2>4 DEF Upto
      <4> QED BY <4>1
    <3>2. \A s \in Upto(n) : g[s] \in V
      BY <2>1
    <3> QED BY <3>1, <3>2
  <2>6. ASSUME NEW s \in Upto(n + 1)
        PROVE  h[s] = IF s = {} THEN base ELSE step[choose[s]][h[s \ {choose[s]}]]
    <3>1. s # {} => h[s \ {choose[s]}] = g[s \ {choose[s]}]
      BY <2>2, <2>3
    <3>2. CASE s \in Upto(n)
      BY <2>1, <3>1, <3>2
    <3>3. CASE s \notin Upto(n)
      BY <2>4, <3>1, <3>3
    <3> QED BY <3>2, <3>3
  <2> HIDE DEF h
  <2> QED BY <2>5, <2>6
<1> HIDE DEF Has
<1>5. Bad = {}
  <2> SUFFICES ASSUME Bad # {} PROVE FALSE
    OBVIOUS
  <2>1. PICK n \in Bad : \A m \in Bad : n <= m
    BY NatMin
  <2>2. n # 0
    BY <1>3
  <2>3. n - 1 \in Nat /\ n - 1 \notin Bad
    BY <2>1, <2>2
  <2>4. Has((n - 1) + 1)
    BY <1>4, <2>3
  <2>5. (n - 1) + 1 = n
    OBVIOUS
  <2> QED BY <2>4, <2>5
<1>6. Cardinality(S) \in Nat /\ Upto(Cardinality(S)) = SUBSET S
  BY <1>1, FS_CardinalityType
<1>7. Has(Cardinality(S))
  BY <1>5, <1>6
<1> QED BY <1>6, <1>7 DEF Has, IsFold

(* The library picks any element.                                            *)
PickOf(s) == CHOOSE x \in s : TRUE

(* What g comes to on each subset of S is the sum of f over it.              *)
IsSum(g, f, S) ==
    \A s \in SUBSET S : g[s] = IF s = {} THEN 0 ELSE f[PickOf(s)] + g[s \ {PickOf(s)}]

(* The function by which the library defines a sum.                          *)
SumDefines(g, f, S) ==
    g = [s \in SUBSET S |-> IF s = {} THEN 0 ELSE f[PickOf(s)] + g[s \ {PickOf(s)}]]

(* Two that sum the same agree, whatever the sets they were made for.        *)
LEMMA SumsAgree ==
    ASSUME NEW S, NEW T, IsFiniteSet(S), NEW f, NEW h, NEW g, NEW k,
           IsSum(g, f, S), IsSum(k, h, T), S \subseteq T, \A x \in S : f[x] = h[x]
    PROVE  g[S] = k[S]
<1> DEFINE Bad == {s \in SUBSET S : g[s] # k[s]}
<1> SUFFICES ASSUME Bad # {} PROVE FALSE
  OBVIOUS
<1>0. Bad \in SUBSET SUBSET S
  OBVIOUS
<1>1. PICK s \in Bad : \A x \in s : \A t \in SUBSET (s \ {x}) : t \notin Bad
  <2> HIDE DEF Bad
  <2> QED BY <1>0, SmallestSet
<1>2. s # {}
  BY DEF IsSum
<1>3. PickOf(s) \in s
  BY <1>2 DEF PickOf
<1>4. PICK x \in s : x = PickOf(s)
  BY <1>3
<1>5. g[s \ {x}] = k[s \ {x}]
  BY <1>1, <1>4
<1>6. g[s] = f[x] + g[s \ {x}] /\ k[s] = h[x] + k[s \ {x}]
  BY <1>2, <1>4 DEF IsSum
<1> QED BY <1>4, <1>5, <1>6

(* It does not matter which element is taken out.                            *)
LEMMA SumTakesOut ==
    ASSUME NEW S, IsFiniteSet(S), NEW f, NEW g, IsSum(g, f, S), \A x \in S : f[x] \in Int
    PROVE  \A s \in SUBSET S : g[s] \in Int /\ \A x \in s : g[s] = f[x] + g[s \ {x}]
<1> DEFINE Bad == {s \in SUBSET S : ~(g[s] \in Int /\ \A x \in s : g[s] = f[x] + g[s \ {x}])}
<1> SUFFICES ASSUME Bad # {} PROVE FALSE
  OBVIOUS
<1>0. Bad \in SUBSET SUBSET S
  OBVIOUS
<1>1. PICK s \in Bad : \A x \in s : \A t \in SUBSET (s \ {x}) : t \notin Bad
  <2> HIDE DEF Bad
  <2> QED BY <1>0, SmallestSet
<1>2. s # {}
  <2>1. g[{}] = 0
    BY DEF IsSum
  <2>2. s = {} => g[s] \in Int
    BY <2>1
  <2> QED BY <2>2
<1>3. PickOf(s) \in s
  BY <1>2 DEF PickOf
<1>4. PICK c \in s : g[s] = f[c] + g[s \ {c}]
  BY <1>2, <1>3 DEF IsSum
<1>5. \A x \in s : \A t \in SUBSET (s \ {x}) : g[t] \in Int /\ \A y \in t : g[t] = f[y] + g[t \ {y}]
  BY <1>1
<1>6. g[s] \in Int
  <2>1. g[s \ {c}] \in Int
    BY <1>5
  <2> QED BY <1>4, <2>1
<1>7. ASSUME NEW x \in s PROVE g[s] = f[x] + g[s \ {x}]
  <2>1. CASE x = c
    BY <1>4, <2>1
  <2>2. CASE x # c
    <3>1. g[s \ {c}] = f[x] + g[(s \ {c}) \ {x}]
      BY <1>5, <2>2
    <3>2. g[s \ {x}] = f[c] + g[(s \ {x}) \ {c}]
      BY <1>5, <2>2
    <3>3. (s \ {c}) \ {x} = (s \ {x}) \ {c}
      OBVIOUS
    <3>4. g[(s \ {x}) \ {c}] \in Int
      <4>1. (s \ {x}) \ {c} \in SUBSET (s \ {x})
        OBVIOUS
      <4> QED BY <1>5, <4>1
    <3>5. f[x] \in Int /\ f[c] \in Int
      OBVIOUS
    <3>6. \A p, q, n \in Int : p + (q + n) = q + (p + n)
      OBVIOUS
    <3>7. f[c] + (f[x] + g[(s \ {x}) \ {c}]) = f[x] + (f[c] + g[(s \ {x}) \ {c}])
      BY <3>4, <3>5, <3>6
    <3>8. g[s] = f[c] + (f[x] + g[(s \ {x}) \ {c}])
      BY <1>4, <3>1, <3>3
    <3> QED BY <3>2, <3>7, <3>8
  <2> QED BY <2>1, <2>2
<1> QED BY <1>6, <1>7

(* A sum of the library is one.                                              *)
LEMMA SumExists ==
    ASSUME NEW S, IsFiniteSet(S), NEW f, \A x \in S : f[x] \in Int
    PROVE  \E g : SumDefines(g, f, S)
<1>1. PICK step : step = [x \in S |-> [v \in Int |-> f[x] + v]]
  OBVIOUS
<1>2. \A x \in S, v \in Int : step[x][v] \in Int
  BY <1>1
<1>3. PICK choose : choose = [s \in SUBSET S |-> PickOf(s)]
  OBVIOUS
<1>4. \A s \in SUBSET S : s # {} => PickOf(s) \in s /\ choose[s] = PickOf(s)
  BY <1>3 DEF PickOf
<1>5. PICK g \in [SUBSET S -> Int] : IsFold(g, 0, step, choose, S)
  <2>1. \A s \in SUBSET S : s # {} => choose[s] \in s
    BY <1>4
  <2>2. PICK V : V = Int
    OBVIOUS
  <2>3. PICK base \in V : base = 0
    BY <2>2
  <2>4. \E g \in [SUBSET S -> V] : IsFold(g, base, step, choose, S)
    BY <1>2, <2>1, <2>2, FoldExists
  <2> QED BY <2>2, <2>3, <2>4
<1>6. ASSUME NEW s \in SUBSET S
      PROVE  g[s] = IF s = {} THEN 0 ELSE f[PickOf(s)] + g[s \ {PickOf(s)}]
  <2>1. CASE s = {}
    BY <1>5, <2>1 DEF IsFold
  <2>2. CASE s # {}
    <3>1. PickOf(s) \in S /\ choose[s] = PickOf(s) /\ s \ {PickOf(s)} \in SUBSET S
      BY <1>4, <2>2
    <3>2. g[s] = step[PickOf(s)][g[s \ {PickOf(s)}]]
      BY <1>5, <2>2, <3>1 DEF IsFold
    <3>3. g[s \ {PickOf(s)}] \in Int
      BY <3>1
    <3> QED BY <1>1, <2>2, <3>1, <3>2, <3>3
  <2> QED BY <2>1, <2>2
<1>7. SumDefines(g, f, S)
  BY <1>6 DEF SumDefines
<1> QED BY <1>7

(* The sum of a function over a finite set is the end of a fold.             *)
LEMMA SumIs ==
    ASSUME NEW S, IsFiniteSet(S), NEW f, \A x \in S : f[x] \in Int
    PROVE  \E g : IsSum(g, f, S) /\ SumFunctionOnSet(f, S) = g[S]
<1>1. PICK g : g = CHOOSE h : SumDefines(h, f, S)
  OBVIOUS
<1>2. SumDefines(g, f, S)
  BY <1>1, SumExists
<1>3. SumFunctionOnSet(f, S) = g[S]
  BY <1>1 DEF SumDefines, SumFunctionOnSet, FoldFunctionOnSet, MapThenFoldSet, PickOf
<1>4. IsSum(g, f, S)
  BY <1>2 DEF IsSum, SumDefines
<1> QED BY <1>3, <1>4

(* The sum over nothing is zero.                                             *)
LEMMA SumEmpty == \A f : SumFunctionOnSet(f, {}) = 0
<1> SUFFICES ASSUME NEW f PROVE SumFunctionOnSet(f, {}) = 0
  OBVIOUS
<1>1. PICK g : IsSum(g, f, {}) /\ SumFunctionOnSet(f, {}) = g[{}]
  BY SumIs, FS_EmptySet
<1> QED BY <1>1 DEF IsSum

(* Functions that agree on a set have the same sum over it.                  *)
LEMMA SumSame ==
    ASSUME NEW S, IsFiniteSet(S), NEW f, NEW h, \A x \in S : f[x] \in Int /\ f[x] = h[x]
    PROVE  SumFunctionOnSet(f, S) = SumFunctionOnSet(h, S)
<1>1. PICK g : IsSum(g, f, S) /\ SumFunctionOnSet(f, S) = g[S]
  BY SumIs
<1>2. PICK k : IsSum(k, h, S) /\ SumFunctionOnSet(h, S) = k[S]
  BY SumIs
<1> QED BY <1>1, <1>2, SumsAgree

(* One more member adds its value to the sum.                                *)
LEMMA SumAdd ==
    ASSUME NEW S, IsFiniteSet(S), NEW x, x \notin S, NEW f, \A y \in S \cup {x} : f[y] \in Int
    PROVE  SumFunctionOnSet(f, S \cup {x}) = f[x] + SumFunctionOnSet(f, S) /\ SumFunctionOnSet(f, S) \in Int
<1>1. IsFiniteSet(S \cup {x})
  BY FS_AddElement
<1>2. PICK g : IsSum(g, f, S) /\ SumFunctionOnSet(f, S) = g[S]
  BY SumIs
<1>3. PICK k : IsSum(k, f, S \cup {x}) /\ SumFunctionOnSet(f, S \cup {x}) = k[S \cup {x}]
  BY <1>1, SumIs
<1>4. g[S] = k[S]
  BY <1>2, <1>3, SumsAgree
<1>5. g[S] \in Int
  BY <1>2, SumTakesOut
<1>6. (S \cup {x}) \ {x} = S
  OBVIOUS
<1>7. k[S \cup {x}] = f[x] + k[(S \cup {x}) \ {x}]
  <2>1. S \cup {x} \in SUBSET (S \cup {x}) /\ x \in S \cup {x}
    OBVIOUS
  <2>2. \A s \in SUBSET (S \cup {x}) :
            k[s] \in Int /\ \A y \in s : k[s] = f[y] + k[s \ {y}]
    BY <1>1, <1>3, SumTakesOut
  <2> QED BY <2>1, <2>2
<1> QED BY <1>2, <1>3, <1>4, <1>5, <1>6, <1>7

(* A finite set of integers that is not empty has a largest element.         *)
LEMMA MaxIs ==
    ASSUME NEW S \in SUBSET Int, IsFiniteSet(S), S # {}
    PROVE  Max(S) \in S /\ \A m \in S : m <= Max(S)
<1> DEFINE Has(s) == \E n \in s : \A m \in s : n >= m
           Bad == {s \in SUBSET S : s # {} /\ ~Has(s)}
<1>1. Bad = {}
  <2> SUFFICES ASSUME Bad # {} PROVE FALSE
    OBVIOUS
  <2>1. Bad \in SUBSET SUBSET S
    OBVIOUS
  <2>2. PICK s \in Bad : \A x \in s : \A t \in SUBSET (s \ {x}) : t \notin Bad
    <3> HIDE DEF Bad
    <3> QED BY <2>1, SmallestSet
  <2>3. PICK x \in s : x \in Int
    OBVIOUS
  <2>4. s \ {x} \in SUBSET S /\ s \ {x} \notin Bad
    <3>1. s \ {x} \in SUBSET (s \ {x}) /\ s \ {x} \in SUBSET S
      OBVIOUS
    <3> HIDE DEF Bad
    <3> QED BY <2>2, <3>1
  <2>5. CASE s \ {x} = {}
    <3>1. \A m \in s : m = x
      BY <2>5
    <3>2. x >= x
      BY <2>3
    <3> QED BY <3>1, <3>2
  <2>6. CASE s \ {x} # {}
    <3>1. PICK n \in s \ {x} : \A m \in s \ {x} : n >= m
      BY <2>4, <2>6
    <3>2. n \in Int /\ \A m \in s : m \in Int
      OBVIOUS
    <3>3. CASE n >= x
      BY <3>1, <3>2, <3>3
    <3>4. CASE ~(n >= x)
      <4>1. \A m \in s : x >= m
        BY <2>3, <3>1, <3>2, <3>4
      <4> QED BY <4>1
    <3> QED BY <3>3, <3>4
  <2> QED BY <2>5, <2>6
<1>2. S \in SUBSET S /\ S \notin Bad
  BY <1>1
<1>3. \E n \in S : \A m \in S : n >= m
  BY <1>2
<1>4. Max(S) \in S /\ \A m \in S : Max(S) >= m
  BY <1>3 DEF Max
<1> QED BY <1>4

-----------------------------------------------------------------------------
(***************************************************************************)
(* Sponsorship                                                              *)
(***************************************************************************)
(* The places of a bucket, and the grants of a user, after some time.        *)
Above(s, d) == {i \in 1..Len(s) : s[i] > d}
GrantsAbove(u, d) == {n \in 1..Len(granted) : granted[n].user = u /\ granted[n].at > d}

(* One more timestamp is one more above every earlier time.                  *)
LEMMA AboveAppend ==
    ASSUME NEW s \in Seq(Nat), NEW t \in Nat, NEW d \in Int
    PROVE  /\ Cardinality(Above(s, d)) \in Nat
           /\ Cardinality(Above(Append(s, t), d)) =
                 IF t > d THEN Cardinality(Above(s, d)) + 1 ELSE Cardinality(Above(s, d))
<1>1. PICK k \in Nat : k = Len(s)
  OBVIOUS
<1>2. PICK r : r = Append(s, t)
  OBVIOUS
<1>3. Len(r) = k + 1 /\ r[k + 1] = t /\ \A i \in 1..k : r[i] = s[i]
  BY <1>1, <1>2
<1>4. Above(s, d) \subseteq 1..k /\ IsFiniteSet(1..k)
  BY <1>1, FS_Interval DEF Above
<1>5. IsFiniteSet(Above(s, d)) /\ Cardinality(Above(s, d)) \in Nat
  BY <1>4, FS_Subset, FS_CardinalityType
<1>6. k + 1 \notin Above(s, d)
  BY <1>4
<1>7. Above(r, d) = IF t > d THEN Above(s, d) \cup {k + 1} ELSE Above(s, d)
  <2>1. \A i : i \in 1..(k + 1) <=> i \in 1..k \/ i = k + 1
    OBVIOUS
  <2> QED BY <1>1, <1>3, <2>1 DEF Above
<1>8. Cardinality(Above(s, d) \cup {k + 1}) = Cardinality(Above(s, d)) + 1
  BY <1>5, <1>6, FS_AddElement
<1> QED BY <1>2, <1>5, <1>7, <1>8

(* What is left of timestamps: those in the window.                          *)
Filtered(r, k, s) ==
    /\ r \in Seq(Nat) /\ \A i \in 1..Len(r) : InWindow(r[i])
    /\ \A d \in Int : d >= tick - RateWindow =>
          Cardinality(Above(r, d)) = Cardinality({i \in 1..k : s[i] > d})

(* The function by which the library defines the fold of recent timestamps.  *)
KeepDefines(g, s) ==
    g = [p \in SUBSET DOMAIN s |-> IF p = {} THEN <<>> ELSE Keep(g[p \ {Max(p)}], s[Max(p)])]

(* It is there, and the fold is its value for all the places.                *)
LEMMA KeepExists ==
    ASSUME NEW s \in Seq(Nat)
    PROVE  \E g : KeepDefines(g, s)
<1>1. PICK S : S = DOMAIN s /\ S = 1..Len(s)
  OBVIOUS
<1>2. IsFiniteSet(S) /\ S \subseteq Int
  BY <1>1, FS_Interval
<1>3. PICK step : step = [x \in S |-> [v \in Seq(Nat) |-> Keep(v, s[x])]]
  OBVIOUS
<1>4. \A x \in S, v \in Seq(Nat) : step[x][v] \in Seq(Nat)
  BY <1>1, <1>3 DEF Keep
<1>5. PICK choose : choose = [p \in SUBSET S |-> Max(p)]
  OBVIOUS
<1>6. \A p \in SUBSET S : p # {} => Max(p) \in p /\ choose[p] = Max(p) /\ choose[p] \in p
  BY <1>2, <1>5, FS_Subset, MaxIs
<1>7. PICK base : base = <<>>
  OBVIOUS
<1>8. PICK g \in [SUBSET S -> Seq(Nat)] : IsFold(g, base, step, choose, S)
  <2>1. PICK V : V = Seq(Nat)
    OBVIOUS
  <2>2. \E g \in [SUBSET S -> V] : IsFold(g, base, step, choose, S)
    <3>1. base \in V
      BY <1>7, <2>1
    <3> QED BY <1>2, <1>4, <1>6, <2>1, <3>1, FoldExists
  <2> QED BY <2>1, <2>2
<1>9. ASSUME NEW p \in SUBSET S
      PROVE  g[p] = IF p = {} THEN <<>> ELSE Keep(g[p \ {Max(p)}], s[Max(p)])
  <2>1. CASE p = {}
    BY <1>7, <1>8, <2>1 DEF IsFold
  <2>2. CASE p # {}
    <3>1. Max(p) \in S /\ choose[p] = Max(p) /\ p \ {Max(p)} \in SUBSET S
      BY <1>6, <2>2
    <3>2. g[p] = step[Max(p)][g[p \ {Max(p)}]]
      BY <1>8, <2>2, <3>1 DEF IsFold
    <3>3. g[p \ {Max(p)}] \in Seq(Nat)
      BY <3>1
    <3> QED BY <1>3, <2>2, <3>1, <3>2, <3>3
  <2> QED BY <2>1, <2>2
<1> QED BY <1>1, <1>9 DEF KeepDefines

(* prune: of a user's timestamps those in the window are left.               *)
LEMMA RecentIs ==
    ASSUME tick \in Nat, NEW u \in Users, buckets \in [Users -> Seq(Nat)]
    PROVE  Filtered(Recent(u), Len(buckets[u]), buckets[u])
<1>0. RateWindow \in Nat
  BY SponsorshipAssumption
<1>1. PICK s \in Seq(Nat) : s = buckets[u]
  OBVIOUS
<1>2. PICK g : g = CHOOSE h : KeepDefines(h, s)
  OBVIOUS
<1>3. KeepDefines(g, s)
  BY <1>2, KeepExists
<1>4. Recent(u) = g[DOMAIN s]
  BY <1>1, <1>2 DEF Recent, FoldLeft, MapThenFoldSet, KeepDefines
<1>5. PICK n \in Nat : n = Len(s) /\ DOMAIN s = 1..n
  OBVIOUS
<1>6. \A k \in 1..n : g[1..k] = Keep(g[1..(k - 1)], s[k])
  <2> SUFFICES ASSUME NEW k \in 1..n PROVE g[1..k] = Keep(g[1..(k - 1)], s[k])
    OBVIOUS
  <2>1. PICK p : p = 1..k
    OBVIOUS
  <2>2. p \in SUBSET (1..n) /\ k \in p /\ p \in SUBSET Int
    BY <2>1
  <2>3. IsFiniteSet(p)
    BY <2>1, FS_Interval
  <2>4. Max(p) \in p /\ \A m \in p : m <= Max(p)
    BY <2>2, <2>3, MaxIs
  <2>5. Max(p) = k
    BY <2>1, <2>2, <2>4
  <2>6. p \ {k} = 1..(k - 1)
    BY <2>1
  <2>7. g[p] = Keep(g[p \ {Max(p)}], s[Max(p)])
    BY <1>3, <1>5, <2>2 DEF KeepDefines
  <2> QED BY <2>1, <2>5, <2>6, <2>7
<1>7. g[{}] = <<>>
  BY <1>3 DEF KeepDefines
<1> DEFINE Bad == {k \in 0..n : ~Filtered(g[1..k], k, s)}
<1>8. Bad = {}
  <2> SUFFICES ASSUME Bad # {} PROVE FALSE
    OBVIOUS
  <2>1. Bad \in SUBSET Nat
    OBVIOUS
  <2>2. PICK k \in Bad : \A m \in Bad : k <= m
    <3> HIDE DEF Bad
    <3> QED BY <2>1, NatMin
  <2>3. k # 0
    <3>1. 1..0 = {} /\ g[1..0] = <<>>
      BY <1>7
    <3>2. \A d : Above(<<>>, d) = {}
      BY DEF Above
    <3>3. \A d : {i \in 1..0 : s[i] > d} = {}
      BY <3>1
    <3>4. PICK e : e = <<>>
      OBVIOUS
    <3>5. Filtered(e, 0, s)
      <4>1. e \in Seq(Nat) /\ Len(e) = 0
        BY <3>4
      <4>2. \A d \in Int : Cardinality(Above(e, d)) = Cardinality({i \in 1..0 : s[i] > d})
        <5> SUFFICES ASSUME NEW d \in Int
                     PROVE  Cardinality(Above(e, d)) = Cardinality({i \in 1..0 : s[i] > d})
          OBVIOUS
        <5>1. Above(e, d) = {} /\ {i \in 1..0 : s[i] > d} = {}
          BY <3>2, <3>3, <3>4
        <5> QED BY ONLY <5>1
      <4>3. \A i \in 1..Len(e) : InWindow(e[i])
        BY <4>1
      <4> QED BY <4>1, <4>2, <4>3 DEF Filtered
    <3>6. Filtered(g[1..0], 0, s)
      BY <3>1, <3>4, <3>5
    <3> QED BY <3>6
  <2>4. k \in 1..n /\ k - 1 \in 0..n /\ k - 1 \notin Bad /\ ~Filtered(g[1..k], k, s)
    BY <2>2, <2>3
  <2>5. PICK r : r = g[1..(k - 1)] /\ Filtered(r, k - 1, s)
    BY <2>4
  <2> HIDE DEF Bad
  <2>6. PICK t \in Nat : t = s[k]
    BY <1>5, <2>4
  <2>7. g[1..k] = IF InWindow(t) THEN Append(r, t) ELSE r
    BY <1>6, <2>4, <2>5, <2>6 DEF Keep
  <2>8. r \in Seq(Nat) /\ \A i \in 1..Len(r) : InWindow(r[i])
    BY <2>5 DEF Filtered
  <2>9. ASSUME NEW d \in Int, d >= tick - RateWindow
        PROVE  /\ Cardinality({i \in 1..k : s[i] > d}) =
                     IF t > d THEN Cardinality(Above(r, d)) + 1 ELSE Cardinality(Above(r, d))
               /\ t > d => InWindow(t)
    <3>1. {i \in 1..k : s[i] > d} = IF t > d THEN {i \in 1..(k - 1) : s[i] > d} \cup {k}
                                    ELSE {i \in 1..(k - 1) : s[i] > d}
      <4>1. \A i : i \in 1..k <=> i \in 1..(k - 1) \/ i = k
        BY <2>4
      <4> QED BY <2>6, <4>1
    <3>2. Cardinality({i \in 1..(k - 1) : s[i] > d}) = Cardinality(Above(r, d))
      BY <2>5, <2>9 DEF Filtered
    <3>3. IsFiniteSet({i \in 1..(k - 1) : s[i] > d}) /\ k \notin {i \in 1..(k - 1) : s[i] > d}
      <4>1. {i \in 1..(k - 1) : s[i] > d} \in SUBSET (1..(k - 1)) /\ k \notin 1..(k - 1)
        BY <2>4
      <4>2. IsFiniteSet(1..(k - 1))
        BY <2>4, FS_Interval
      <4> QED BY <4>1, <4>2, FS_Subset
    <3>4. Cardinality({i \in 1..(k - 1) : s[i] > d} \cup {k}) = Cardinality(Above(r, d)) + 1
      BY <3>2, <3>3, FS_AddElement
    <3>5. t > d => InWindow(t)
      BY <1>0, <2>9 DEF InWindow
    <3> QED BY <3>1, <3>2, <3>4, <3>5
  <2>10. CASE InWindow(t)
    <3>1. \A d \in Int : d >= tick - RateWindow =>
             Cardinality(Above(Append(r, t), d)) = Cardinality({i \in 1..k : s[i] > d})
      BY <2>8, <2>9, AboveAppend
    <3>2. Append(r, t) \in Seq(Nat) /\ \A i \in 1..Len(Append(r, t)) : InWindow(Append(r, t)[i])
      <4>1. PICK m \in Nat : m = Len(r)
        BY <2>8
      <4>2. PICK q : q = Append(r, t)
        OBVIOUS
      <4>3. q \in Seq(Nat) /\ Len(q) = m + 1 /\ q[m + 1] = t /\ \A i \in 1..m : q[i] = r[i]
        BY <2>8, <4>1, <4>2
      <4>4. \A i : i \in 1..(m + 1) <=> i \in 1..m \/ i = m + 1
        OBVIOUS
      <4> QED BY <2>8, <2>10, <4>1, <4>2, <4>3, <4>4
    <3> QED BY <2>4, <2>7, <2>10, <3>1, <3>2 DEF Filtered
  <2>11. CASE ~InWindow(t)
    <3>1. \A d \in Int : d >= tick - RateWindow =>
             Cardinality(Above(r, d)) = Cardinality({i \in 1..k : s[i] > d})
      BY <2>9, <2>11
    <3> QED BY <2>4, <2>7, <2>8, <2>11, <3>1 DEF Filtered
  <2> QED BY <2>10, <2>11
<1>9. Filtered(g[1..n], n, s)
  <2>1. n \in 0..n
    OBVIOUS
  <2>2. n \notin Bad
    BY <1>8
  <2> QED BY <2>1, <2>2
<1> QED BY <1>1, <1>4, <1>5, <1>9

(* A sum of integers is one.                                                 *)
LEMMA SumInt ==
    ASSUME NEW S, IsFiniteSet(S), NEW f, \A x \in S : f[x] \in Int
    PROVE  SumFunctionOnSet(f, S) \in Int
<1>1. PICK g : IsSum(g, f, S) /\ SumFunctionOnSet(f, S) = g[S]
  BY SumIs
<1>2. S \in SUBSET S
  OBVIOUS
<1> QED BY <1>1, <1>2, SumTakesOut

(* The bumps there may be.                                                   *)
Grants == [user: Users, at: Nat, fee: Nat]

(* The shapes of the state; no grant was made later than now.                *)
SponsorTyped ==
    /\ tick \in Nat /\ buckets \in [Users -> Seq(Nat)]
    /\ daily \in [date: Int, stroops: Nat] /\ granted \in Seq(Grants)
    /\ \A n \in 1..Len(granted) : granted[n].at <= tick

(* A bucket counts after any time what was granted after it, from the start  *)
(* of the window on; what is older may have been pruned.                     *)
BucketsCount ==
    \A u \in Users, d \in Int : d >= tick - RateWindow =>
        Cardinality(Above(buckets[u], d)) = Cardinality(GrantsAbove(u, d))

(* No window up to now holds too many bumps of a user.                       *)
WindowsHeld ==
    \A u \in Users, to \in 0..tick : Cardinality(GrantedIn(u, to - RateWindow, to)) <= MaxBumps

(* What holds of the paymaster after every step.                             *)
SponsorInv ==
    /\ SponsorTyped /\ BucketsCount /\ WindowsHeld /\ FloatBounded /\ daily.date <= Today

(* A grant names a user, when it was made and what it cost.                  *)
LEMMA GrantTypes ==
    ASSUME granted \in Seq(Grants)
    PROVE  \A n \in 1..Len(granted) :
              granted[n].user \in Users /\ granted[n].at \in Nat /\ granted[n].fee \in Nat
<1>1. \A n \in 1..Len(granted) : granted[n] \in Grants
  OBVIOUS
<1> QED BY <1>1 DEF Grants

(* The grants of a user in some time are finitely many.                      *)
LEMMA GrantsFinite ==
    ASSUME granted \in Seq(Grants)
    PROVE  \A u, c, d : /\ IsFiniteSet(GrantsAbove(u, c)) /\ Cardinality(GrantsAbove(u, c)) \in Nat
                        /\ IsFiniteSet(GrantedIn(u, c, d)) /\ Cardinality(GrantedIn(u, c, d)) \in Nat
<1> SUFFICES ASSUME NEW u, NEW c, NEW d
             PROVE  /\ IsFiniteSet(GrantsAbove(u, c)) /\ Cardinality(GrantsAbove(u, c)) \in Nat
                    /\ IsFiniteSet(GrantedIn(u, c, d)) /\ Cardinality(GrantedIn(u, c, d)) \in Nat
  OBVIOUS
<1>1. PICK k \in Nat : k = Len(granted) /\ DOMAIN granted = 1..k
  OBVIOUS
<1>2. IsFiniteSet(1..k)
  BY FS_Interval
<1>3. GrantsAbove(u, c) \in SUBSET (1..k) /\ GrantedIn(u, c, d) \in SUBSET (1..k)
  BY <1>1 DEF GrantsAbove, GrantedIn
<1> QED BY <1>2, <1>3, FS_Subset, FS_CardinalityType

(* What is kept of a bucket is what was granted in the last window.          *)
LEMMA RecentCounts ==
    ASSUME SponsorInv, NEW u \in Users
    PROVE  /\ Recent(u) \in Seq(Nat)
           /\ Len(Recent(u)) = Cardinality(GrantedIn(u, tick - RateWindow, tick))
           /\ GrantedIn(u, tick - RateWindow, tick) = GrantsAbove(u, tick - RateWindow)
           /\ \A d \in Int : d >= tick - RateWindow =>
                 Cardinality(Above(Recent(u), d)) = Cardinality(GrantsAbove(u, d))
<1>1. /\ tick \in Nat /\ buckets \in [Users -> Seq(Nat)] /\ granted \in Seq(Grants)
      /\ \A n \in 1..Len(granted) : granted[n].at <= tick /\ granted[n].at \in Nat
  <2>1. granted \in Seq(Grants)
    BY DEF SponsorInv, SponsorTyped
  <2>2. \A n \in 1..Len(granted) : granted[n].at \in Nat
    BY <2>1, GrantTypes
  <2> QED BY <2>2 DEF SponsorInv, SponsorTyped
<1>2. PICK c \in Int : c = tick - RateWindow
  BY <1>1, SponsorshipAssumption
<1>3. PICK r : r = Recent(u) /\ Filtered(r, Len(buckets[u]), buckets[u])
  BY <1>1, RecentIs
<1>4. r \in Seq(Nat) /\ \A i \in 1..Len(r) : r[i] > c
  BY <1>2, <1>3 DEF Filtered, InWindow
<1>5. \A d \in Int : d >= c => Cardinality(Above(r, d)) = Cardinality(Above(buckets[u], d))
  BY <1>2, <1>3 DEF Filtered, Above
<1>6. \A d \in Int : d >= c => Cardinality(Above(r, d)) = Cardinality(GrantsAbove(u, d))
  BY <1>2, <1>5 DEF SponsorInv, BucketsCount
<1>7. Above(r, c) = 1..Len(r)
  BY <1>4 DEF Above
<1>8. Cardinality(1..Len(r)) = Len(r)
  <2>1. PICK m \in Nat : m = Len(r)
    BY <1>4
  <2>2. Cardinality(1..m) = m
    BY FS_Interval
  <2> QED BY <2>1, <2>2
<1>9. GrantedIn(u, c, tick) = GrantsAbove(u, c)
  BY <1>1 DEF GrantedIn, GrantsAbove
<1>10. Len(r) = Cardinality(GrantedIn(u, c, tick))
  <2>1. Cardinality(Above(r, c)) = Cardinality(GrantsAbove(u, c))
    BY <1>2, <1>6
  <2> QED BY <1>7, <1>8, <1>9, <2>1
<1> QED BY <1>2, <1>3, <1>4, <1>6, <1>9, <1>10

(* A day comes after another.                                                *)
LEMMA DaysPass ==
    /\ \A a \in Nat : a \div Day \in Nat
    /\ \A a, b \in Nat : a <= b => a \div Day <= b \div Day
<1>1. PICK day \in Nat \ {0} : day = Day
  BY SponsorshipAssumption
<1>2. \A a \in Nat : /\ a \div day \in Nat /\ (a \div day) * day <= a
                     /\ a < (a \div day) * day + day
  OBVIOUS
<1>3. \A q, r \in Nat : q < r => q * day + day <= r * day
  OBVIOUS
<1>4. ASSUME NEW a \in Nat, NEW b \in Nat, a <= b PROVE a \div day <= b \div day
  <2>1. PICK q \in Nat : q = a \div day /\ q * day <= a
    BY <1>2
  <2>2. PICK r \in Nat : r = b \div day /\ b < r * day + day
    BY <1>2
  <2>3. CASE r < q
    <3>1. r * day + day <= q * day
      BY <1>3, <2>3
    <3>2. PICK x \in Nat, y \in Nat : x = q * day /\ y = r * day
      OBVIOUS
    <3> QED BY <1>4, <2>1, <2>2, <3>1, <3>2
  <2> QED BY <2>1, <2>2, <2>3
<1> QED BY <1>1, <1>2, <1>4

(* What the bumps of a day cost.                                             *)
LEMMA SpentInt ==
    ASSUME granted \in Seq(Grants), NEW day
    PROVE  /\ Spent(day) \in Int
           /\ (\A n \in 1..Len(granted) : granted[n].at \div Day # day) => Spent(day) = 0
<1>1. PICK T : T = {n \in DOMAIN granted : granted[n].at \div Day = day}
  OBVIOUS
<1>2. PICK k \in Nat : k = Len(granted) /\ DOMAIN granted = 1..k
  OBVIOUS
<1>3. T \in SUBSET (1..k) /\ IsFiniteSet(1..k)
  BY <1>1, <1>2, FS_Interval
<1>4. IsFiniteSet(T)
  BY <1>3, FS_Subset
<1>5. \A n \in T : Fees[n] \in Int
  <2>1. \A n \in 1..k : granted[n].fee \in Nat
    BY <1>2, GrantTypes
  <2>2. \A n \in 1..k : Fees[n] = granted[n].fee
    BY <1>2 DEF Fees
  <2> QED BY <1>3, <2>1, <2>2
<1>6. SumFunctionOnSet(Fees, T) \in Int
  BY <1>4, <1>5, SumInt
<1>7. (\A n \in 1..Len(granted) : granted[n].at \div Day # day) => T = {}
  BY <1>1, <1>2
<1>8. Spent(day) = SumFunctionOnSet(Fees, T)
  BY <1>1 DEF Spent
<1> QED BY <1>6, <1>7, <1>8, SumEmpty

(* One more bump costs its day its fee, and no other day.                    *)
LEMMA SpentGrows ==
    ASSUME granted \in Seq(Grants), NEW x \in Grants, granted' = Append(granted, x), NEW day
    PROVE  Spent(day)' = IF x.at \div Day = day THEN Spent(day) + x.fee ELSE Spent(day)
<1>1. PICK k \in Nat : k = Len(granted) /\ DOMAIN granted = 1..k
  OBVIOUS
<1>2. PICK new : new = granted'
  OBVIOUS
<1>3. /\ new \in Seq(Grants) /\ Len(new) = k + 1 /\ DOMAIN new = 1..(k + 1) /\ new[k + 1] = x
      /\ \A n \in 1..k : new[n] = granted[n]
  BY <1>1, <1>2
<1>4. PICK T : T = {n \in DOMAIN granted : granted[n].at \div Day = day}
  OBVIOUS
<1>5. PICK U : U = {n \in DOMAIN new : new[n].at \div Day = day}
  OBVIOUS
<1>6. U = IF x.at \div Day = day THEN T \cup {k + 1} ELSE T
  <2>1. \A i : i \in 1..(k + 1) <=> i \in 1..k \/ i = k + 1
    OBVIOUS
  <2> QED BY <1>1, <1>3, <1>4, <1>5, <2>1
<1>7. T \in SUBSET (1..k) /\ IsFiniteSet(1..k) /\ k + 1 \notin T
  BY <1>1, <1>4, FS_Interval
<1>8. IsFiniteSet(T)
  BY <1>7, FS_Subset
<1>9. PICK f : f = [n \in DOMAIN new |-> new[n].fee]
  OBVIOUS
<1>10. /\ \A n \in T : Fees[n] \in Int /\ Fees[n] = f[n]
       /\ f[k + 1] = x.fee /\ x.fee \in Int
  <2>1. \A n \in 1..k : granted[n].fee \in Int
    BY <1>1, GrantTypes
  <2>2. \A n \in 1..k : Fees[n] = granted[n].fee /\ f[n] = granted[n].fee
    BY <1>1, <1>3, <1>9 DEF Fees
  <2>3. f[k + 1] = x.fee /\ x.fee \in Int
    BY <1>3, <1>9 DEF Grants
  <2> QED BY <1>7, <2>1, <2>2, <2>3
<1>11. SumFunctionOnSet(Fees, T) = SumFunctionOnSet(f, T)
  BY <1>8, <1>10, SumSame
<1>12. /\ SumFunctionOnSet(f, T \cup {k + 1}) = f[k + 1] + SumFunctionOnSet(f, T)
       /\ SumFunctionOnSet(f, T) \in Int
  <2>1. \A n \in T \cup {k + 1} : f[n] \in Int
    BY <1>10
  <2> QED BY <1>7, <1>8, <2>1, SumAdd
<1>13. Spent(day) = SumFunctionOnSet(Fees, T)
  BY <1>4 DEF Spent
<1>14. Spent(day)' = SumFunctionOnSet(f, U)
  BY <1>2, <1>5, <1>9 DEF Spent, Fees
<1> QED BY <1>6, <1>10, <1>11, <1>12, <1>13, <1>14

(* The largest fee there may be.                                             *)
LEMMA LargestIs ==
    ASSUME NEW f \in BaseFees, f <= MaxFee, NEW o \in OpCounts
    PROVE  TotalFee(f, o) \in Nat /\ TotalFee(f, o) <= Largest /\ Largest \in Nat
<1>1. MaxFee \in Nat /\ BaseFees \subseteq Nat /\ OpCounts \subseteq Nat /\ IsFiniteSet(OpCounts)
  BY SponsorshipAssumption
<1>2. PICK m \in Nat : \A p \in OpCounts : p <= m
  <2>1. OpCounts \in SUBSET Int /\ OpCounts # {}
    BY <1>1
  <2>2. Max(OpCounts) \in OpCounts /\ \A p \in OpCounts : p <= Max(OpCounts)
    BY <1>1, <2>1, MaxIs
  <2> QED BY <1>1, <2>2
<1>3. \A a, b, c, d \in Nat : a <= b /\ c <= d => a * (c + 1) \in Nat /\ a * (c + 1) <= b * (d + 1)
  <2> SUFFICES ASSUME NEW a \in Nat, NEW b \in Nat, NEW c \in Nat, NEW d \in Nat, a <= b, c <= d
               PROVE  a * (c + 1) \in Nat /\ a * (c + 1) <= b * (d + 1)
    OBVIOUS
  <2>1. a * (c + 1) <= a * (d + 1)
    OBVIOUS
  <2>2. a * (d + 1) <= b * (d + 1)
    OBVIOUS
  <2>3. a * (c + 1) \in Nat /\ a * (d + 1) \in Nat /\ b * (d + 1) \in Nat
    OBVIOUS
  <2> QED BY <2>1, <2>2, <2>3
<1>4. PICK top \in Nat : top = MaxFee * (m + 1)
  BY <1>1
<1> DEFINE F == {0} \cup {TotalFee(b, p) : b \in {x \in BaseFees : x <= MaxFee}, p \in OpCounts}
<1>6. F \in SUBSET (0..top)
  <2>1. \A b \in BaseFees, p \in OpCounts : b <= MaxFee => TotalFee(b, p) \in 0..top
    BY <1>1, <1>2, <1>3, <1>4 DEF TotalFee
  <2> QED BY <2>1
<1>5. TotalFee(f, o) \in F /\ Largest = Max(F) /\ 0 \in F
  BY DEF Largest
<1> HIDE DEF F
<1>7. IsFiniteSet(F) /\ F \in SUBSET Int /\ F # {}
  <2>1. IsFiniteSet(0..top)
    BY FS_Interval
  <2>2. IsFiniteSet(F)
    BY <1>6, <2>1, FS_Subset
  <2> QED BY <1>5, <1>6, <2>2
<1>8. Max(F) \in F /\ \A x \in F : x <= Max(F)
  BY <1>7, MaxIs
<1>9. PICK t, l : t = TotalFee(f, o) /\ l = Largest
  OBVIOUS
<1>10. t \in F /\ l \in F /\ t <= l
  BY <1>5, <1>8, <1>9
<1>11. t \in Nat /\ l \in Nat
  BY <1>6, <1>10
<1> QED BY <1>9, <1>10, <1>11

(* One more bump is one more of its user's from its time on.                 *)
LEMMA GrantsGrow ==
    ASSUME granted \in Seq(Grants), NEW x \in Grants, granted' = Append(granted, x),
           NEW v, NEW c \in Int, NEW d \in Int
    PROVE  /\ Cardinality(GrantsAbove(v, c)') =
                 IF x.user = v /\ x.at > c THEN Cardinality(GrantsAbove(v, c)) + 1
                                           ELSE Cardinality(GrantsAbove(v, c))
           /\ Cardinality(GrantedIn(v, c, d)') =
                 IF x.user = v /\ x.at > c /\ x.at <= d THEN Cardinality(GrantedIn(v, c, d)) + 1
                                                        ELSE Cardinality(GrantedIn(v, c, d))
<1>1. PICK k \in Nat : k = Len(granted) /\ DOMAIN granted = 1..k
  OBVIOUS
<1>2. PICK new : new = granted'
  OBVIOUS
<1>3. /\ Len(new) = k + 1 /\ DOMAIN new = 1..(k + 1) /\ new[k + 1] = x
      /\ \A n \in 1..k : new[n] = granted[n]
  BY <1>1, <1>2
<1>4. \A i : i \in 1..(k + 1) <=> i \in 1..k \/ i = k + 1
  OBVIOUS
<1>5. PICK A, B : A = GrantsAbove(v, c) /\ B = GrantedIn(v, c, d)
  OBVIOUS
<1>6. A \in SUBSET (1..k) /\ B \in SUBSET (1..k)
  BY <1>1, <1>5 DEF GrantsAbove, GrantedIn
<1>7. k + 1 \notin A /\ k + 1 \notin B
  BY <1>6
<1>8. IsFiniteSet(A) /\ IsFiniteSet(B)
  BY <1>5, GrantsFinite
<1>9. Cardinality(A \cup {k + 1}) = Cardinality(A) + 1 /\ Cardinality(B \cup {k + 1}) = Cardinality(B) + 1
  BY <1>7, <1>8, FS_AddElement
<1>10. GrantsAbove(v, c)' = IF x.user = v /\ x.at > c THEN A \cup {k + 1} ELSE A
  <2>1. GrantsAbove(v, c)' = {n \in 1..(k + 1) : new[n].user = v /\ new[n].at > c}
    BY <1>2, <1>3 DEF GrantsAbove
  <2>2. A = {n \in 1..k : granted[n].user = v /\ granted[n].at > c}
    BY <1>1, <1>5 DEF GrantsAbove
  <2> QED BY <1>3, <1>4, <2>1, <2>2
<1>11. GrantedIn(v, c, d)' = IF x.user = v /\ x.at > c /\ x.at <= d THEN B \cup {k + 1} ELSE B
  <2>1. GrantedIn(v, c, d)' = {n \in 1..(k + 1) : new[n].user = v /\ new[n].at > c /\ new[n].at <= d}
    BY <1>2, <1>3 DEF GrantedIn
  <2>2. B = {n \in 1..k : granted[n].user = v /\ granted[n].at > c /\ granted[n].at <= d}
    BY <1>1, <1>5 DEF GrantedIn
  <2> QED BY <1>3, <1>4, <2>1, <2>2
<1> QED BY <1>5, <1>9, <1>10, <1>11

(* The invariant at the start.                                               *)
LEMMA SponsorStarts == SponsorInit => SponsorInv
<1> SUFFICES ASSUME SponsorInit PROVE SponsorInv
  OBVIOUS
<1> USE DEF SponsorInit
<1>1. SponsorTyped
  <2>1. buckets \in [Users -> Seq(Nat)]
    <3>1. PICK e : e = <<>>
      OBVIOUS
    <3>2. e \in Seq(Nat)
      BY <3>1
    <3> QED BY <3>1, <3>2
  <2>2. granted \in Seq(Grants) /\ Len(granted) = 0
    OBVIOUS
  <2> QED BY <2>1, <2>2 DEF SponsorTyped
<1>2. \A u, c : GrantsAbove(u, c) = {}
  BY DEF GrantsAbove
<1>3. \A u, c, d : GrantedIn(u, c, d) = {}
  BY DEF GrantedIn
<1>4. Cardinality({}) = 0
  BY FS_EmptySet
<1>5. BucketsCount
  <2>1. \A u \in Users, d \in Int : Above(buckets[u], d) = {}
    BY DEF Above
  <2> QED BY <1>2, <2>1 DEF BucketsCount
<1>6. WindowsHeld
  <2>1. \A u \in Users, to \in 0..tick : Cardinality(GrantedIn(u, to - RateWindow, to)) = 0
    BY <1>3, <1>4
  <2>2. 0 <= MaxBumps
    BY SponsorshipAssumption
  <2> QED BY <2>1, <2>2 DEF WindowsHeld
<1>7. Today \in Nat
  BY DaysPass DEF Today
<1>8. FloatBounded
  <2>1. \A day : Spent(day) = 0
    BY <1>1, SpentInt DEF SponsorTyped
  <2>2. SpentToday = 0
    BY DEF SpentToday
  <2> QED BY <2>1, <2>2 DEF FloatBounded
<1> QED BY <1>1, <1>5, <1>6, <1>7, <1>8 DEF SponsorInv

(* Time passes: the window leaves grants behind, and a new day starts with   *)
(* nothing spent.                                                            *)
LEMMA ClockTickKeeps == SponsorInv /\ ClockTick => SponsorInv'
<1> SUFFICES ASSUME SponsorInv, ClockTick PROVE SponsorInv'
  OBVIOUS
<1>1. /\ tick \in Nat /\ tick' = tick + 1 /\ tick' \in Nat
      /\ buckets' = buckets /\ daily' = daily /\ granted' = granted
      /\ granted \in Seq(Grants) /\ \A n \in 1..Len(granted) : granted[n].at <= tick
  BY DEF SponsorInv, SponsorTyped, ClockTick
<1>2. \A n \in 1..Len(granted) : granted[n].at \in Nat
  BY <1>1, GrantTypes
<1>3. RateWindow \in Nat /\ MaxBumps \in Nat
  BY SponsorshipAssumption
<1>4. SponsorTyped'
  <2>1. \A n \in 1..Len(granted) : granted[n].at <= tick + 1
    BY <1>1, <1>2
  <2> QED BY <1>1, <2>1 DEF SponsorTyped, SponsorInv
<1>5. BucketsCount'
  <2>1. \A u \in Users, d \in Int : d >= tick + 1 - RateWindow =>
           Cardinality(Above(buckets[u], d)) = Cardinality(GrantsAbove(u, d))
    BY <1>1, <1>3 DEF SponsorInv, BucketsCount
  <2>2. \A u, d : GrantsAbove(u, d)' = GrantsAbove(u, d)
    BY <1>1 DEF GrantsAbove
  <2>3. \A u, d : Above(buckets[u], d)' = Above(buckets[u], d)
    BY <1>1 DEF Above
  <2>4. ASSUME NEW u \in Users, NEW d \in Int, d >= tick' - RateWindow
        PROVE  Cardinality(Above(buckets[u], d)') = Cardinality(GrantsAbove(u, d)')
    <3>1. d >= tick + 1 - RateWindow
      BY <1>1, <1>3, <2>4
    <3> QED BY <2>1, <2>2, <2>3, <3>1
  <2> QED BY <2>4 DEF BucketsCount
<1>6. ASSUME NEW u \in Users, NEW to \in 0..(tick + 1)
      PROVE  Cardinality(GrantedIn(u, to - RateWindow, to)) <= MaxBumps
  <2>1. CASE to \in 0..tick
    BY <2>1 DEF SponsorInv, WindowsHeld
  <2>2. CASE to = tick + 1
    <3>1. GrantedIn(u, to - RateWindow, to) \subseteq GrantedIn(u, tick - RateWindow, tick)
      <4>1. DOMAIN granted = 1..Len(granted)
        BY <1>1
      <4> QED BY <1>1, <1>2, <1>3, <2>2, <4>1 DEF GrantedIn
    <3>2. PICK a, b : /\ a = Cardinality(GrantedIn(u, to - RateWindow, to))
                      /\ b = Cardinality(GrantedIn(u, tick - RateWindow, tick))
      OBVIOUS
    <3>3. a \in Nat /\ b \in Nat /\ IsFiniteSet(GrantedIn(u, tick - RateWindow, tick))
      BY <1>1, <3>2, GrantsFinite
    <3>4. a <= b
      BY <3>1, <3>2, <3>3, FS_Subset
    <3>5. b <= MaxBumps
      BY <1>1, <3>2 DEF SponsorInv, WindowsHeld
    <3> QED BY <1>3, <3>2, <3>3, <3>4, <3>5
  <2> QED BY <1>1, <2>1, <2>2
<1>7. WindowsHeld'
  BY <1>1, <1>6 DEF WindowsHeld, GrantedIn
<1>8. PICK now, next \in Nat : now = Today /\ next = Today' /\ now <= next
  <2>1. Today = tick \div Day /\ Today' = (tick + 1) \div Day
    BY <1>1 DEF Today
  <2>2. tick + 1 \in Nat /\ tick <= tick + 1
    BY <1>1
  <2> QED BY <1>1, <2>1, <2>2, DaysPass
<1>9. \A day : Spent(day)' = Spent(day)
  BY <1>1 DEF Spent, Fees
<1>10. ASSUME NEW day \in Nat, day > now PROVE Spent(day) = 0
  <2>1. \A n \in 1..Len(granted) : granted[n].at \div Day <= now /\ granted[n].at \div Day \in Nat
    BY <1>1, <1>2, <1>8, DaysPass DEF Today
  <2>2. \A n \in 1..Len(granted) : granted[n].at \div Day # day
    BY <1>10, <2>1
  <2> QED BY <1>1, <2>2, SpentInt
<1>11. daily.date \in Int /\ daily.date <= now
  BY <1>8 DEF SponsorInv, SponsorTyped
<1>12. FloatBounded'
  <2>1. ASSUME NEW day \in 0..next PROVE Spent(day) < Ceiling + Largest \/ Spent(day) = 0
    <3>1. CASE day \in 0..now
      BY <1>8, <3>1 DEF SponsorInv, FloatBounded
    <3>2. CASE day > now
      BY <1>8, <1>10, <3>2
    <3> QED BY <1>8, <3>1, <3>2
  <2>2. SpentToday' = IF daily.date = next THEN daily.stroops ELSE 0
    BY <1>1, <1>8 DEF SpentToday
  <2>3. SpentToday = IF daily.date = now THEN daily.stroops ELSE 0
    BY <1>8 DEF SpentToday
  <2>4. SpentToday = Spent(now)
    BY <1>8 DEF SponsorInv, FloatBounded
  <2>5. SpentToday' = Spent(next)
    <3>1. CASE next = now
      BY <2>2, <2>3, <2>4, <3>1
    <3>2. CASE next > now
      BY <1>8, <1>10, <1>11, <2>2, <3>2
    <3> QED BY <1>8, <3>1, <3>2
  <2>6. SpentToday' = Spent(Today)'
    BY <1>1, <1>8, <2>5 DEF Spent, Fees
  <2>7. \A day \in 0..Today' : (Spent(day) < Ceiling + Largest \/ Spent(day) = 0)'
    BY <1>8, <1>9, <2>1 DEF Largest, TotalFee
  <2> QED BY <2>6, <2>7 DEF FloatBounded
<1>13. (daily.date <= Today)'
  BY <1>1, <1>8, <1>11
<1> QED BY <1>4, <1>5, <1>7, <1>12, <1>13 DEF SponsorInv

(* A bump: its user had room in the last window, and its day some of the     *)
(* ceiling left.                                                             *)
LEMMA BumpKeeps ==
    ASSUME SponsorInv, NEW u \in Users, NEW baseFee \in BaseFees, NEW operations \in OpCounts,
           Bump(u, baseFee, operations)
    PROVE  SponsorInv'
<1>1. /\ tick \in Nat /\ tick' = tick /\ granted \in Seq(Grants) /\ daily \in [date: Int, stroops: Nat]
      /\ buckets \in [Users -> Seq(Nat)]
      /\ \A n \in 1..Len(granted) : granted[n].at <= tick
  BY DEF SponsorInv, SponsorTyped, Bump
<1>2. RateWindow \in Nat /\ MaxBumps \in Nat /\ Ceiling \in Nat
  BY SponsorshipAssumption
<1>3. PICK fee : fee = TotalFee(baseFee, operations)
  OBVIOUS
<1>4. fee \in Nat /\ fee <= Largest /\ Largest \in Nat
  BY <1>3, LargestIs DEF Bump, Permitted
<1>5. PICK x : x = [user |-> u, at |-> tick, fee |-> fee]
  OBVIOUS
<1>6. x \in Grants /\ x.user = u /\ x.at = tick /\ x.fee = fee
  BY <1>1, <1>4, <1>5 DEF Grants
<1>7. granted' = Append(granted, x)
  BY <1>3, <1>5 DEF Bump
<1>8. PICK r : r = Recent(u)
  OBVIOUS
<1>9. /\ r \in Seq(Nat) /\ Len(r) < MaxBumps
      /\ Len(r) = Cardinality(GrantedIn(u, tick - RateWindow, tick))
      /\ \A d \in Int : d >= tick - RateWindow => Cardinality(Above(r, d)) = Cardinality(GrantsAbove(u, d))
  BY <1>8, RecentCounts DEF Bump, Permitted
<1>10. PICK s \in Seq(Nat) : s = Append(r, tick)
  <2>1. r \in Seq(Nat) /\ tick \in Nat
    BY <1>1, <1>9
  <2>2. Append(r, tick) \in Seq(Nat)
    BY <2>1
  <2> QED BY <2>2
<1>11. buckets' = [buckets EXCEPT ![u] = s]
  BY <1>8, <1>10 DEF Bump
<1>12. PICK now \in Nat : now = Today /\ Today' = now
  BY <1>1, DaysPass DEF Today
<1>13. PICK paid : paid = SpentToday
  OBVIOUS
<1>14. paid \in Nat /\ paid < Ceiling /\ paid = Spent(now)
  BY <1>1, <1>12, <1>13 DEF SpentToday, Bump, Permitted, SponsorInv, FloatBounded
<1>15. daily' = [date |-> now, stroops |-> paid + fee]
  BY <1>3, <1>12, <1>13 DEF Bump
<1>16. SponsorTyped'
  <2>1. buckets' \in [Users -> Seq(Nat)]
    BY <1>1, <1>10, <1>11
  <2>2. daily' \in [date: Int, stroops: Nat]
    BY <1>4, <1>12, <1>14, <1>15
  <2>3. /\ granted' \in Seq(Grants) /\ Len(granted') = Len(granted) + 1
        /\ granted'[Len(granted) + 1] = x /\ \A n \in 1..Len(granted) : granted'[n] = granted[n]
    BY <1>1, <1>6, <1>7
  <2>4. \A n \in 1..Len(granted') : granted'[n].at <= tick
    <3>1. PICK k \in Nat : k = Len(granted)
      BY <1>1
    <3>2. \A n \in 1..(k + 1) : n \in 1..k \/ n = k + 1
      OBVIOUS
    <3>3. \A n \in 1..(k + 1) : granted'[n].at <= tick
      <4> SUFFICES ASSUME NEW n \in 1..(k + 1) PROVE granted'[n].at <= tick
        OBVIOUS
      <4>1. CASE n \in 1..k
        <5>1. granted'[n] = granted[n] /\ granted[n].at <= tick
          BY <1>1, <2>3, <3>1, <4>1
        <5> QED BY <5>1
      <4>2. CASE n = k + 1
        <5>1. granted'[n] = x
          BY <2>3, <3>1, <4>2
        <5> QED BY <1>1, <1>6, <5>1
      <4> QED BY <3>2, <4>1, <4>2
    <3> QED BY <2>3, <3>1, <3>3
  <2> QED BY <1>1, <2>1, <2>2, <2>3, <2>4 DEF SponsorTyped
<1>17. BucketsCount'
  <2>1. ASSUME NEW v \in Users, NEW d \in Int, d >= tick - RateWindow
        PROVE  Cardinality(Above(buckets'[v], d)) = Cardinality(GrantsAbove(v, d)')
    <3>1. Cardinality(GrantsAbove(v, d)') = IF u = v /\ tick > d THEN Cardinality(GrantsAbove(v, d)) + 1
                                                                 ELSE Cardinality(GrantsAbove(v, d))
      BY <1>1, <1>6, <1>7, GrantsGrow
    <3>2. CASE v = u
      <4>1. buckets'[v] = s
        BY <1>1, <1>11, <3>2
      <4>2. Cardinality(Above(s, d)) = IF tick > d THEN Cardinality(Above(r, d)) + 1
                                                   ELSE Cardinality(Above(r, d))
        BY <1>1, <1>9, <1>10, AboveAppend
      <4>3. Cardinality(Above(r, d)) = Cardinality(GrantsAbove(u, d))
        BY <1>9, <2>1
      <4> QED BY <3>1, <3>2, <4>1, <4>2, <4>3
    <3>3. CASE v # u
      <4>1. buckets'[v] = buckets[v]
        BY <1>1, <1>11, <3>3
      <4>2. Cardinality(Above(buckets[v], d)) = Cardinality(GrantsAbove(v, d))
        BY <2>1 DEF SponsorInv, BucketsCount
      <4> QED BY <3>1, <3>3, <4>1, <4>2
    <3> QED BY <3>2, <3>3
  <2> QED BY <1>1, <2>1 DEF BucketsCount
<1>18. WindowsHeld'
  <2>1. ASSUME NEW v \in Users, NEW to \in 0..tick
        PROVE  Cardinality(GrantedIn(v, to - RateWindow, to)') <= MaxBumps
    <3>1. PICK c \in Int : c = to - RateWindow
      BY <1>2
    <3>2. PICK a \in Nat : a = Cardinality(GrantedIn(v, c, to))
      BY <1>1, GrantsFinite
    <3>3. a <= MaxBumps
      BY <3>1, <3>2 DEF SponsorInv, WindowsHeld
    <3>4. Cardinality(GrantedIn(v, c, to)') = IF u = v /\ tick > c /\ tick <= to THEN a + 1 ELSE a
      BY <1>1, <1>6, <1>7, <3>2, GrantsGrow
    <3>5. CASE u = v /\ to = tick
      <4>1. a = Len(r)
        BY <1>9, <3>1, <3>2, <3>5
      <4>2. a + 1 <= MaxBumps
        BY <1>2, <1>9, <4>1
      <4> QED BY <3>1, <3>3, <3>4, <4>2
    <3>6. CASE ~(u = v /\ to = tick)
      BY <1>1, <3>1, <3>3, <3>4, <3>6
    <3> QED BY <3>5, <3>6
  <2> QED BY <1>1, <2>1 DEF WindowsHeld
<1>19. \A day : Spent(day)' = IF now = day THEN Spent(day) + fee ELSE Spent(day)
  <2>1. x.at \div Day = now
    BY <1>6, <1>12 DEF Today
  <2> QED BY <1>1, <1>6, <1>7, <2>1, SpentGrows
<1>20. FloatBounded'
  <2>1. Largest' = Largest
    BY DEF Largest, TotalFee
  <2>2. SpentToday' = paid + fee
    BY <1>12, <1>15 DEF SpentToday
  <2>3. Spent(now)' = paid + fee
    BY <1>14, <1>19
  <2>4. paid + fee < Ceiling + Largest
    BY <1>2, <1>4, <1>14
  <2>5. ASSUME NEW day \in 0..now
        PROVE  (Spent(day) < Ceiling + Largest \/ Spent(day) = 0)'
    <3>1. CASE day = now
      BY <2>1, <2>3, <2>4, <3>1
    <3>2. CASE day # now
      <4>1. Spent(day)' = Spent(day)
        BY <1>19, <3>2
      <4>2. Spent(day) < Ceiling + Largest \/ Spent(day) = 0
        BY <1>12 DEF SponsorInv, FloatBounded
      <4> QED BY <2>1, <4>1, <4>2
    <3> QED BY <3>1, <3>2
  <2>6. SpentToday' = Spent(Today)'
    <3>1. Spent(Today)' = Spent(now)'
      BY <1>12 DEF Spent
    <3> QED BY <2>2, <2>3, <3>1
  <2> QED BY <1>12, <2>5, <2>6 DEF FloatBounded
<1>21. (daily.date <= Today)'
  BY <1>12, <1>15
<1> QED BY <1>16, <1>17, <1>18, <1>20, <1>21 DEF SponsorInv

(* Paymaster.feeBump, sponsorshipPolicy: in no window, wherever it starts,   *)
(* is a user granted more bumps than configured, and a bucket counts what    *)
(* was granted in the last one; a day costs less than the ceiling and one    *)
(* bump, and what is counted as paid is what it cost.                       *)
THEOREM SponsorshipIsBounded == SponsorSpec => []SponsorshipBounded
<1>1. SponsorInit => SponsorInv
  BY SponsorStarts
<1>2. SponsorInv /\ [SponsorNext]_sponsorVars => SponsorInv'
  <2> SUFFICES ASSUME SponsorInv, [SponsorNext]_sponsorVars PROVE SponsorInv'
    OBVIOUS
  <2>1. CASE ClockTick
    BY <2>1, ClockTickKeeps
  <2>2. ASSUME NEW u \in Users, NEW baseFee \in BaseFees, NEW operations \in OpCounts,
               Bump(u, baseFee, operations)
        PROVE  SponsorInv'
    BY <2>2, BumpKeeps
  <2>3. CASE UNCHANGED sponsorVars
    <3>1. tick' = tick /\ buckets' = buckets /\ daily' = daily /\ granted' = granted
      BY <2>3 DEF sponsorVars
    <3>2. \A u, d : GrantsAbove(u, d)' = GrantsAbove(u, d)
      BY <3>1 DEF GrantsAbove
    <3>3. \A u, d : Above(buckets[u], d)' = Above(buckets[u], d)
      BY <3>1 DEF Above
    <3>4. \A u, c, d : GrantedIn(u, c, d)' = GrantedIn(u, c, d)
      BY <3>1 DEF GrantedIn
    <3>5. \A day : Spent(day)' = Spent(day)
      BY <3>1 DEF Spent, Fees
    <3>6. Spent(Today)' = Spent(Today) /\ Today' = Today
      BY <3>1 DEF Spent, Fees, Today
    <3>7. SpentToday' = SpentToday
      BY <3>1, <3>6 DEF SpentToday
    <3>8. Largest' = Largest
      BY DEF Largest, TotalFee
    <3>9. SponsorTyped'
      BY <3>1 DEF SponsorInv, SponsorTyped
    <3>10. BucketsCount'
      BY <3>1, <3>2, <3>3 DEF SponsorInv, BucketsCount
    <3>11. WindowsHeld'
      BY <3>1, <3>4 DEF SponsorInv, WindowsHeld
    <3>12. FloatBounded'
      BY <3>5, <3>6, <3>7, <3>8 DEF SponsorInv, FloatBounded
    <3> QED BY <3>1, <3>6, <3>9, <3>10, <3>11, <3>12 DEF SponsorInv
  <2> QED BY <2>1, <2>2, <2>3 DEF SponsorNext
<1>3. SponsorInv => SponsorshipBounded
  <2> SUFFICES ASSUME SponsorInv PROVE SponsorshipBounded
    OBVIOUS
  <2>1. RateLimited
    BY RecentCounts DEF SponsorInv, WindowsHeld, RateLimited
  <2> QED BY <2>1 DEF SponsorInv, SponsorshipBounded
<1> QED BY <1>1, <1>2, <1>3, PTL DEF SponsorSpec

-----------------------------------------------------------------------------
(***************************************************************************)
(* Costs                                                                    *)
(***************************************************************************)
(* A sum over a set and some more, whose values are zero.                    *)
LEMMA SumZeros ==
    ASSUME NEW S, NEW T, IsFiniteSet(T), S \subseteq T, NEW f,
           \A x \in T : f[x] \in Int, \A x \in T \ S : f[x] = 0
    PROVE  SumFunctionOnSet(f, T) = SumFunctionOnSet(f, S)
<1> DEFINE R == T \ S
           Bad == {s \in SUBSET R : SumFunctionOnSet(f, S \cup s) # SumFunctionOnSet(f, S)}
<1>1. IsFiniteSet(R) /\ IsFiniteSet(S)
  BY FS_Subset
<1>2. Bad = {}
  <2> SUFFICES ASSUME Bad # {} PROVE FALSE
    OBVIOUS
  <2>1. Bad \in SUBSET SUBSET R
    OBVIOUS
  <2>2. PICK s \in Bad : \A x \in s : \A t \in SUBSET (s \ {x}) : t \notin Bad
    <3> HIDE DEF Bad, R
    <3> QED BY <1>1, <2>1, SmallestSet
  <2>3. s # {}
    <3>1. S \cup {} = S
      OBVIOUS
    <3> QED BY <3>1
  <2>4. PICK x \in s : TRUE
    BY <2>3
  <2>5. PICK t : t = S \cup (s \ {x})
    OBVIOUS
  <2>6. t \in SUBSET T /\ x \notin t /\ S \cup s = t \cup {x} /\ f[x] = 0
    BY <2>5
  <2>7. IsFiniteSet(t)
    BY <2>6, FS_Subset
  <2>8. \A y \in t \cup {x} : f[y] \in Int
    BY <2>6
  <2>9. SumFunctionOnSet(f, t \cup {x}) = f[x] + SumFunctionOnSet(f, t) /\ SumFunctionOnSet(f, t) \in Int
    BY <2>6, <2>7, <2>8, SumAdd
  <2>10. s \ {x} \in SUBSET R /\ s \ {x} \notin Bad
    BY <2>2
  <2>11. SumFunctionOnSet(f, t) = SumFunctionOnSet(f, S)
    BY <2>5, <2>10
  <2>12. SumFunctionOnSet(f, S \cup s) # SumFunctionOnSet(f, S)
    BY <2>2
  <2>13. PICK U : U = S \cup s
    OBVIOUS
  <2>14. U = t \cup {x}
    BY <2>6, <2>13
  <2>15. SumFunctionOnSet(f, U) = f[x] + SumFunctionOnSet(f, t)
    BY <2>9, <2>14
  <2>16. SumFunctionOnSet(f, U) = SumFunctionOnSet(f, S)
    BY <2>6, <2>9, <2>11, <2>15
  <2> QED BY <2>12, <2>13, <2>16
<1>3. S \cup R = T /\ R \in SUBSET R
  OBVIOUS
<1>4. R \notin Bad
  BY <1>2
<1>5. SumFunctionOnSet(f, S \cup R) = SumFunctionOnSet(f, S)
  BY <1>3, <1>4
<1> QED BY <1>3, <1>5

(* One value changes by as much as the sum.                                  *)
LEMMA SumUpdate ==
    ASSUME NEW T, IsFiniteSet(T), NEW f, NEW h, NEW x \in T,
           \A y \in T : f[y] \in Int /\ h[y] \in Int, \A y \in T \ {x} : f[y] = h[y]
    PROVE  SumFunctionOnSet(h, T) = SumFunctionOnSet(f, T) + (h[x] - f[x])
<1>1. PICK S : S = T \ {x}
  OBVIOUS
<1>2. IsFiniteSet(S) /\ x \notin S /\ S \cup {x} = T
  BY <1>1, FS_RemoveElement
<1>3. SumFunctionOnSet(f, S) = SumFunctionOnSet(h, S)
  BY <1>1, <1>2, SumSame
<1>4. /\ SumFunctionOnSet(f, S \cup {x}) = f[x] + SumFunctionOnSet(f, S)
      /\ SumFunctionOnSet(f, S) \in Int
  BY <1>2, SumAdd
<1>5. SumFunctionOnSet(h, S \cup {x}) = h[x] + SumFunctionOnSet(h, S)
  BY <1>2, SumAdd
<1>6. f[x] \in Int /\ h[x] \in Int
  OBVIOUS
<1>7. PICK a \in Int : a = SumFunctionOnSet(f, S)
  BY <1>4
<1>8. SumFunctionOnSet(f, T) = f[x] + a /\ SumFunctionOnSet(h, T) = h[x] + a
  BY <1>2, <1>3, <1>4, <1>5, <1>7
<1> QED BY <1>6, <1>7, <1>8

(* Some values grow by q: so does the sum, once for each.                    *)
LEMMA SumShared ==
    ASSUME NEW T, IsFiniteSet(T), NEW ids \in SUBSET T, NEW q \in Int, NEW f, NEW h,
           \A y \in T : f[y] \in Int,
           \A y \in T : h[y] = IF y \in ids THEN f[y] + q ELSE f[y]
    PROVE  SumFunctionOnSet(h, T) = SumFunctionOnSet(f, T) + Cardinality(ids) * q
<1> DEFINE Grown(s) == [y \in T |-> IF y \in s THEN f[y] + q ELSE f[y]]
           Bad == {s \in SUBSET ids : SumFunctionOnSet(Grown(s), T)
                                        # SumFunctionOnSet(f, T) + Cardinality(s) * q}
<1>0. PICK F \in Int : F = SumFunctionOnSet(f, T)
  BY SumInt
<1>1. IsFiniteSet(ids)
  BY FS_Subset
<1>2. Bad = {}
  <2> SUFFICES ASSUME Bad # {} PROVE FALSE
    OBVIOUS
  <2>1. Bad \in SUBSET SUBSET ids
    OBVIOUS
  <2>2. PICK s \in Bad : \A x \in s : \A t \in SUBSET (s \ {x}) : t \notin Bad
    <3> HIDE DEF Bad
    <3> QED BY <1>1, <2>1, SmallestSet
  <2>3. s # {}
    <3>1. SumFunctionOnSet(Grown({}), T) = F
      <4>1. \A y \in T : Grown({})[y] \in Int /\ Grown({})[y] = f[y]
        OBVIOUS
      <4> HIDE DEF Grown
      <4> QED BY <1>0, <4>1, SumSame
    <3>2. Cardinality({}) * q = 0
      BY FS_EmptySet
    <3>3. {} \notin Bad
      BY <1>0, <3>1, <3>2
    <3> QED BY <3>3
  <2>4. PICK x \in s : TRUE
    BY <2>3
  <2>5. PICK t : t = s \ {x}
    OBVIOUS
  <2>6. /\ \A y \in T : Grown(t)[y] \in Int /\ Grown(s)[y] \in Int
        /\ \A y \in T \ {x} : Grown(t)[y] = Grown(s)[y]
        /\ Grown(s)[x] = f[x] + q /\ Grown(t)[x] = f[x] /\ f[x] \in Int /\ x \in T
    BY <2>5
  <2>7. PICK a, b : a = SumFunctionOnSet(Grown(t), T) /\ b = SumFunctionOnSet(Grown(s), T)
    OBVIOUS
  <2>8. b = a + (Grown(s)[x] - Grown(t)[x])
    <3>1. PICK g, k : g = Grown(t) /\ k = Grown(s)
      OBVIOUS
    <3> HIDE DEF Grown
    <3>2. /\ \A y \in T : g[y] \in Int /\ k[y] \in Int
          /\ \A y \in T \ {x} : g[y] = k[y]
          /\ x \in T
      BY <2>6, <3>1
    <3>3. SumFunctionOnSet(k, T) = SumFunctionOnSet(g, T) + (k[x] - g[x])
      BY <3>2, SumUpdate
    <3> QED BY <2>7, <3>1, <3>3
  <2>9. PICK n \in Nat : n = Cardinality(t)
    BY <1>1, <2>5, FS_Subset, FS_CardinalityType
  <2>10. Cardinality(s) = n + 1
    <3>1. IsFiniteSet(t) /\ x \notin t /\ s = t \cup {x}
      BY <1>1, <2>5, FS_Subset
    <3> QED BY <2>9, <3>1, FS_AddElement
  <2>11. a = F + n * q
    <3>1. t \in SUBSET ids /\ t \notin Bad
      BY <2>2, <2>5
    <3> QED BY <1>0, <2>7, <2>9, <3>1
  <2>12. b # F + (n + 1) * q
    BY <1>0, <2>2, <2>7, <2>10
  <2>13. b = a + q
    BY <2>6, <2>8
  <2>14. (n + 1) * q = n * q + q /\ n * q \in Int
    OBVIOUS
  <2> QED BY <1>0, <2>11, <2>12, <2>13, <2>14
<1>3. SumFunctionOnSet(Grown(ids), T) = SumFunctionOnSet(f, T) + Cardinality(ids) * q
  BY <1>2
<1>4. SumFunctionOnSet(Grown(ids), T) = SumFunctionOnSet(h, T)
  <2>1. \A y \in T : Grown(ids)[y] \in Int /\ Grown(ids)[y] = h[y]
    OBVIOUS
  <2> HIDE DEF Grown
  <2> QED BY <2>1, SumSame
<1> QED BY <1>3, <1>4

(* The sum over what a set is mapped to, one to one.                         *)
LEMMA SumImage ==
    ASSUME NEW S, IsFiniteSet(S), NEW rec, NEW f, NEW h,
           \A x \in S : f[rec[x]] \in Int /\ f[rec[x]] = h[x],
           \A x, y \in S : rec[x] = rec[y] => x = y
    PROVE  /\ IsFiniteSet({rec[x] : x \in S})
           /\ SumFunctionOnSet(f, {rec[x] : x \in S}) = SumFunctionOnSet(h, S)
<1> DEFINE Img(s) == {rec[x] : x \in s}
           Bad == {s \in SUBSET S : ~(/\ IsFiniteSet(Img(s))
                                      /\ SumFunctionOnSet(f, Img(s)) = SumFunctionOnSet(h, s))}
<1>1. Bad = {}
  <2> SUFFICES ASSUME Bad # {} PROVE FALSE
    OBVIOUS
  <2>1. Bad \in SUBSET SUBSET S
    OBVIOUS
  <2>2. PICK s \in Bad : \A x \in s : \A t \in SUBSET (s \ {x}) : t \notin Bad
    <3> HIDE DEF Bad
    <3> QED BY <2>1, SmallestSet
  <2>3. s # {}
    <3>1. Img({}) = {}
      OBVIOUS
    <3>2. IsFiniteSet({}) /\ SumFunctionOnSet(f, {}) = 0 /\ SumFunctionOnSet(h, {}) = 0
      BY FS_EmptySet, SumEmpty
    <3> QED BY <3>1, <3>2
  <2>4. PICK x \in s : TRUE
    BY <2>3
  <2>5. PICK t : t = s \ {x}
    OBVIOUS
  <2>6. PICK A : A = Img(t)
    OBVIOUS
  <2>7. Img(s) = A \cup {rec[x]} /\ rec[x] \notin A /\ s = t \cup {x} /\ x \notin t /\ t \in SUBSET S
    <3>1. t \in SUBSET S /\ s \in SUBSET S /\ s = t \cup {x} /\ x \notin t
      BY <2>5
    <3>2. Img(s) = A \cup {rec[x]}
      BY <2>6, <3>1
    <3>3. rec[x] \notin A
      BY <2>6, <3>1
    <3> QED BY <3>1, <3>2, <3>3
  <2>8. IsFiniteSet(A) /\ SumFunctionOnSet(f, A) = SumFunctionOnSet(h, t)
    <3>1. t \notin Bad
      BY <2>2, <2>5
    <3> QED BY <2>6, <2>7, <3>1
  <2>9. IsFiniteSet(A \cup {rec[x]})
    BY <2>8, FS_AddElement
  <2>10. \A y \in A \cup {rec[x]} : f[y] \in Int
    BY <2>6, <2>7
  <2>11. SumFunctionOnSet(f, A \cup {rec[x]}) = f[rec[x]] + SumFunctionOnSet(f, A)
    BY <2>7, <2>8, <2>10, SumAdd
  <2>12. IsFiniteSet(t) /\ \A y \in t \cup {x} : h[y] \in Int
    BY <2>7, FS_Subset
  <2>13. SumFunctionOnSet(h, t \cup {x}) = h[x] + SumFunctionOnSet(h, t)
    BY <2>7, <2>12, SumAdd
  <2>14. f[rec[x]] = h[x]
    BY <2>7
  <2>15. SumFunctionOnSet(f, Img(s)) = SumFunctionOnSet(h, s) /\ IsFiniteSet(Img(s))
    <3> HIDE DEF Img
    <3> QED BY <2>7, <2>8, <2>9, <2>11, <2>13, <2>14
  <2> QED BY <2>2, <2>15
<1> QED BY <1>1

(* The kinds of arrivals, the costs of a subscription in the open window and *)
(* the records of sealed ones.                                               *)
ArrivalKinds == {"shared-condition", "new-condition"}
Costs == [att: Int, alone: Int]
SealedRecords == [sub: Metered, start: Nat, end: Nat, att: Int, alone: Int]

(* The shapes of the state; a sealed window started before the open one.     *)
MeterTyped ==
    /\ openStart \in Nat /\ pendingKinds \in SUBSET ArrivalKinds /\ kindsPerWindow \in Seq(SUBSET ArrivalKinds)
    /\ DOMAIN open \in SUBSET Metered /\ DOMAIN conditions \in SUBSET Metered
    /\ \A s \in DOMAIN open : open[s] \in Costs
    /\ IsFiniteSet(sealed) /\ sealed \in SUBSET SealedRecords
    /\ \A w \in sealed : w.start < openStart
    /\ alone \in [Metered -> Int]

(* How many of the windows that started at S did so before w.                *)
Rank(S, w) == Cardinality({v \in S : v < w})

(* arrivalsPerWindow holds the kinds of the closed windows one by one.       *)
WindowsOrdered ==
    /\ IsFiniteSet(DOMAIN came) /\ DOMAIN came \in SUBSET Nat
    /\ \A w \in DOMAIN came : w < openStart
    /\ Cardinality(DOMAIN came) = Len(kindsPerWindow)
    /\ \A w \in DOMAIN came : came[w] = kindsPerWindow[Rank(DOMAIN came, w) + 1]
    /\ \A i \in 1..Len(kindsPerWindow) : \E w \in DOMAIN came : Rank(DOMAIN came, w) = i - 1
    /\ SealedStarts \in SUBSET DOMAIN came

(* What holds of the meter after every step.                                 *)
MeterInv == MeterTyped /\ WindowsOrdered /\ CostsAllAttributed /\ StandaloneIsAlone

(* The costs of the open window.                                             *)
OpenCosts == [s \in DOMAIN open |-> open[s].att]

(* The sums the properties are about are over finite sets of integers.       *)
LEMMA MeterSums ==
    ASSUME MeterTyped
    PROVE  /\ IsFiniteSet(DOMAIN open) /\ \A s \in DOMAIN open : OpenCosts[s] \in Int
           /\ SumFunctionOnSet(OpenCosts, DOMAIN open) \in Int
           /\ \A start : TotalForWindow(start) \in Int
           /\ \A s : SumFunctionOnSet([w \in sealed |-> w.alone], {w \in sealed : w.sub = s}) \in Int
<1>1. IsFiniteSet(DOMAIN open)
  BY SpendAssumption, FS_Subset DEF MeterTyped
<1>2. \A s \in DOMAIN open : OpenCosts[s] \in Int
  BY DEF MeterTyped, OpenCosts, Costs
<1>3. SumFunctionOnSet(OpenCosts, DOMAIN open) \in Int
  BY <1>1, <1>2, SumInt
<1>4. \A w \in sealed : w.att \in Int /\ w.alone \in Int
  BY DEF MeterTyped, SealedRecords
<1>5. ASSUME NEW start PROVE TotalForWindow(start) \in Int
  <2>1. PICK W : W = {w \in sealed : w.start = start}
    OBVIOUS
  <2> DEFINE f == [w \in sealed |-> w.att]
  <2>2. IsFiniteSet(W)
    BY <2>1, FS_Subset DEF MeterTyped
  <2>3. \A w \in W : f[w] \in Int
    BY <1>4, <2>1
  <2>4. SumFunctionOnSet(f, W) \in Int
    <3> HIDE DEF f
    <3> QED BY <2>2, <2>3, SumInt
  <2> QED BY <2>1, <2>4 DEF TotalForWindow
<1>6. ASSUME NEW s PROVE SumFunctionOnSet([w \in sealed |-> w.alone], {w \in sealed : w.sub = s}) \in Int
  <2>1. PICK W : W = {w \in sealed : w.sub = s}
    OBVIOUS
  <2> DEFINE f == [w \in sealed |-> w.alone]
  <2>2. IsFiniteSet(W)
    BY <2>1, FS_Subset DEF MeterTyped
  <2>3. \A w \in W : f[w] \in Int
    BY <1>4, <2>1
  <2>4. SumFunctionOnSet(f, W) \in Int
    <3> HIDE DEF f
    <3> QED BY <2>2, <2>3, SumInt
  <2> QED BY <2>1, <2>4
<1> QED BY <1>1, <1>2, <1>3, <1>5, <1>6

(* What a call costs is what its shares come to.                             *)
LEMMA SharesAddUp ==
    ASSUME NEW ids \in (SUBSET Metered) \ {{}}
    PROVE  Share(ids) \in Int /\ Cardinality(ids) * Share(ids) = Spend
<1>1. IsFiniteSet(ids) /\ IsFiniteSet(Metered)
  BY SpendAssumption, FS_Subset
<1>2. PICK n \in Nat : n = Cardinality(ids)
  BY <1>1, FS_CardinalityType
<1>3. n # 0
  BY <1>1, <1>2, FS_EmptySet
<1>4. n <= Cardinality(Metered) /\ Cardinality(Metered) \in Nat
  BY <1>1, <1>2, FS_Subset, FS_CardinalityType
<1>5. Spend \in Nat /\ Spend % n = 0
  BY <1>3, <1>4, SpendAssumption
<1>6. PICK q \in Int : q = Spend \div n
  BY <1>3, <1>5
<1>7. n * q = Spend
  <2>1. n * (Spend \div n) + (Spend % n) = Spend
    BY <1>3, <1>5
  <2> QED BY <1>5, <1>6, <2>1
<1> QED BY <1>2, <1>6, <1>7 DEF Share

(* Nothing was sealed or spent at the start.                                 *)
LEMMA MeterStarts == MeterInit => MeterInv
<1> SUFFICES ASSUME MeterInit PROVE MeterInv
  OBVIOUS
<1>0. /\ DOMAIN open = {} /\ DOMAIN conditions = {} /\ DOMAIN came = {} /\ sealed = {} /\ spent = 0
      /\ kindsPerWindow = <<>> /\ openStart = 0 /\ pendingKinds = {} /\ alone = [s \in Metered |-> 0]
  BY DEF MeterInit
<1>1. IsFiniteSet({}) /\ Cardinality({}) = 0
  BY FS_EmptySet
<1>2. MeterTyped
  <2>1. kindsPerWindow \in Seq(SUBSET ArrivalKinds)
    BY <1>0
  <2> QED BY <1>0, <1>1, <2>1 DEF MeterTyped
<1>3. WindowsOrdered
  <2>1. SealedStarts = {}
    BY <1>0 DEF SealedStarts
  <2>2. Len(kindsPerWindow) = 0
    BY <1>0
  <2> QED BY <1>0, <1>1, <2>1, <2>2 DEF WindowsOrdered
<1>4. CostsAllAttributed
  <2>1. \A f : DOMAIN f = {} => SumFunction(f) = 0
    BY SumEmpty DEF SumFunction
  <2>2. SealedStarts = {}
    BY <1>0 DEF SealedStarts
  <2>3. SumFunction([w \in SealedStarts |-> TotalForWindow(w)]) = 0
    BY <2>1, <2>2
  <2>4. SumFunction([s \in DOMAIN open |-> open[s].att]) = 0
    BY <1>0, <2>1
  <2> QED BY <1>0, <2>3, <2>4 DEF CostsAllAttributed
<1>5. StandaloneIsAlone
  <2>1. \A f : SumFunctionOnSet(f, {}) = 0
    BY SumEmpty
  <2>2. \A s : {w \in sealed : w.sub = s} = {}
    BY <1>0
  <2> QED BY <1>0, <2>1, <2>2 DEF StandaloneIsAlone
<1> QED BY <1>2, <1>3, <1>4, <1>5 DEF MeterInv

(* Tracking moves no cost.                                                   *)
LEMMA TrackKeeps ==
    ASSUME MeterInv, NEW s \in Metered, NEW c, Track(s, c) \/ Untrack(s)
    PROVE  MeterInv'
<1>1. /\ openStart' = openStart /\ open' = open /\ sealed' = sealed /\ kindsPerWindow' = kindsPerWindow
      /\ spent' = spent /\ alone' = alone /\ came' = came
  BY DEF Track, Untrack
<1>2. DOMAIN conditions' \in SUBSET Metered
  BY DEF MeterInv, MeterTyped, Track, Untrack
<1>3. pendingKinds' \in SUBSET ArrivalKinds
  BY DEF MeterInv, MeterTyped, Track, Untrack, ArrivalKinds
<1>4. MeterTyped'
  BY <1>1, <1>2, <1>3 DEF MeterInv, MeterTyped
<1>5. WindowsOrdered'
  BY <1>1 DEF MeterInv, WindowsOrdered, Rank, SealedStarts
<1>6. CostsAllAttributed'
  BY <1>1 DEF MeterInv, CostsAllAttributed, SealedStarts, TotalForWindow
<1>7. StandaloneIsAlone'
  BY <1>1 DEF MeterInv, StandaloneIsAlone
<1> QED BY <1>4, <1>5, <1>6, <1>7 DEF MeterInv

(* A call is charged to the open window, once, and to each of those that     *)
(* share it what it would have paid alone.                                   *)
LEMMA RecordCostKeeps ==
    ASSUME MeterInv, NEW ids \in (SUBSET Metered) \ {{}}, Record(ids)
    PROVE  MeterInv'
<1>1. /\ openStart' = openStart /\ sealed' = sealed /\ kindsPerWindow' = kindsPerWindow
      /\ came' = came /\ conditions' = conditions /\ pendingKinds' = pendingKinds
      /\ spent' = spent + Spend
  BY DEF Record
<1>2. Share(ids) \in Int /\ Cardinality(ids) * Share(ids) = Spend /\ Spend \in Int
  BY SharesAddUp, SpendAssumption
<1>3. PICK q \in Int : q = Share(ids)
  BY <1>2
<1>4. PICK D, T : D = DOMAIN open /\ T = D \cup ids
  OBVIOUS
<1>5. /\ DOMAIN open' = T
      /\ \A s \in T : open'[s] = LET old == IF s \in D THEN open[s] ELSE [att |-> 0, alone |-> 0] IN
                                 IF s \in ids THEN [att |-> old.att + q, alone |-> old.alone + Spend]
                                 ELSE old
  BY <1>3, <1>4 DEF Record, Standalone
<1>6. T \in SUBSET Metered /\ IsFiniteSet(T) /\ D \in SUBSET T /\ ids \in SUBSET T
  <2>1. T \in SUBSET Metered /\ D \in SUBSET T /\ ids \in SUBSET T
    BY <1>4 DEF MeterInv, MeterTyped
  <2> QED BY <2>1, SpendAssumption, FS_Subset
<1>7. \A s \in D : open[s] \in Costs /\ open[s].att \in Int /\ open[s].alone \in Int
  BY <1>4 DEF MeterInv, MeterTyped, Costs
<1>8. PICK f : f = [s \in T |-> IF s \in D THEN open[s].att ELSE 0]
  OBVIOUS
<1>9. PICK a : a = [s \in T |-> IF s \in D THEN open[s].alone ELSE 0]
  OBVIOUS
<1>10. \A s \in T : f[s] \in Int /\ a[s] \in Int
  BY <1>7, <1>8, <1>9
<1>11. ASSUME NEW s \in T
       PROVE  /\ open'[s] \in Costs
              /\ open'[s].att = IF s \in ids THEN f[s] + q ELSE f[s]
              /\ open'[s].alone = IF s \in ids THEN a[s] + Spend ELSE a[s]
  <2>1. PICK old : old = IF s \in D THEN open[s] ELSE [att |-> 0, alone |-> 0]
    OBVIOUS
  <2>2. old \in Costs /\ old.att = f[s] /\ old.alone = a[s]
    BY <1>7, <1>8, <1>9, <2>1 DEF Costs
  <2>3. open'[s] = IF s \in ids THEN [att |-> old.att + q, alone |-> old.alone + Spend] ELSE old
    BY <1>5, <2>1
  <2>4. old.att \in Int /\ old.alone \in Int
    BY <1>10, <2>2
  <2>5. CASE s \in ids
    <3>1. open'[s] = [att |-> old.att + q, alone |-> old.alone + Spend]
      BY <2>3, <2>5
    <3>2. open'[s].att = old.att + q /\ open'[s].alone = old.alone + Spend
      BY <3>1
    <3>3. open'[s] \in Costs
      BY <1>2, <2>4, <3>1 DEF Costs
    <3> QED BY <2>2, <2>5, <3>2, <3>3
  <2>6. CASE s \notin ids
    BY <2>2, <2>3, <2>6
  <2> QED BY <2>5, <2>6
<1>12. alone' \in [Metered -> Int] /\ \A s \in Metered : alone'[s] = IF s \in ids THEN alone[s] + Spend ELSE alone[s]
  BY <1>2 DEF Record, MeterInv, MeterTyped
<1>13. MeterTyped'
  BY <1>1, <1>5, <1>6, <1>11, <1>12 DEF MeterInv, MeterTyped
<1>14. WindowsOrdered'
  BY <1>1 DEF MeterInv, WindowsOrdered, Rank, SealedStarts
<1>15. PICK x \in Int : x = SumFunctionOnSet(OpenCosts, D)
  BY <1>4, MeterSums DEF MeterInv
<1>16. SumFunctionOnSet(f, T) = x
  <2>1. SumFunctionOnSet(f, T) = SumFunctionOnSet(f, D)
    <3>1. \A s \in T \ D : f[s] = 0
      BY <1>8
    <3> QED BY <1>6, <1>10, <3>1, SumZeros
  <2>2. \A s \in D : f[s] \in Int /\ f[s] = OpenCosts[s]
    BY <1>4, <1>6, <1>8, <1>10 DEF OpenCosts
  <2>3. IsFiniteSet(D)
    BY <1>6, FS_Subset
  <2>4. SumFunctionOnSet(f, D) = SumFunctionOnSet(OpenCosts, D)
    BY <2>2, <2>3, SumSame
  <2> QED BY <1>15, <2>1, <2>4
<1>17. PICK h : h = [s \in DOMAIN open' |-> open'[s].att]
  OBVIOUS
<1>18. SumFunctionOnSet(h, T) = x + Spend
  <2>1. \A s \in T : h[s] = IF s \in ids THEN f[s] + q ELSE f[s]
    BY <1>5, <1>11, <1>17
  <2>2. SumFunctionOnSet(h, T) = SumFunctionOnSet(f, T) + Cardinality(ids) * q
    BY <1>6, <1>10, <2>1, SumShared
  <2> QED BY <1>2, <1>3, <1>16, <2>2
<1>19. PICK y : y = SumFunction([w \in SealedStarts |-> TotalForWindow(w)])
  OBVIOUS
<1>20. y + x = spent
  <2>1. SumFunction([s \in DOMAIN open |-> open[s].att]) = x
    BY <1>4, <1>15 DEF SumFunction, OpenCosts
  <2> QED BY <1>19, <2>1 DEF MeterInv, CostsAllAttributed
<1>21. y \in Int
  <2> DEFINE g == [w \in SealedStarts |-> TotalForWindow(w)]
  <2>1. IsFiniteSet(SealedStarts)
    BY FS_Subset DEF MeterInv, WindowsOrdered
  <2>2. \A w \in SealedStarts : g[w] \in Int
    BY MeterSums DEF MeterInv
  <2>3. DOMAIN g = SealedStarts /\ SumFunction(g) = SumFunctionOnSet(g, DOMAIN g)
    BY DEF SumFunction
  <2>4. y = SumFunction(g)
    BY <1>19
  <2> HIDE DEF g
  <2>5. SumFunctionOnSet(g, SealedStarts) \in Int
    BY <2>1, <2>2, SumInt
  <2> QED BY <2>3, <2>4, <2>5
<1>22. CostsAllAttributed'
  <2>1. SumFunction([s \in DOMAIN open' |-> open'[s].att]) = x + Spend
    BY <1>5, <1>17, <1>18 DEF SumFunction
  <2>2. SumFunction([w \in SealedStarts' |-> TotalForWindow(w)']) = y
    BY <1>1, <1>19 DEF SealedStarts, TotalForWindow
  <2>3. y + (x + Spend) = spent'
    BY <1>1, <1>2, <1>20, <1>21
  <2> QED BY <2>1, <2>2, <2>3 DEF CostsAllAttributed
<1>23. StandaloneIsAlone'
  <2>1. ASSUME NEW s \in Metered
        PROVE  SumFunctionOnSet([w \in sealed |-> w.alone], {w \in sealed : w.sub = s})
                 + (IF s \in T THEN open'[s].alone ELSE 0) = alone'[s]
    <3>1. PICK z : z = SumFunctionOnSet([w \in sealed |-> w.alone], {w \in sealed : w.sub = s})
      OBVIOUS
    <3>2. z \in Int
      BY <3>1, MeterSums DEF MeterInv
    <3>3. PICK o : o = IF s \in D THEN open[s].alone ELSE 0
      OBVIOUS
    <3>4. o \in Int /\ z + o = alone[s]
      BY <1>4, <1>7, <3>1, <3>3 DEF MeterInv, StandaloneIsAlone
    <3>5. (IF s \in T THEN open'[s].alone ELSE 0) = IF s \in ids THEN o + Spend ELSE o
      BY <1>4, <1>6, <1>9, <1>11, <3>3
    <3> QED BY <1>2, <1>12, <3>1, <3>2, <3>4, <3>5
  <2> QED BY <1>1, <1>5, <2>1 DEF StandaloneIsAlone
<1> QED BY <1>13, <1>14, <1>22, <1>23 DEF MeterInv

(* What closeWindow seals: for each of those it is sealed for one record, of *)
(* what was charged to it.                                                   *)
NewRecord(s, end) ==
    [sub |-> s, start |-> openStart, end |-> end,
     att |-> IF s \in DOMAIN open THEN open[s].att ELSE 0,
     alone |-> IF s \in DOMAIN open THEN open[s].alone ELSE 0]

NewRecords(end) == {NewRecord(s, end) : s \in SealedIds}

(* The new records are of the window closed, which has no other, and hold    *)
(* together what was charged to it.                                          *)
LEMMA NewRecordsAre ==
    ASSUME MeterTyped, NEW end \in SealLedgers
    PROVE  /\ SealedIds \in SUBSET Metered /\ IsFiniteSet(SealedIds)
           /\ \A s \in SealedIds : NewRecord(s, end) \in SealedRecords /\ NewRecord(s, end).sub = s
                                   /\ NewRecord(s, end).start = openStart
                                   /\ NewRecord(s, end).att = (IF s \in DOMAIN open THEN open[s].att ELSE 0)
                                   /\ NewRecord(s, end).alone = (IF s \in DOMAIN open THEN open[s].alone ELSE 0)
           /\ IsFiniteSet(NewRecords(end))
           /\ \A f : (\A w \in NewRecords(end) : f[w] = w.att) =>
                 SumFunctionOnSet(f, NewRecords(end)) = SumFunctionOnSet(OpenCosts, DOMAIN open)
<1>1. SealedIds \in SUBSET Metered
  BY DEF MeterTyped, SealedIds
<1>2. IsFiniteSet(SealedIds)
  BY <1>1, SpendAssumption, FS_Subset
<1>3. \A s \in DOMAIN open : open[s].att \in Int /\ open[s].alone \in Int
  BY DEF MeterTyped, Costs
<1>4. ASSUME NEW s \in SealedIds
      PROVE  /\ NewRecord(s, end) \in SealedRecords /\ NewRecord(s, end).sub = s
             /\ NewRecord(s, end).start = openStart
             /\ NewRecord(s, end).att = (IF s \in DOMAIN open THEN open[s].att ELSE 0)
             /\ NewRecord(s, end).alone = (IF s \in DOMAIN open THEN open[s].alone ELSE 0)
  <2>1. PICK a, o \in Int : /\ a = IF s \in DOMAIN open THEN open[s].att ELSE 0
                            /\ o = IF s \in DOMAIN open THEN open[s].alone ELSE 0
    BY <1>3
  <2>2. PICK w : w = [sub |-> s, start |-> openStart, end |-> end, att |-> a, alone |-> o]
    OBVIOUS
  <2>3. w = NewRecord(s, end)
    BY <2>1, <2>2 DEF NewRecord
  <2>4. openStart \in Nat /\ end \in Nat /\ s \in Metered
    BY <1>1, SpendAssumption DEF MeterTyped
  <2>5. w \in SealedRecords
    BY <2>2, <2>4 DEF SealedRecords
  <2>6. w.sub = s /\ w.start = openStart /\ w.att = a /\ w.alone = o
    BY <2>2
  <2> QED BY <2>1, <2>3, <2>5, <2>6
<1>5. PICK rec : rec = [s \in SealedIds |-> NewRecord(s, end)]
  OBVIOUS
<1>6. NewRecords(end) = {rec[s] : s \in SealedIds}
  BY <1>5 DEF NewRecords
<1>7. \A s, t \in SealedIds : rec[s] = rec[t] => s = t
  BY <1>4, <1>5
<1>8. PICK h : h = [s \in SealedIds |-> IF s \in DOMAIN open THEN open[s].att ELSE 0]
  OBVIOUS
<1>9. \A s \in SealedIds : h[s] \in Int /\ rec[s].att = h[s]
  BY <1>3, <1>4, <1>5, <1>8
<1>10. DOMAIN open \in SUBSET SealedIds
  BY DEF SealedIds
<1>11. SumFunctionOnSet(h, SealedIds) = SumFunctionOnSet(OpenCosts, DOMAIN open)
  <2>1. \A s \in SealedIds \ DOMAIN open : h[s] = 0
    BY <1>8
  <2>2. SumFunctionOnSet(h, SealedIds) = SumFunctionOnSet(h, DOMAIN open)
    BY <1>2, <1>9, <1>10, <2>1, SumZeros
  <2>3. \A s \in DOMAIN open : h[s] \in Int /\ h[s] = OpenCosts[s]
    BY <1>8, <1>9, <1>10 DEF OpenCosts
  <2>4. IsFiniteSet(DOMAIN open)
    BY MeterSums
  <2>5. SumFunctionOnSet(h, DOMAIN open) = SumFunctionOnSet(OpenCosts, DOMAIN open)
    BY <2>3, <2>4, SumSame
  <2> QED BY <2>2, <2>5
<1>12. ASSUME NEW f, \A w \in NewRecords(end) : f[w] = w.att
       PROVE  SumFunctionOnSet(f, NewRecords(end)) = SumFunctionOnSet(OpenCosts, DOMAIN open)
  <2>1. \A s \in SealedIds : f[rec[s]] \in Int /\ f[rec[s]] = h[s]
    BY <1>6, <1>9, <1>12
  <2>2. SumFunctionOnSet(f, {rec[s] : s \in SealedIds}) = SumFunctionOnSet(h, SealedIds)
    BY <1>2, <1>7, <2>1, SumImage
  <2> QED BY <1>6, <1>11, <2>2
<1>13. IsFiniteSet(NewRecords(end))
  <2>1. PICK f : f = [w \in NewRecords(end) |-> w.att]
    OBVIOUS
  <2>2. \A s \in SealedIds : f[rec[s]] \in Int /\ f[rec[s]] = h[s]
    BY <1>6, <1>9, <2>1
  <2>3. /\ IsFiniteSet({rec[s] : s \in SealedIds})
        /\ SumFunctionOnSet(f, {rec[s] : s \in SealedIds}) = SumFunctionOnSet(h, SealedIds)
    BY <1>2, <1>7, <2>2, SumImage
  <2> QED BY <1>6, <2>3
<1> QED BY <1>1, <1>2, <1>4, <1>12, <1>13

(* The closed window is the last, and its kinds the last of the list.        *)
LEMMA ClosedInOrder ==
    ASSUME MeterInv, NEW end \in SealLedgers, CloseWindow(end)
    PROVE  WindowsOrdered'
<1>1. PICK C, W, ks : C = DOMAIN came /\ W = C \cup {openStart} /\ ks = kindsPerWindow
  OBVIOUS
<1>2. /\ openStart \in Nat /\ end \in Nat /\ end > openStart /\ openStart' = end
      /\ pendingKinds \in SUBSET ArrivalKinds /\ ks \in Seq(SUBSET ArrivalKinds)
  BY <1>1, SpendAssumption DEF MeterInv, MeterTyped, CloseWindow
<1>3. /\ IsFiniteSet(C) /\ C \in SUBSET Nat /\ \A w \in C : w < openStart
      /\ Cardinality(C) = Len(ks) /\ \A w \in C : came[w] = ks[Rank(C, w) + 1]
      /\ \A i \in 1..Len(ks) : \E w \in C : Rank(C, w) = i - 1
      /\ SealedStarts \in SUBSET C
  BY <1>1 DEF MeterInv, WindowsOrdered
<1>4. PICK n \in Nat : n = Len(ks)
  BY <1>2
<1>5. openStart \notin C
  BY <1>2, <1>3
<1>6. /\ DOMAIN came' = W /\ came'[openStart] = pendingKinds
      /\ \A w \in C : came'[w] = came[w]
  BY <1>1, <1>5 DEF CloseWindow
<1>7. kindsPerWindow' = Append(ks, pendingKinds)
  BY <1>1 DEF CloseWindow
<1>8. PICK ls : ls = Append(ks, pendingKinds)
  OBVIOUS
<1>9. /\ Len(ls) = n + 1 /\ ls[n + 1] = pendingKinds
      /\ \A i \in 1..n : ls[i] = ks[i]
  BY <1>2, <1>4, <1>8
<1>10. Rank(W, openStart) = n
  <2>1. \A v : v \in W /\ v < openStart <=> v \in C
    BY <1>1, <1>2, <1>3
  <2>2. {v \in W : v < openStart} = C
    BY <1>1, <2>1
  <2> QED BY <1>3, <1>4, <2>2 DEF Rank
<1>11. \A w \in C : Rank(W, w) = Rank(C, w)
  <2> SUFFICES ASSUME NEW w \in C PROVE Rank(W, w) = Rank(C, w)
    OBVIOUS
  <2>1. ~(openStart < w)
    BY <1>2, <1>3
  <2>2. {v \in W : v < w} = {v \in C : v < w}
    BY <1>1, <2>1
  <2> QED BY <2>2 DEF Rank
<1>12. \A w \in C : Rank(C, w) \in 0..(n - 1)
  <2> SUFFICES ASSUME NEW w \in C PROVE Rank(C, w) \in 0..(n - 1)
    OBVIOUS
  <2>1. PICK B : B = {v \in C : v < w}
    OBVIOUS
  <2>2. B \in SUBSET C /\ w \notin B
    BY <1>3, <2>1
  <2>3. IsFiniteSet(B) /\ Cardinality(B) <= n /\ (n = Cardinality(B) => C = B)
    BY <1>3, <1>4, <2>2, FS_Subset
  <2>4. Cardinality(B) \in Nat /\ C # B
    BY <2>2, <2>3, FS_CardinalityType
  <2> QED BY <2>1, <2>3, <2>4 DEF Rank
<1>13. /\ IsFiniteSet(W) /\ Cardinality(W) = n + 1 /\ W \in SUBSET Nat /\ \A w \in W : w < end
  <2>1. IsFiniteSet(W) /\ Cardinality(W) = n + 1
    BY <1>1, <1>3, <1>4, <1>5, FS_AddElement
  <2>2. W \in SUBSET Nat
    BY <1>1, <1>2, <1>3
  <2>3. \A w \in W : w < end
    BY <1>1, <1>2, <1>3
  <2> QED BY <2>1, <2>2, <2>3
<1>14. \A w \in W : came'[w] = ls[Rank(W, w) + 1]
  <2>1. ASSUME NEW w \in C PROVE came'[w] = ls[Rank(W, w) + 1]
    <3>1. PICK i \in 0..(n - 1) : i = Rank(C, w)
      BY <1>12
    <3>2. i + 1 \in 1..n
      OBVIOUS
    <3> QED BY <1>3, <1>6, <1>9, <1>11, <3>1, <3>2
  <2>2. came'[openStart] = ls[Rank(W, openStart) + 1]
    BY <1>6, <1>9, <1>10
  <2> QED BY <1>1, <2>1, <2>2
<1>15. \A i \in 1..(n + 1) : \E w \in W : Rank(W, w) = i - 1
  <2> SUFFICES ASSUME NEW i \in 1..(n + 1) PROVE \E w \in W : Rank(W, w) = i - 1
    OBVIOUS
  <2>1. CASE i \in 1..n
    <3>1. PICK w \in C : Rank(C, w) = i - 1
      BY <1>3, <1>4, <2>1
    <3> QED BY <1>1, <1>11, <3>1
  <2>2. CASE i = n + 1
    BY <1>1, <1>10, <2>2
  <2> QED BY <2>1, <2>2
<1>16. SealedStarts' \in SUBSET W
  <2>1. sealed' = sealed \cup NewRecords(end)
    BY DEF CloseWindow, NewRecords, NewRecord
  <2>2. \A w \in NewRecords(end) : w.start = openStart
    <3>1. \A s \in SealedIds : NewRecord(s, end).start = openStart
      BY NewRecordsAre DEF MeterInv
    <3> QED BY <3>1 DEF NewRecords
  <2> QED BY <1>1, <1>3, <2>1, <2>2 DEF SealedStarts
<1>17. kindsPerWindow' = ls /\ Len(ls) = n + 1
  BY <1>7, <1>8, <1>9
<1> QED BY <1>2, <1>6, <1>13, <1>14, <1>15, <1>16, <1>17 DEF WindowsOrdered

(* closeWindow: what was charged to the open window is sealed, all of it,    *)
(* also for those no longer tracked, and nothing else.                       *)
LEMMA CloseWindowKeeps ==
    ASSUME MeterInv, NEW end \in SealLedgers, CloseWindow(end)
    PROVE  MeterInv'
<1>0. MeterTyped
  BY DEF MeterInv
<1>1. PICK N : N = NewRecords(end)
  OBVIOUS
<1>2. /\ sealed' = sealed \cup N /\ openStart' = end /\ end > openStart /\ DOMAIN open' = {}
      /\ spent' = spent /\ alone' = alone /\ conditions' = conditions /\ pendingKinds' = {}
      /\ kindsPerWindow' = Append(kindsPerWindow, pendingKinds)
  BY <1>1 DEF CloseWindow, NewRecords, NewRecord
<1>3. openStart \in Nat /\ end \in Nat
  BY <1>0, SpendAssumption DEF MeterTyped
<1>4. \A s \in SealedIds : NewRecord(s, end) \in SealedRecords /\ NewRecord(s, end).start = openStart
  BY <1>0, NewRecordsAre
<1>5. N \in SUBSET SealedRecords /\ \A w \in N : w.start = openStart
  BY <1>1, <1>4 DEF NewRecords
<1>6. IsFiniteSet(N)
  BY <1>0, <1>1, NewRecordsAre
<1>7. IsFiniteSet(sealed) /\ sealed \in SUBSET SealedRecords /\ \A w \in sealed : w.start < openStart
  BY <1>0 DEF MeterTyped
<1>8. \A w \in SealedRecords : w.start \in Nat /\ w.att \in Int /\ w.alone \in Int
  BY DEF SealedRecords
<1>9. MeterTyped'
  <2>1. IsFiniteSet(sealed')
    BY <1>2, <1>6, <1>7, FS_Union
  <2>2. sealed' \in SUBSET SealedRecords
    BY <1>2, <1>5, <1>7
  <2>3. \A w \in sealed' : w.start < end
    BY <1>2, <1>3, <1>5, <1>7, <1>8
  <2>4. kindsPerWindow' \in Seq(SUBSET ArrivalKinds)
    BY <1>0, <1>2 DEF MeterTyped
  <2> QED BY <1>0, <1>2, <1>3, <2>1, <2>2, <2>3, <2>4 DEF MeterTyped
<1>10. WindowsOrdered'
  BY ClosedInOrder
<1>11. PICK x \in Int : x = SumFunctionOnSet(OpenCosts, DOMAIN open)
  BY <1>0, MeterSums
<1>12. PICK S : S = SealedStarts
  OBVIOUS
<1> DEFINE g == [w \in S |-> TotalForWindow(w)]
           k == [w \in SealedStarts' |-> TotalForWindow(w)']
           f == [w \in sealed |-> w.att]
           h == [w \in sealed' |-> w.att]
<1>13. IsFiniteSet(S) /\ (\A w \in S : g[w] \in Int) /\ openStart \notin S
  <2>1. IsFiniteSet(S)
    BY <1>12, FS_Subset DEF MeterInv, WindowsOrdered
  <2>2. \A w \in S : g[w] \in Int
    BY <1>0, MeterSums
  <2>3. openStart \notin S
    BY <1>3, <1>7, <1>12 DEF SealedStarts
  <2> QED BY <2>1, <2>2, <2>3
<1>14. PICK y \in Int : y = SumFunctionOnSet(g, S)
  <2> HIDE DEF g
  <2>1. SumFunctionOnSet(g, S) \in Int
    BY <1>13, SumInt
  <2> QED BY <2>1
<1>15. y + x = spent
  <2>1. SumFunction([s \in DOMAIN open |-> open[s].att]) = x
    BY <1>11 DEF SumFunction, OpenCosts
  <2>2. SumFunction(g) = y
    BY <1>14 DEF SumFunction
  <2>3. SumFunction([w \in SealedStarts |-> TotalForWindow(w)]) = y
    BY <1>12, <2>2
  <2> QED BY <2>1, <2>3 DEF MeterInv, CostsAllAttributed
<1>16. ASSUME NEW start \in S PROVE TotalForWindow(start)' = g[start]
  <2>1. PICK W : W = {w \in sealed : w.start = start}
    OBVIOUS
  <2>2. W = {w \in sealed' : w.start = start}
    <3>1. start # openStart
      BY <1>13
    <3> QED BY <1>2, <1>5, <2>1, <3>1
  <2>3. IsFiniteSet(W) /\ \A w \in W : f[w] \in Int /\ f[w] = h[w]
    <3>1. IsFiniteSet(W)
      BY <1>7, <2>1, FS_Subset
    <3>2. \A w \in W : w \in sealed /\ w \in sealed' /\ w.att \in Int
      BY <1>2, <1>7, <1>8, <2>1
    <3> QED BY <3>1, <3>2
  <2>4. SumFunctionOnSet(f, W) = SumFunctionOnSet(h, W)
    <3> HIDE DEF f, h
    <3> QED BY <2>3, SumSame
  <2>5. g[start] = SumFunctionOnSet(f, W)
    BY <2>1 DEF TotalForWindow
  <2>6. TotalForWindow(start)' = SumFunctionOnSet(h, W)
    BY <2>2 DEF TotalForWindow
  <2> QED BY <2>4, <2>5, <2>6
<1>17. SumFunction(k) = y + x
  <2>1. CASE SealedIds = {}
    <3>1. N = {}
      BY <1>1, <2>1 DEF NewRecords
    <3>2. SealedStarts' = S
      BY <1>2, <1>12, <3>1 DEF SealedStarts
    <3>3. \A w \in S : g[w] \in Int /\ g[w] = k[w]
      BY <1>13, <1>16, <3>2
    <3>4. SumFunction(k) = SumFunctionOnSet(k, S)
      BY <3>2 DEF SumFunction
    <3>5. SumFunctionOnSet(g, S) = SumFunctionOnSet(k, S)
      <4> HIDE DEF g, k
      <4> QED BY <1>13, <3>3, SumSame
    <3>6. DOMAIN open = {}
      BY <2>1 DEF SealedIds
    <3>7. x = 0
      BY <1>11, <3>6, SumEmpty
    <3> QED BY <1>14, <3>4, <3>5, <3>7
  <2>2. CASE SealedIds # {}
    <3>1. SealedStarts' = S \cup {openStart}
      <4>1. \E w \in N : w.start = openStart
        BY <1>1, <1>4, <2>2 DEF NewRecords
      <4> QED BY <1>2, <1>5, <1>12, <4>1 DEF SealedStarts
    <3>2. \A w \in S : g[w] \in Int /\ g[w] = k[w]
      BY <1>13, <1>16, <3>1
    <3>3. k[openStart] = x
      <4>1. N = {w \in sealed' : w.start = openStart}
        BY <1>2, <1>3, <1>5, <1>7
      <4>2. k[openStart] = SumFunctionOnSet(h, N)
        <5>1. \A start \in SealedStarts' : k[start] = TotalForWindow(start)'
          OBVIOUS
        <5>2. \A start : TotalForWindow(start)' = SumFunctionOnSet(h, {w \in sealed' : w.start = start})
          BY DEF TotalForWindow
        <5>3. openStart \in SealedStarts'
          BY <3>1
        <5> HIDE DEF k, h
        <5> QED BY <4>1, <5>1, <5>2, <5>3
      <4>3. \A w \in N : h[w] = w.att
        BY <1>2
      <4> HIDE DEF h
      <4>4. SumFunctionOnSet(h, N) = x
        BY <1>0, <1>1, <1>11, <4>3, NewRecordsAre
      <4> QED BY <4>2, <4>4
    <3>4. SumFunctionOnSet(g, S) = SumFunctionOnSet(k, S)
      <4> HIDE DEF g, k
      <4> QED BY <1>13, <3>2, SumSame
    <3>5. SumFunctionOnSet(k, S \cup {openStart}) = k[openStart] + SumFunctionOnSet(k, S)
      <4>1. \A w \in S \cup {openStart} : k[w] \in Int
        BY <3>2, <3>3
      <4> HIDE DEF g, k
      <4> QED BY <1>13, <4>1, SumAdd
    <3>6. SumFunction(k) = SumFunctionOnSet(k, S \cup {openStart})
      <4>1. DOMAIN k = S \cup {openStart}
        BY <3>1
      <4> HIDE DEF k
      <4> QED BY <4>1 DEF SumFunction
    <3> HIDE DEF k, g
    <3> QED BY <1>14, <3>3, <3>4, <3>5, <3>6
  <2> QED BY <2>1, <2>2
<1>18. CostsAllAttributed'
  <2>1. SumFunction([s \in DOMAIN open' |-> open'[s].att]) = 0
    BY <1>2, SumEmpty DEF SumFunction
  <2> QED BY <1>2, <1>15, <1>17, <2>1 DEF CostsAllAttributed
<1> HIDE DEF g, k, f, h
<1>19. ASSUME NEW s \in Metered
       PROVE  SumFunctionOnSet([w \in sealed' |-> w.alone], {w \in sealed' : w.sub = s}) = alone[s]
  <2> DEFINE p == [w \in sealed |-> w.alone]
             q == [w \in sealed' |-> w.alone]
  <2>1. PICK V, U : V = {w \in sealed : w.sub = s} /\ U = {w \in sealed' : w.sub = s}
    OBVIOUS
  <2>2. PICK z \in Int : z = SumFunctionOnSet(p, V)
    BY <1>0, <2>1, MeterSums
  <2>3. IsFiniteSet(V) /\ \A w \in V : w \in sealed
    BY <1>7, <2>1, FS_Subset
  <2>4. \A w \in V : p[w] \in Int /\ p[w] = q[w]
    <3>1. \A w \in V : w \in sealed /\ w \in sealed' /\ w.alone \in Int
      BY <1>2, <1>7, <1>8, <2>1
    <3> QED BY <3>1
  <2>5. SumFunctionOnSet(q, V) = z
    <3> HIDE DEF p, q
    <3> QED BY <2>2, <2>3, <2>4, SumSame
  <2>6. z + (IF s \in DOMAIN open THEN open[s].alone ELSE 0) = alone[s]
    BY <2>1, <2>2 DEF MeterInv, StandaloneIsAlone
  <2>7. \A t \in SealedIds : NewRecord(t, end).sub = t
    BY <1>0, NewRecordsAre
  <2>8. CASE s \in SealedIds
    <3>1. PICK v : v = NewRecord(s, end)
      OBVIOUS
    <3>2. v \in N /\ v.sub = s /\ v.start = openStart /\ v \in SealedRecords
      BY <1>1, <1>4, <2>7, <2>8, <3>1 DEF NewRecords
    <3>3. v.alone = (IF s \in DOMAIN open THEN open[s].alone ELSE 0) /\ v.alone \in Int
      BY <1>0, <1>8, <2>8, <3>1, <3>2, NewRecordsAre
    <3>4. v \notin V
      BY <1>3, <1>7, <2>1, <3>2
    <3>5. \A w \in N : w.sub = s => w = v
      BY <1>1, <2>7, <3>1 DEF NewRecords
    <3>6. U = V \cup {v}
      BY <1>2, <2>1, <3>2, <3>5
    <3>7. q[v] = v.alone
      BY <1>2, <3>2
    <3>8. SumFunctionOnSet(q, V \cup {v}) = q[v] + SumFunctionOnSet(q, V)
      <4>1. \A w \in V \cup {v} : q[w] \in Int
        BY <2>4, <3>3, <3>7
      <4> HIDE DEF q, p
      <4> QED BY <2>3, <3>4, <4>1, SumAdd
    <3>9. SumFunctionOnSet(q, U) = v.alone + z
      BY <2>5, <3>6, <3>7, <3>8
    <3> QED BY <2>1, <2>6, <3>3, <3>9
  <2>9. CASE s \notin SealedIds
    <3>1. s \notin DOMAIN open
      BY <2>9 DEF SealedIds
    <3>2. \A w \in N : w.sub # s
      BY <1>1, <2>7, <2>9 DEF NewRecords
    <3>3. U = V
      BY <1>2, <2>1, <3>2
    <3>4. SumFunctionOnSet(q, U) = z
      BY <2>5, <3>3
    <3> QED BY <2>1, <2>2, <2>6, <3>1, <3>4
  <2> QED BY <2>8, <2>9
<1>20. alone \in [Metered -> Int]
  BY <1>0 DEF MeterTyped
<1>21. StandaloneIsAlone'
  <2>1. ASSUME NEW s \in Metered
        PROVE  SumFunctionOnSet([w \in sealed' |-> w.alone], {w \in sealed' : w.sub = s})
                 + (IF s \in DOMAIN open' THEN open'[s].alone ELSE 0) = alone'[s]
    <3>1. PICK z : z = SumFunctionOnSet([w \in sealed' |-> w.alone], {w \in sealed' : w.sub = s})
      OBVIOUS
    <3>2. z = alone[s] /\ alone[s] \in Int
      BY <1>19, <1>20, <3>1
    <3> QED BY <1>2, <3>1, <3>2
  <2> QED BY <2>1 DEF StandaloneIsAlone
<1> QED BY <1>9, <1>10, <1>18, <1>21 DEF MeterInv

(* What a kind's samples are about, as long as no window was empty.          *)
LEMMA SamplesAreRight == MeterInv => SamplesNameTheArrivals
<1> SUFFICES ASSUME MeterInv, NoEmptyWindow, NEW kind \in ArrivalKinds, NEW i \in Samples(kind)
             PROVE  came[WindowStarts[i]] = {kind}
  BY DEF SamplesNameTheArrivals, ArrivalKinds
<1>1. PICK C, S : C = DOMAIN came /\ S = SealedStarts
  OBVIOUS
<1>2. /\ IsFiniteSet(C) /\ Cardinality(C) = Len(kindsPerWindow)
      /\ \A w \in C : came[w] = kindsPerWindow[Rank(C, w) + 1]
      /\ \A j \in 1..Len(kindsPerWindow) : \E w \in C : Rank(C, w) = j - 1
      /\ S \in SUBSET C
  BY <1>1 DEF MeterInv, WindowsOrdered
<1>3. PICK n \in Nat : n = Cardinality(S) /\ IsFiniteSet(S)
  BY <1>2, FS_Subset, FS_CardinalityType
<1>4. DOMAIN WindowStarts = 1..n /\ Len(WindowStarts) = n
  <2>1. DOMAIN WindowStarts = 1..n
    BY <1>1, <1>3 DEF WindowStarts
  <2>2. PICK g : g = WindowStarts
    OBVIOUS
  <2> DEFINE At(j) == CHOOSE w \in S : Cardinality({v \in S : v < w}) = j - 1
             R == {At(j) : j \in 1..n}
  <2>3. g = [j \in 1..n |-> At(j)]
    BY <1>1, <1>3, <2>2 DEF WindowStarts
  <2> HIDE DEF At
  <2>4. g \in [1..n -> R]
    BY <2>3
  <2> HIDE DEF R
  <2>5. g \in Seq(R) /\ DOMAIN g = 1..n
    BY <2>4, SeqDef
  <2>6. Len(g) = n
    BY <2>5, LenProperties
  <2> QED BY <2>1, <2>2, <2>6
<1>5. Len(kindsPerWindow) = n
  BY <1>4 DEF NoEmptyWindow
<1>6. S = C
  BY <1>2, <1>3, <1>5, FS_Subset
<1>7. i \in 1..n /\ kindsPerWindow[i] = {kind}
  BY <1>4 DEF Samples, KindsOf
<1>8. PICK w : w = WindowStarts[i]
  OBVIOUS
<1>9. w \in S /\ Rank(S, w) = i - 1
  <2>1. w = CHOOSE u \in S : Rank(S, u) = i - 1
    BY <1>1, <1>3, <1>7, <1>8 DEF WindowStarts, Rank
  <2>2. \E u \in S : Rank(S, u) = i - 1
    BY <1>2, <1>5, <1>6, <1>7
  <2> QED BY <2>1, <2>2
<1>10. came[w] = kindsPerWindow[(i - 1) + 1]
  BY <1>2, <1>6, <1>9
<1> QED BY <1>7, <1>8, <1>10

(* InMemoryCostMeter: every cost is attributed to one window and once, also  *)
(* when its subscription is untracked before the window is sealed; what a    *)
(* subscription would have paid alone adds up; and, as long as no window was *)
(* empty, marginalCost puts growth down to what arrived in that window.      *)
THEOREM CostsAreSound == MeterSpec => []CostsSound
<1>1. MeterInit => MeterInv
  BY MeterStarts
<1>2. MeterInv /\ [MeterNext]_meterVars => MeterInv'
  <2> SUFFICES ASSUME MeterInv, [MeterNext]_meterVars PROVE MeterInv'
    OBVIOUS
  <2>1. ASSUME NEW s \in Metered, Untrack(s) PROVE MeterInv'
    BY <2>1, TrackKeeps
  <2>2. ASSUME NEW s \in Metered, NEW c \in Watched, Track(s, c) PROVE MeterInv'
    BY <2>2, TrackKeeps
  <2>3. ASSUME NEW ids \in (SUBSET Metered) \ {{}}, Record(ids) PROVE MeterInv'
    BY <2>3, RecordCostKeeps
  <2>4. ASSUME NEW end \in SealLedgers, CloseWindow(end) PROVE MeterInv'
    BY <2>4, CloseWindowKeeps
  <2>5. CASE UNCHANGED meterVars
    <3>1. UNCHANGED <<openStart, open, conditions, pendingKinds, sealed, kindsPerWindow, spent, alone, came>>
      BY <2>5 DEF meterVars
    <3>2. MeterTyped'
      BY <3>1 DEF MeterInv, MeterTyped
    <3>3. WindowsOrdered'
      BY <3>1 DEF MeterInv, WindowsOrdered, Rank, SealedStarts
    <3>4. CostsAllAttributed'
      BY <3>1 DEF MeterInv, CostsAllAttributed, SealedStarts, TotalForWindow
    <3>5. StandaloneIsAlone'
      BY <3>1 DEF MeterInv, StandaloneIsAlone
    <3> QED BY <3>2, <3>3, <3>4, <3>5 DEF MeterInv
  <2> QED BY <2>1, <2>2, <2>3, <2>4, <2>5 DEF MeterNext
<1>3. MeterInv => CostsSound
  BY SamplesAreRight DEF MeterInv, CostsSound
<1> QED BY <1>1, <1>2, <1>3, PTL DEF MeterSpec

-----------------------------------------------------------------------------
(***************************************************************************)
(* Verification                                                             *)
(***************************************************************************)
(* When the i-th event delivered happened, and whether it obliges.           *)
When(i) == happened[feed[i]]
Obliges(i) == When(i) # NoLedger /\ When(i) >= Activation

(* The window the i-th event opens when it opens one.                        *)
WindowAt(i) == [id |-> feed[i], from |-> When(i), to |-> When(i) + Bound]

(* What the planner holds.                                                   *)
Windows == [id: Conditions, from: Nat, to: Nat]
Plans == [seen: SUBSET Conditions, until: Nat, windows: SUBSET Windows]

(* The shapes of the state; what happened, and was invoked, was up to now.   *)
ChainTyped ==
    /\ tip \in Nat \ {0} /\ DOMAIN happened \in SUBSET Conditions
    /\ \A c \in DOMAIN happened : happened[c] \in 0..tip
    /\ feed \in Seq(DOMAIN happened) /\ horizon \in Nat
    /\ \A e \in invoked : e \in (0..tip) \X BOOLEAN

(* A plan for the events delivered at some places: a window was opened by    *)
(* the first of those of its ledger, every event that obliges falls in just  *)
(* one, and the last window is after all the others.                         *)
PlannedFor(s, acc) ==
    /\ acc \in Plans
    /\ acc.seen = {feed[i] : i \in {j \in s : Obliges(j)}}
    /\ \A w \in acc.windows :
          \E i \in s : Obliges(i) /\ w = WindowAt(i) /\ \A j \in s : When(j) = When(i) => i <= j
    /\ \A i \in s : Obliges(i) =>
          \E w \in acc.windows : \A v \in acc.windows :
             v.from <= When(i) /\ When(i) <= v.to <=> v = w
    /\ \/ acc.windows = {} /\ acc.until = NoLedger
       \/ \E w \in acc.windows : w.to = acc.until /\ \A v \in acc.windows : v # w => v.to < w.from

(* An event is of a ledger, which is a number.                               *)
LEMMA WhenIs ==
    ASSUME ChainTyped
    PROVE  /\ IsFiniteSet(DOMAIN feed) /\ DOMAIN feed \in SUBSET Nat
           /\ \A i \in DOMAIN feed : /\ feed[i] \in DOMAIN happened /\ feed[i] \in Conditions
                                     /\ When(i) \in Nat /\ When(i) <= tip
<1>1. PICK n \in Nat : n = Len(feed) /\ DOMAIN feed = 1..n
  BY DEF ChainTyped
<1>2. IsFiniteSet(1..n) /\ 1..n \in SUBSET Nat
  BY FS_Interval
<1>3. \A i \in 1..n : feed[i] \in DOMAIN happened
  BY <1>1 DEF ChainTyped
<1>4. \A i \in 1..n : feed[i] \in Conditions /\ When(i) \in 0..tip
  BY <1>3 DEF ChainTyped, When
<1>5. tip \in Nat
  BY DEF ChainTyped
<1>6. \A i \in 1..n : When(i) \in Nat /\ When(i) <= tip
  BY <1>4, <1>5
<1> QED BY <1>1, <1>2, <1>3, <1>4, <1>6

(* Of some places there is a last one in the order of the plan.              *)
LEMMA LastIs ==
    ASSUME ChainTyped, NEW s \in SUBSET DOMAIN feed, s # {}
    PROVE  LastOf(s) \in s /\ \A j \in s : After(LastOf(s), j)
<1>1. /\ s \in SUBSET Nat /\ \A i \in s : When(i) \in Nat /\ When(i) <= tip
      /\ IsFiniteSet(s)
  BY WhenIs, FS_Subset
<1>2. tip \in Nat
  BY DEF ChainTyped
<1> DEFINE L == {When(i) : i \in s}
<1>3. L \in SUBSET (0..tip) /\ L # {} /\ L \in SUBSET Int
  BY <1>1, <1>2
<1>4. IsFiniteSet(L)
  <2> HIDE DEF L
  <2>1. IsFiniteSet(0..tip)
    BY <1>2, FS_Interval
  <2> QED BY <1>3, <2>1, FS_Subset
<1>5. PICK m \in L : \A l \in L : l <= m
  <2> HIDE DEF L
  <2> QED BY <1>3, <1>4, MaxIs
<1>6. PICK t : t = {i \in s : When(i) = m}
  OBVIOUS
<1>7. t \in SUBSET s /\ t # {} /\ t \in SUBSET Int
  BY <1>1, <1>6
<1>8. IsFiniteSet(t)
  BY <1>1, <1>7, FS_Subset
<1>9. PICK i \in t : \A j \in t : j <= i
  BY <1>7, <1>8, MaxIs
<1>10. i \in s /\ \A j \in s : After(i, j)
  <2>1. i \in s /\ When(i) = m /\ m \in Nat
    BY <1>1, <1>6
  <2>2. ASSUME NEW j \in s PROVE After(i, j)
    <3>1. When(j) \in Nat /\ When(j) <= m /\ j \in Nat /\ i \in Nat
      BY <1>1, <1>5, <2>1
    <3>2. CASE When(j) = m
      BY <1>6, <1>9, <2>1, <3>1, <3>2 DEF After, When
    <3>3. CASE When(j) < m
      BY <2>1, <3>1, <3>3 DEF After, When
    <3> QED BY <2>1, <3>1, <3>2, <3>3
  <2> QED BY <2>1, <2>2
<1> QED BY <1>10 DEF LastOf

(* One event more, the last in the order of the plan.                        *)
LEMMA PlanStepKeeps ==
    ASSUME ChainTyped, NEW s \in SUBSET DOMAIN feed, NEW i \in s, \A j \in s : After(i, j),
           NEW acc, PlannedFor(s \ {i}, acc)
    PROVE  PlannedFor(s, PlanStep(i, acc))
<1>1. PICK t : t = s \ {i}
  OBVIOUS
<1>2. s = t \cup {i} /\ i \notin t /\ t \in SUBSET s
  BY <1>1
<1>3. PICK c, l : c = feed[i] /\ l = When(i)
  OBVIOUS
<1>4. /\ s \in SUBSET Nat /\ c \in Conditions /\ l \in Nat
      /\ \A j \in s : When(j) \in Nat /\ feed[j] \in Conditions
  BY <1>3, WhenIs
<1>5. Bound \in Nat /\ Activation \in Nat
  BY VerificationAssumption
<1>6. \A j \in s : When(j) <= l /\ (When(j) = l => j <= i)
  <2>1. ASSUME NEW j \in s PROVE When(j) <= l /\ (When(j) = l => j <= i)
    <3>1. After(i, j) /\ j \in Nat /\ i \in Nat /\ When(j) \in Nat
      BY <1>4
    <3>2. l > When(j) \/ (l = When(j) /\ i >= j)
      BY <1>3, <3>1 DEF After, When
    <3> QED BY <1>4, <3>1, <3>2
  <2> QED BY <2>1
<1>7. /\ acc \in Plans /\ acc.seen \in SUBSET Conditions /\ acc.until \in Nat
      /\ acc.windows \in SUBSET Windows
  BY DEF PlannedFor, Plans
<1>8. acc.seen = {feed[j] : j \in {k \in t : Obliges(k)}}
  BY <1>1 DEF PlannedFor
<1>9. \A w \in acc.windows :
         \E j \in t : Obliges(j) /\ w = WindowAt(j) /\ \A k \in t : When(k) = When(j) => j <= k
  BY <1>1 DEF PlannedFor
<1>10. \A j \in t : Obliges(j) =>
          \E w \in acc.windows : \A v \in acc.windows : v.from <= When(j) /\ When(j) <= v.to <=> v = w
  BY <1>1 DEF PlannedFor
<1>11. \/ acc.windows = {} /\ acc.until = NoLedger
       \/ \E w \in acc.windows : w.to = acc.until /\ \A v \in acc.windows : v # w => v.to < w.from
  BY DEF PlannedFor
<1>12. \A w \in acc.windows : w.from \in Nat /\ w.to = w.from + Bound /\ w.from <= l
  <2>1. ASSUME NEW w \in acc.windows PROVE w.from \in Nat /\ w.to = w.from + Bound /\ w.from <= l
    <3>1. PICK j \in t : w = WindowAt(j)
      BY <1>9
    <3>2. w.from = When(j) /\ w.to = When(j) + Bound
      BY <3>1 DEF WindowAt
    <3> QED BY <1>2, <1>4, <1>6, <3>2
  <2> QED BY <2>1
<1>13. \A w \in acc.windows :
         \E j \in s : Obliges(j) /\ w = WindowAt(j) /\ \A k \in s : When(k) = When(j) => j <= k
  <2> SUFFICES ASSUME NEW w \in acc.windows
               PROVE  \E j \in s : Obliges(j) /\ w = WindowAt(j) /\ \A k \in s : When(k) = When(j) => j <= k
    OBVIOUS
  <2>1. PICK j \in t : Obliges(j) /\ w = WindowAt(j) /\ \A k \in t : When(k) = When(j) => j <= k
    BY <1>9
  <2>2. When(i) = When(j) => j <= i
    BY <1>2, <1>3, <1>6
  <2> QED BY <1>2, <2>1, <2>2
<1>14. CASE ~Obliges(i) \/ c \in acc.seen
  <2>1. PlanStep(i, acc) = acc
    BY <1>3, <1>4, <1>5, <1>14 DEF PlanStep, Obliges, When
  <2>2. acc.seen = {feed[j] : j \in {k \in s : Obliges(k)}}
    BY <1>2, <1>3, <1>8, <1>14
  <2>3. \A j \in s : Obliges(j) =>
           \E w \in acc.windows : \A v \in acc.windows : v.from <= When(j) /\ When(j) <= v.to <=> v = w
    <3>1. CASE ~Obliges(i)
      BY <1>2, <1>10, <3>1
    <3>2. CASE c \in acc.seen
      <4>1. PICK j \in t : Obliges(j) /\ feed[j] = c
        BY <1>8, <3>2
      <4>2. When(j) = When(i)
        BY <1>3, <4>1 DEF When
      <4> QED BY <1>2, <1>10, <4>1, <4>2
    <3> QED BY <1>14, <3>1, <3>2
  <2>4. PlannedFor(s, acc)
    BY <1>7, <1>11, <1>13, <2>2, <2>3, Zenon DEF PlannedFor
  <2> QED BY <2>1, <2>4
<1>15. PICK new : new = acc.seen \cup {c}
  OBVIOUS
<1>16. Obliges(i) => new = {feed[j] : j \in {k \in s : Obliges(k)}}
  BY <1>2, <1>3, <1>8, <1>15
<1>17. CASE Obliges(i) /\ c \notin acc.seen /\ StillOpen(l, acc.until)
  <2>1. PICK a : a = [acc EXCEPT !.seen = new]
    OBVIOUS
  <2>2. PlanStep(i, acc) = a
    BY <1>3, <1>4, <1>5, <1>15, <1>17, <2>1 DEF PlanStep, Obliges, When
  <2>3. a \in Plans /\ a.seen = new /\ a.until = acc.until /\ a.windows = acc.windows
    BY <1>4, <1>7, <1>15, <2>1 DEF Plans
  <2>4. l <= acc.until /\ l # 0
    BY <1>3, <1>17 DEF StillOpen, Obliges, NoLedger
  <2>5. PICK w \in acc.windows : w.to = acc.until /\ \A v \in acc.windows : v # w => v.to < w.from
    BY <1>4, <1>11, <2>4 DEF NoLedger
  <2>6. \A v \in acc.windows : v.from <= l /\ l <= v.to <=> v = w
    BY <1>4, <1>5, <1>12, <2>4, <2>5
  <2>7. \A j \in s : Obliges(j) =>
           \E x \in acc.windows : \A v \in acc.windows : v.from <= When(j) /\ When(j) <= v.to <=> v = x
    BY <1>2, <1>3, <1>10, <2>6
  <2>8. a.until = acc.until /\ w.to = a.until
    BY <2>3, <2>5
  <2>9. PICK ws : ws = a.windows /\ ws = acc.windows
    BY <2>3
  <2>10. a.seen = {feed[j] : j \in {k \in s : Obliges(k)}}
    BY <1>16, <1>17, <2>3
  <2>11. \A u \in ws :
           \E j \in s : Obliges(j) /\ u = WindowAt(j) /\ \A k \in s : When(k) = When(j) => j <= k
    BY <1>13, <2>9, Zenon
  <2>12. \A j \in s : Obliges(j) =>
           \E x \in ws : \A v \in ws : v.from <= When(j) /\ When(j) <= v.to <=> v = x
    BY <2>7, <2>9
  <2>13. w \in ws /\ \A v \in ws : v # w => v.to < w.from
    BY <2>5, <2>9, Zenon
  <2>14. \E x \in ws : x.to = a.until /\ \A v \in ws : v # x => v.to < x.from
    BY <2>8, <2>13
  <2>15. PlannedFor(s, a)
    <3>1. a \in Plans /\ a.windows = ws
      BY <2>3, <2>9
    <3>2. \A u \in a.windows :
             \E j \in s : Obliges(j) /\ u = WindowAt(j) /\ \A k \in s : When(k) = When(j) => j <= k
      BY <2>11, <3>1, Zenon
    <3>3. \A j \in s : Obliges(j) =>
             \E x \in a.windows : \A v \in a.windows :
                v.from <= When(j) /\ When(j) <= v.to <=> v = x
      BY <2>12, <3>1
    <3>4. \E x \in a.windows : x.to = a.until /\ \A v \in a.windows : v # x => v.to < x.from
      BY <2>14, <3>1
    <3> QED BY <2>10, <3>1, <3>2, <3>3, <3>4, Zenon DEF PlannedFor
  <2> QED BY <2>2, <2>15
<1>18. CASE Obliges(i) /\ c \notin acc.seen /\ ~StillOpen(l, acc.until)
  <2>1. PICK x : x = [id |-> c, from |-> l, to |-> l + Bound]
    OBVIOUS
  <2>2. x \in Windows /\ x = WindowAt(i) /\ x.from = l /\ x.to = l + Bound
    BY <1>3, <1>4, <1>5, <2>1 DEF Windows, WindowAt
  <2>3. PICK ws : ws = acc.windows \cup {x}
    OBVIOUS
  <2>4. PICK a : a = [seen |-> new, until |-> l + Bound, windows |-> ws]
    OBVIOUS
  <2>5. PlanStep(i, acc) = a
    BY <1>3, <1>4, <1>5, <1>15, <1>18, <2>1, <2>3, <2>4 DEF PlanStep, Obliges, When
  <2>6. a \in Plans /\ a.seen = new /\ a.until = l + Bound /\ a.windows = ws
    <3>1. new \in SUBSET Conditions /\ l + Bound \in Nat /\ ws \in SUBSET Windows
      BY <1>4, <1>5, <1>7, <1>15, <2>2, <2>3
    <3> QED BY <2>4, <3>1 DEF Plans
  <2>7. acc.until < l
    BY <1>4, <1>7, <1>18 DEF StillOpen
  <2>8. \A v \in acc.windows : v.to < l
    BY <1>4, <1>5, <1>7, <1>11, <1>12, <2>7
  <2>9. \A j \in t : Obliges(j) => When(j) < l
    <3> SUFFICES ASSUME NEW j \in t, Obliges(j) PROVE When(j) < l
      OBVIOUS
    <3>1. PICK w \in acc.windows : When(j) <= w.to
      BY <1>10
    <3> QED BY <1>2, <1>4, <1>5, <1>12, <2>8, <3>1
  <2>10. \A j \in s : Obliges(j) =>
           \E w \in ws : \A v \in ws : v.from <= When(j) /\ When(j) <= v.to <=> v = w
    <3>1. ASSUME NEW j \in t, Obliges(j)
          PROVE  \E w \in ws : \A v \in ws : v.from <= When(j) /\ When(j) <= v.to <=> v = w
      <4>1. PICK w \in acc.windows : \A v \in acc.windows : v.from <= When(j) /\ When(j) <= v.to <=> v = w
        BY <1>10, <3>1
      <4>2. ~(x.from <= When(j))
        BY <1>2, <1>4, <2>2, <2>9, <3>1
      <4>3. w # x
        BY <4>1, <4>2
      <4> QED BY <2>3, <4>1, <4>2, <4>3
    <3>2. \A v \in ws : v.from <= l /\ l <= v.to <=> v = x
      <4>1. x.from <= l /\ l <= x.to
        BY <1>4, <1>5, <2>2
      <4>2. \A v \in acc.windows : ~(l <= v.to) /\ v # x
        BY <1>4, <1>5, <1>12, <2>8, <4>1
      <4> QED BY <2>3, <4>1, <4>2
    <3> QED BY <1>2, <1>3, <2>3, <3>1, <3>2
  <2>11. \A w \in ws :
           \E j \in s : Obliges(j) /\ w = WindowAt(j) /\ \A k \in s : When(k) = When(j) => j <= k
    <3>1. \A k \in s : When(k) = When(i) => i <= k
      <4> SUFFICES ASSUME NEW k \in s, When(k) = When(i) PROVE i <= k
        OBVIOUS
      <4>1. CASE k = i
        BY <1>4, <4>1
      <4>2. CASE k \in t
        <5>1. Obliges(k)
          BY <1>18 DEF Obliges
        <5> QED BY <1>3, <1>4, <2>9, <4>2, <5>1
      <4> QED BY <1>2, <4>1, <4>2
    <3> QED BY <1>13, <1>18, <2>2, <2>3, <3>1
  <2>12. x \in ws /\ x.to = a.until /\ \A v \in ws : v # x => v.to < x.from
    BY <2>2, <2>3, <2>6, <2>8
  <2> QED BY <1>16, <1>18, <2>5, <2>6, <2>10, <2>11, <2>12 DEF PlannedFor
<1> QED BY <1>14, <1>17, <1>18

(* The function by which the library defines the fold that plans.            *)
PlanDefines(g) ==
    g = [s \in SUBSET DOMAIN feed |->
            IF s = {} THEN NothingPlanned ELSE PlanStep(LastOf(s), g[s \ {LastOf(s)}])]

(* There is one: a step leads from a plan to a plan.                         *)
LEMMA PlanExists == ChainTyped => \E g : PlanDefines(g)
<1> SUFFICES ASSUME ChainTyped PROVE \E g : PlanDefines(g)
  OBVIOUS
<1>1. PICK S : S = DOMAIN feed
  OBVIOUS
<1>2. IsFiniteSet(S) /\ \A i \in S : feed[i] \in Conditions /\ When(i) \in Nat
  BY <1>1, WhenIs
<1>3. PICK step : step = [x \in S |-> [v \in Plans |-> PlanStep(x, v)]]
  OBVIOUS
<1>4. \A x \in S, v \in Plans : step[x][v] \in Plans
  <2> SUFFICES ASSUME NEW x \in S, NEW v \in Plans PROVE PlanStep(x, v) \in Plans
    BY <1>3
  <2>1. PICK c, l : c = feed[x] /\ l = happened[feed[x]]
    OBVIOUS
  <2>2. c \in Conditions /\ l \in Nat /\ Bound \in Nat
    BY <1>2, <2>1, VerificationAssumption DEF When
  <2>3. v.seen \in SUBSET Conditions /\ v.windows \in SUBSET Windows /\ v.until \in Nat
    BY DEF Plans
  <2>4. PICK new, w, ws : /\ new = v.seen \cup {c} /\ w = [id |-> c, from |-> l, to |-> l + Bound]
                          /\ ws = v.windows \cup {w}
    OBVIOUS
  <2>5. w \in Windows
    BY <2>2, <2>4 DEF Windows
  <2>6. new \in SUBSET Conditions /\ ws \in SUBSET Windows /\ l + Bound \in Nat
    BY <2>2, <2>3, <2>4, <2>5
  <2>7. [v EXCEPT !.seen = new] \in Plans /\ [seen |-> new, until |-> l + Bound, windows |-> ws] \in Plans
    BY <2>6 DEF Plans
  <2>8. PlanStep(x, v) \in {v, [v EXCEPT !.seen = new], [seen |-> new, until |-> l + Bound, windows |-> ws]}
    BY <2>1, <2>4 DEF PlanStep
  <2> QED BY <2>7, <2>8
<1>5. \A s \in SUBSET S : s # {} => LastOf(s) \in s
  BY <1>1, LastIs
<1> DEFINE choose == [s \in SUBSET S |-> LastOf(s)]
<1>6. \A s \in SUBSET S : s # {} => choose[s] = LastOf(s) /\ choose[s] \in s
  BY <1>5
<1> HIDE DEF choose
<1>7. PICK base : base = NothingPlanned
  OBVIOUS
<1>8. base \in Plans
  BY <1>7 DEF NothingPlanned, NoLedger, Plans
<1>9. PICK V : V = Plans
  OBVIOUS
<1>10. PICK g \in [SUBSET S -> V] : IsFold(g, base, step, choose, S)
  BY <1>2, <1>4, <1>6, <1>8, <1>9, FoldExists
<1>11. ASSUME NEW s \in SUBSET S
       PROVE  g[s] = IF s = {} THEN NothingPlanned ELSE PlanStep(LastOf(s), g[s \ {LastOf(s)}])
  <2>1. CASE s = {}
    BY <1>7, <1>10, <2>1 DEF IsFold
  <2>2. CASE s # {}
    <3>1. LastOf(s) \in S /\ choose[s] = LastOf(s) /\ s \ {LastOf(s)} \in SUBSET S
      BY <1>6, <2>2
    <3>2. g[s] = step[LastOf(s)][g[s \ {LastOf(s)}]]
      BY <1>10, <2>2, <3>1 DEF IsFold
    <3>3. g[s \ {LastOf(s)}] \in Plans
      BY <1>9, <3>1
    <3> QED BY <1>3, <2>2, <3>1, <3>2, <3>3
  <2> QED BY <2>1, <2>2
<1> QED BY <1>1, <1>11 DEF PlanDefines

(* plan(): the plan it comes to is one for all the events delivered.         *)
LEMMA PlanIs == ChainTyped => PlannedFor(DOMAIN feed, Planned)
<1> SUFFICES ASSUME ChainTyped PROVE PlannedFor(DOMAIN feed, Planned)
  OBVIOUS
<1>1. PICK g : g = CHOOSE h : PlanDefines(h)
  OBVIOUS
<1>2. PlanDefines(g)
  BY <1>1, PlanExists
<1>3. Planned = g[DOMAIN feed]
  BY <1>1 DEF Planned, PlanDefines, MapThenFoldSet
<1>4. PICK S : S = DOMAIN feed
  OBVIOUS
<1>5. IsFiniteSet(S)
  BY <1>4, WhenIs
<1>6. \A s \in SUBSET S :
         g[s] = IF s = {} THEN NothingPlanned ELSE PlanStep(LastOf(s), g[s \ {LastOf(s)}])
  BY <1>2, <1>4 DEF PlanDefines
<1> DEFINE Bad == {s \in SUBSET S : ~PlannedFor(s, g[s])}
<1>7. Bad = {}
  <2> SUFFICES ASSUME Bad # {} PROVE FALSE
    OBVIOUS
  <2>1. Bad \in SUBSET SUBSET S
    OBVIOUS
  <2>2. PICK s \in Bad : \A x \in s : \A t \in SUBSET (s \ {x}) : t \notin Bad
    <3> HIDE DEF Bad
    <3> QED BY <1>5, <2>1, SmallestSet
  <2>3. s # {}
    <3>1. g[{}] = NothingPlanned
      BY <1>6
    <3>2. PlannedFor({}, NothingPlanned)
      BY DEF PlannedFor, NothingPlanned, Plans, NoLedger
    <3> QED BY <2>2, <3>1, <3>2
  <2>4. PICK i \in s : i = LastOf(s) /\ \A j \in s : After(i, j)
    BY <1>4, <2>3, LastIs
  <2>5. PICK acc : acc = g[s \ {i}]
    OBVIOUS
  <2>6. PlannedFor(s \ {i}, acc)
    <3>1. s \ {i} \in SUBSET S /\ s \ {i} \notin Bad
      BY <2>2
    <3> QED BY <2>5, <3>1
  <2>7. PlannedFor(s, PlanStep(i, acc))
    BY <1>4, <2>4, <2>6, PlanStepKeeps
  <2>8. g[s] = PlanStep(i, acc)
    BY <1>6, <2>3, <2>4, <2>5
  <2> QED BY <2>2, <2>7, <2>8
<1>8. S \notin Bad
  BY <1>7
<1> QED BY <1>3, <1>4, <1>8

(* A plan for all the events obliges once for each.                          *)
LEMMA PlanObligesOnce == ChainTyped => OneObligation
<1> SUFFICES ASSUME ChainTyped PROVE OneObligation
  OBVIOUS
<1>1. PICK W : W = Plan /\ W = Planned.windows
  BY DEF Plan
<1>2. /\ \A w \in W : \E i \in DOMAIN feed : Obliges(i) /\ w = WindowAt(i)
      /\ \A i \in DOMAIN feed : Obliges(i) =>
            \E w \in W : \A v \in W : v.from <= When(i) /\ When(i) <= v.to <=> v = w
  BY <1>1, PlanIs DEF PlannedFor
<1>3. Activation \in Nat /\ \A i \in DOMAIN feed : When(i) \in Nat
  BY VerificationAssumption, WhenIs
<1>4. \A i \in DOMAIN feed : Obliges(i) => When(i) \in Obliging
  BY <1>3 DEF Obliging, Obliges, When, Range
<1>5. \A l \in Obliging : \E i \in DOMAIN feed : Obliges(i) /\ l = When(i)
  <2> SUFFICES ASSUME NEW l \in Obliging PROVE \E i \in DOMAIN feed : Obliges(i) /\ l = When(i)
    OBVIOUS
  <2>1. PICK i \in DOMAIN feed : l = When(i) /\ l # NoLedger /\ l \notin 1..(Activation - 1)
    BY DEF Obliging, When, Range
  <2>2. l >= Activation
    BY <1>3, <2>1 DEF NoLedger
  <2> QED BY <2>1, <2>2 DEF Obliges
<1>6. ASSUME NEW l \in Obliging PROVE Cardinality({w \in W : w.from <= l /\ l <= w.to}) = 1
  <2>1. PICK i \in DOMAIN feed : Obliges(i) /\ l = When(i)
    BY <1>5
  <2>2. PICK w \in W : \A v \in W : v.from <= l /\ l <= v.to <=> v = w
    BY <1>2, <2>1
  <2>3. {v \in W : v.from <= l /\ l <= v.to} = {w}
    BY <2>2
  <2> QED BY <2>3, FS_Singleton
<1>7. ASSUME NEW w \in W PROVE w.from \in Obliging /\ w.to = w.from + Bound
  <2>1. PICK i \in DOMAIN feed : Obliges(i) /\ w = WindowAt(i)
    BY <1>2
  <2>2. w.from = When(i) /\ w.to = When(i) + Bound
    BY <2>1 DEF WindowAt
  <2> QED BY <1>4, <2>1, <2>2
<1> QED BY <1>1, <1>6, <1>7 DEF OneObligation

(* The shapes of the state.                                                  *)
LEMMA ChainMoves ==
    /\ VerificationInit => ChainTyped
    /\ ChainTyped /\ [VerificationNext]_verificationVars => ChainTyped'
<1>1. VerificationInit => ChainTyped
  BY VerificationAssumption DEF VerificationInit, ChainTyped
<1>2. ASSUME ChainTyped, [VerificationNext]_verificationVars PROVE ChainTyped'
  <2>0. /\ tip \in Nat \ {0} /\ DOMAIN happened \in SUBSET Conditions
        /\ \A c \in DOMAIN happened : happened[c] \in 0..tip
        /\ feed \in Seq(DOMAIN happened) /\ horizon \in Nat
        /\ \A e \in invoked : e \in (0..tip) \X BOOLEAN
    BY <1>2 DEF ChainTyped
  <2>1. ASSUME NEW c \in Conditions, DeliverCondition(c) PROVE ChainTyped'
    BY <2>0, <2>1 DEF DeliverCondition, ChainTyped
  <2>2. ASSUME NEW c \in Conditions, NEW l \in {tip, NoLedger}, ConditionOccurs(c, l) PROVE ChainTyped'
    <3>1. DOMAIN happened' = DOMAIN happened \cup {c} /\ l \in 0..tip
      BY <2>0, <2>2 DEF ConditionOccurs, NoLedger
    <3>2. \A d \in DOMAIN happened' : happened'[d] \in 0..tip
      BY <2>0, <2>2, <3>1 DEF ConditionOccurs
    <3>3. feed' \in Seq(DOMAIN happened')
      <4>1. PICK D, E : D = DOMAIN happened /\ E = DOMAIN happened' /\ D \in SUBSET E
        BY <3>1
      <4>2. feed \in Seq(D) /\ feed' = feed
        BY <2>0, <2>2, <4>1 DEF ConditionOccurs
      <4>3. feed \in Seq(E)
        BY <4>1, <4>2
      <4> QED BY <4>1, <4>2, <4>3
    <3>4. tip' = tip /\ invoked' = invoked /\ horizon' = horizon
      BY <2>2 DEF ConditionOccurs
    <3> QED BY <2>0, <2>2, <3>1, <3>2, <3>3, <3>4 DEF ChainTyped
  <2>3. ASSUME NEW ok \in BOOLEAN, WorkerInvokes(ok) PROVE ChainTyped'
    <3>1. <<tip, ok>> \in (0..tip) \X BOOLEAN
      BY <2>0
    <3> QED BY <2>0, <2>3, <3>1 DEF WorkerInvokes, ChainTyped
  <2>4. CASE NextTip
    <3>1. tip' = tip + 1 /\ UNCHANGED <<happened, feed, invoked, horizon>>
      BY <2>4 DEF NextTip
    <3>2. 0..tip \in SUBSET (0..(tip + 1))
      BY <2>0
    <3> QED BY <2>0, <3>1, <3>2 DEF ChainTyped
  <2>5. CASE Verify
    BY <2>0, <2>5 DEF Verify, ChainTyped
  <2>6. CASE UNCHANGED verificationVars
    BY <2>0, <2>6 DEF verificationVars, ChainTyped
  <2> QED BY <1>2, <2>1, <2>2, <2>3, <2>4, <2>5, <2>6 DEF VerificationNext
<1> QED BY <1>1, <1>2

(* EventTriggerPlanner.plan: in whatever order and however often events are  *)
(* delivered, every one that obliges falls in exactly one window and every   *)
(* window starts with one.                                                   *)
THEOREM ObligationsAreOne == VerificationSpec => []OneObligation
<1>1. VerificationInit => ChainTyped
  BY ChainMoves
<1>2. ChainTyped /\ [VerificationNext]_verificationVars => ChainTyped'
  BY ChainMoves
<1>3. ChainTyped => OneObligation
  BY PlanObligesOnce
<1> QED BY <1>1, <1>2, <1>3, PTL DEF VerificationSpec

(* Windows of length b that start in F cover each of A, and once.            *)
CoverOnce(F, A, b) == \A l \in A : \E f \in F : \A e \in F : e <= l /\ l <= e + b <=> e = f

(* They cover A from F and B from G, each of them once; B has more than A    *)
(* from T on only.                                                           *)
CoverMore(A, B, F, G, b, T) ==
    /\ B \in SUBSET Nat /\ b \in Nat /\ T \in Nat
    /\ A \subseteq B /\ F \subseteq A /\ G \subseteq B
    /\ CoverOnce(F, A, b) /\ CoverOnce(G, B, b)
    /\ \A l \in B \ A : l >= T

(* What starts in F up to T starts in G.                                     *)
LEMMA StartsStay ==
    \A A, B, F, G, b, T : CoverMore(A, B, F, G, b, T) => \A l \in F : l <= T => l \in G
<1> SUFFICES ASSUME NEW A, NEW B, NEW F, NEW G, NEW b, NEW T, CoverMore(A, B, F, G, b, T)
             PROVE  \A l \in F : l <= T => l \in G
  OBVIOUS
<1> USE DEF CoverMore
<1> DEFINE Bad == {l \in F : l <= T /\ l \notin G}
<1> SUFFICES ASSUME Bad # {} PROVE FALSE
  OBVIOUS
<1>1. Bad \in SUBSET Nat
  OBVIOUS
<1>2. PICK l \in Bad : \A m \in Bad : l <= m
  <2> HIDE DEF Bad
  <2> QED BY <1>1, NatMin
<1>3. l \in F /\ l \in B /\ l \in A /\ l <= T /\ l \notin G /\ l \in Nat
  OBVIOUS
<1>4. PICK g \in G : g <= l /\ l <= g + b
  BY <1>3 DEF CoverOnce
<1>5. g \in B /\ g \in Nat /\ g # l
  BY <1>3, <1>4
<1>6. g \in A
  BY <1>3, <1>4, <1>5
<1>7. g \notin F
  <2> SUFFICES ASSUME g \in F PROVE FALSE
    OBVIOUS
  <2>1. PICK f \in F : \A e \in F : e <= l /\ l <= e + b <=> e = f
    BY <1>3 DEF CoverOnce
  <2>2. l <= l /\ l <= l + b
    BY <1>3
  <2> QED BY <1>3, <1>4, <1>5, <2>1, <2>2
<1>8. PICK f \in F : f <= g /\ g <= f + b
  BY <1>6 DEF CoverOnce
<1>9. f \in Nat /\ f # g
  BY <1>7, <1>8
<1>10. f \in G
  <2>1. f < l /\ f <= T
    BY <1>3, <1>4, <1>5, <1>8, <1>9
  <2>2. f \notin Bad
    BY <1>2, <1>3, <1>9, <2>1
  <2> QED BY <2>1, <2>2
<1>11. PICK h \in G : \A e \in G : e <= g /\ g <= e + b <=> e = h
  BY <1>5 DEF CoverOnce
<1>12. g <= g /\ g <= g + b
  BY <1>5
<1> QED BY <1>4, <1>8, <1>9, <1>10, <1>11, <1>12

(* What is known of a plan of all the events delivered.                      *)
PlanKnown ==
    /\ \A w \in Plan :
          \E i \in DOMAIN feed : /\ Obliges(i) /\ w = WindowAt(i)
                                 /\ \A j \in DOMAIN feed : When(j) = When(i) => i <= j
    /\ \A i \in DOMAIN feed : Obliges(i) =>
          \E w \in Plan : \A v \in Plan : v.from <= When(i) /\ When(i) <= v.to <=> v = w

(* It is known in every state.                                               *)
LEMMA PlanIsKnown == ChainTyped => PlanKnown
BY PlanIs DEF PlanKnown, PlannedFor, Plan

(* The ledgers of events that oblige, and those windows start at.            *)
Duties == {When(i) : i \in {j \in DOMAIN feed : Obliges(j)}}
OpenedAt == {w.from : w \in Plan}

(* The starts cover the duties, each once.                                   *)
LEMMA StartsCover ==
    ChainTyped => Duties \in SUBSET Nat /\ OpenedAt \subseteq Duties /\ CoverOnce(OpenedAt, Duties, Bound)
<1> SUFFICES ASSUME ChainTyped
             PROVE  Duties \in SUBSET Nat /\ OpenedAt \subseteq Duties /\ CoverOnce(OpenedAt, Duties, Bound)
  OBVIOUS
<1>1. PlanKnown
  BY PlanIsKnown
<1>2. \A i \in DOMAIN feed : When(i) \in Nat
  BY WhenIs
<1>3. Duties \in SUBSET Nat
  BY <1>2 DEF Duties
<1>4. \A w \in Plan : w.from \in Duties /\ w.to = w.from + Bound
  <2> SUFFICES ASSUME NEW w \in Plan PROVE w.from \in Duties /\ w.to = w.from + Bound
    OBVIOUS
  <2>1. PICK i \in DOMAIN feed : Obliges(i) /\ w = WindowAt(i)
    BY <1>1 DEF PlanKnown
  <2>2. w.from = When(i) /\ w.to = When(i) + Bound
    BY <2>1 DEF WindowAt
  <2> QED BY <2>1, <2>2 DEF Duties
<1>5. ASSUME NEW l \in Duties
      PROVE  \E f \in OpenedAt : \A e \in OpenedAt : e <= l /\ l <= e + Bound <=> e = f
  <2>1. PICK i \in DOMAIN feed : Obliges(i) /\ l = When(i)
    BY DEF Duties
  <2>2. PICK w \in Plan : \A v \in Plan : v.from <= l /\ l <= v.to <=> v = w
    BY <1>1, <2>1 DEF PlanKnown
  <2>3. \A v \in Plan : v.from <= l /\ l <= v.from + Bound <=> v = w
    BY <1>4, <2>2
  <2>4. \A e \in OpenedAt : e <= l /\ l <= e + Bound <=> e = w.from
    BY <2>3 DEF OpenedAt
  <2> QED BY <2>4 DEF OpenedAt
<1> QED BY <1>3, <1>4, <1>5 DEF OpenedAt, CoverOnce

(* Events delivered from T on, and copies of earlier ones, leave the windows *)
(* that start up to T as they are.                                           *)
LEMMA WindowsStay ==
    ASSUME ChainTyped, ChainTyped', NEW T \in Nat,
           \A c \in DOMAIN happened : c \in DOMAIN happened' /\ happened'[c] = happened[c],
           feed' = feed \/ \E d : /\ feed' = Append(feed, d)
                                  /\ d \in Range(feed) \/ happened'[d] = NoLedger \/ happened'[d] >= T,
           NEW w \in Plan, w.from <= T
    PROVE  w \in Plan'
<1>1. PlanKnown /\ PlanKnown'
  <2>1. PlanKnown
    BY PlanIsKnown
  <2>2. ChainTyped' => PlanKnown'
    BY PlanIsKnown, PTL
  <2> QED BY <2>1, <2>2
<1>2. Duties \in SUBSET Nat /\ OpenedAt \subseteq Duties /\ CoverOnce(OpenedAt, Duties, Bound)
  BY StartsCover
<1>3. Duties' \in SUBSET Nat /\ OpenedAt' \subseteq Duties' /\ CoverOnce(OpenedAt', Duties', Bound)
  <2>1. ChainTyped' => (Duties \in SUBSET Nat /\ OpenedAt \subseteq Duties /\ CoverOnce(OpenedAt, Duties, Bound))'
    BY StartsCover, PTL
  <2> QED BY <2>1
<1>4. PICK n \in Nat : n = Len(feed) /\ DOMAIN feed = 1..n
  BY DEF ChainTyped
<1>5. /\ DOMAIN feed \in SUBSET DOMAIN feed' /\ DOMAIN feed' \in SUBSET Nat
      /\ \A i \in 1..n : feed'[i] = feed[i] /\ When(i)' = When(i)
      /\ \A i \in DOMAIN feed' : i \in 1..n \/ i = n + 1
  <2>1. CASE feed' = feed
    <3>1. \A i \in 1..n : feed[i] \in DOMAIN happened
      BY <1>4, WhenIs
    <3> QED BY <1>4, <2>1, <3>1 DEF When
  <2>2. ASSUME NEW d, feed' = Append(feed, d)
        PROVE  /\ DOMAIN feed \in SUBSET DOMAIN feed' /\ DOMAIN feed' \in SUBSET Nat
               /\ \A i \in 1..n : feed'[i] = feed[i] /\ When(i)' = When(i)
               /\ \A i \in DOMAIN feed' : i \in 1..n \/ i = n + 1
    <3>1. \A i \in 1..n : feed[i] \in DOMAIN happened
      BY <1>4, WhenIs
    <3>2. DOMAIN feed' = 1..(n + 1) /\ \A i \in 1..n : feed'[i] = feed[i]
      BY <1>4, <2>2 DEF ChainTyped
    <3> QED BY <1>4, <3>1, <3>2 DEF When
  <2> QED BY <2>1, <2>2
<1>6. \A i \in 1..n : Obliges(i)' <=> Obliges(i)
  BY <1>5 DEF Obliges
<1>7. Duties \subseteq Duties'
  BY <1>4, <1>5, <1>6 DEF Duties
<1>8. \A l \in Duties' \ Duties : l >= T
  <2> SUFFICES ASSUME NEW l \in Duties', l \notin Duties PROVE l >= T
    OBVIOUS
  <2>1. PICK i \in DOMAIN feed' : Obliges(i)' /\ l = When(i)'
    BY DEF Duties
  <2>2. i \notin 1..n
    BY <1>4, <1>5, <1>6, <2>1 DEF Duties
  <2>3. i = n + 1
    BY <1>5, <2>1, <2>2
  <2>4. PICK d : /\ feed' = Append(feed, d)
                 /\ d \in Range(feed) \/ happened'[d] = NoLedger \/ happened'[d] >= T
    BY <1>4, <2>1, <2>2
  <2>5. l = happened'[d] /\ l # NoLedger
    BY <1>4, <2>1, <2>3, <2>4 DEF When, Obliges, ChainTyped
  <2>6. d \notin Range(feed)
    <3> SUFFICES ASSUME d \in Range(feed) PROVE FALSE
      OBVIOUS
    <3>1. PICK j \in 1..n : d = feed[j]
      BY <1>4 DEF Range
    <3>2. When(j)' = l
      BY <1>5, <2>5, <3>1 DEF When
    <3>3. Obliges(j)'
      BY <2>1, <3>2 DEF Obliges
    <3> QED BY <1>4, <1>5, <1>6, <2>5, <3>2, <3>3 DEF Duties
  <2> QED BY <2>4, <2>5, <2>6
<1>9. w.from \in OpenedAt'
  <2>1. Bound \in Nat /\ w.from \in OpenedAt
    BY VerificationAssumption DEF OpenedAt
  <2>2. PICK A, B, F, G : A = Duties /\ B = Duties' /\ F = OpenedAt /\ G = OpenedAt'
    OBVIOUS
  <2>3. B \in SUBSET Nat /\ A \subseteq B /\ F \subseteq A /\ G \subseteq B /\ \A l \in B \ A : l >= T
    BY <1>2, <1>3, <1>7, <1>8, <2>2
  <2>4. CoverOnce(F, A, Bound) /\ CoverOnce(G, B, Bound)
    BY <1>2, <1>3, <2>2
  <2>5. \A l \in F : l <= T => l \in G
    <3>1. CoverMore(A, B, F, G, Bound, T)
      BY <2>1, <2>3, <2>4 DEF CoverMore
    <3> QED BY <3>1, StartsStay, Zenon
  <2> QED BY <2>1, <2>2, <2>5
<1>10. PICK i \in 1..n : w = WindowAt(i) /\ \A j \in 1..n : When(j) = When(i) => i <= j
  BY <1>1, <1>4 DEF PlanKnown
<1>11. PICK v \in Plan' : v.from = w.from
  BY <1>9 DEF OpenedAt
<1>12. PICK k \in DOMAIN feed' : v = WindowAt(k)' /\ \A j \in DOMAIN feed' : When(j)' = When(k)' => k <= j
  BY <1>1 DEF PlanKnown
<1>13. When(i) = w.from /\ When(k)' = w.from
  BY <1>10, <1>11, <1>12 DEF WindowAt
<1>14. k <= i /\ k \in 1..n
  <2>1. i \in DOMAIN feed' /\ When(i)' = w.from
    BY <1>4, <1>5, <1>13
  <2>2. k <= i
    BY <1>12, <1>13, <2>1
  <2> QED BY <1>5, <2>2
<1>15. k = i
  BY <1>5, <1>10, <1>13, <1>14
<1>16. v = w
  BY <1>5, <1>10, <1>12, <1>13, <1>15 DEF WindowAt
<1> QED BY <1>16

(* The invocations that landed since a window opened.                        *)
LandedSince(w) == {e[1] : e \in {x \in invoked : x[1] >= w.from /\ x[2]}}

(* resolveWindow: pending until the horizon, then by the first that landed.  *)
Resolves(w) ==
    /\ LandedSince(w) \in SUBSET (0..tip)
    /\ tip - w.to < horizon => ResolveWindow(w) = "pending"
    /\ tip - w.to >= horizon /\ LandedSince(w) # {} =>
          ResolveWindow(w) = IF Min(LandedSince(w)) <= w.to THEN "fired" ELSE "late"
    /\ tip - w.to >= horizon /\ LandedSince(w) = {} => ResolveWindow(w) \in {"not-due", "missed"}

ResolvesAll == \A w : w.from \in Nat /\ w.to \in Nat => Resolves(w)

(* It does so for every window.                                              *)
LEMMA ResolveIs == ChainTyped => ResolvesAll
<1> SUFFICES ASSUME ChainTyped, NEW w, w.from \in Nat, w.to \in Nat
             PROVE  Resolves(w)
  BY DEF ResolvesAll
<1>1. tip \in Nat /\ horizon \in Nat
  BY DEF ChainTyped
<1>2. LandedSince(w) \in SUBSET (0..tip)
  BY DEF LandedSince, ChainTyped
<1>3. PICK since : since = {e \in invoked : e[1] >= w.from}
  OBVIOUS
<1>4. PICK landed : landed = {e[1] : e \in {e \in since : e[2]}}
  OBVIOUS
<1>5. landed = LandedSince(w)
  BY <1>3, <1>4 DEF LandedSince
<1>6. ResolveWindow(w) =
        CASE tip - w.to < horizon -> "pending"
          [] tip - w.to >= horizon /\ landed # {} -> IF Best(landed) <= w.to THEN "fired" ELSE "late"
          [] tip - w.to >= horizon /\ landed = {} -> IF since # {} THEN "not-due" ELSE "missed"
  BY <1>3, <1>4 DEF ResolveWindow
<1>7. tip - w.to < horizon => ResolveWindow(w) = "pending"
  BY <1>1, <1>6
<1>8. tip - w.to >= horizon /\ landed # {} =>
         ResolveWindow(w) = IF Min(landed) <= w.to THEN "fired" ELSE "late"
  BY <1>1, <1>6 DEF Best
<1>9. tip - w.to >= horizon /\ landed = {} => ResolveWindow(w) \in {"not-due", "missed"}
  BY <1>1, <1>6
<1> QED BY <1>2, <1>5, <1>7, <1>8, <1>9 DEF Resolves

(* A verdict, and what it may become; `tight`: it is of the ledger of the    *)
(* window's deadline, and there is no horizon.                               *)
Stands(old, new, tight) ==
    /\ old \in {"fired", "late"} => new = old
    /\ new = "pending" => old = "pending"
    /\ new = "fired" => old \in {"pending", "fired"} \/ tight

(* The chain is in the ledger of a window's deadline, without a horizon.     *)
Tight(w) == horizon = 0 /\ tip = w.to

(* As the chain grows, a verdict past the horizon stands, but that a worker  *)
(* that had not fired may do so late, or in the rest of the last ledger.     *)
LEMMA ResolveStands ==
    ASSUME ChainTyped, ChainTyped', NEW w, w.from \in Nat, w.to \in Nat,
           (\E ok \in BOOLEAN : WorkerInvokes(ok)) \/ NextTip
    PROVE  Stands(ResolveWindow(w), ResolveWindow(w)', Tight(w))
<1>1. tip \in Nat /\ horizon \in Nat
  BY DEF ChainTyped
<1>2. PICK r, s : r = ResolveWindow(w) /\ s = ResolveWindow(w)'
  OBVIOUS
<1>3. PICK L, M : L = LandedSince(w) /\ M = LandedSince(w)'
  OBVIOUS
<1>4. /\ L \in SUBSET (0..tip)
      /\ tip - w.to < horizon => r = "pending"
      /\ tip - w.to >= horizon /\ L # {} => r = IF Min(L) <= w.to THEN "fired" ELSE "late"
      /\ tip - w.to >= horizon /\ L = {} => r \in {"not-due", "missed"}
  BY <1>2, <1>3, ResolveIs DEF ResolvesAll, Resolves
<1>5. PICK now : now = tip'
  OBVIOUS
<1>6. /\ M \in SUBSET (0..now)
      /\ now - w.to < horizon => s = "pending"
      /\ now - w.to >= horizon /\ M # {} => s = IF Min(M) <= w.to THEN "fired" ELSE "late"
      /\ now - w.to >= horizon /\ M = {} => s \in {"not-due", "missed"}
  <2>1. ChainTyped' => ResolvesAll'
    BY ResolveIs, PTL
  <2>2. horizon' = horizon
    BY DEF WorkerInvokes, NextTip
  <2> QED BY <1>2, <1>3, <1>5, <2>1, <2>2 DEF ResolvesAll, Resolves
<1>7. CASE NextTip
  <2>1. now = tip + 1 /\ M = L
    BY <1>3, <1>5, <1>7 DEF NextTip, LandedSince
  <2> QED BY <1>1, <1>2, <1>4, <1>6, <2>1 DEF Stands
<1>8. ASSUME NEW ok \in BOOLEAN, WorkerInvokes(ok) PROVE Stands(r, s, Tight(w))
  <2>1. now = tip /\ invoked' = invoked \cup {<<tip, ok>>}
    BY <1>5, <1>8 DEF WorkerInvokes
  <2>2. M = L \/ M = L \cup {tip}
    <3>0. PICK e : e = <<tip, ok>>
      OBVIOUS
    <3>1. e = <<tip, ok>> /\ e[1] = tip
      BY <3>0
    <3>2. M = {x[1] : x \in {y \in invoked \cup {e} : y[1] >= w.from /\ y[2]}}
      BY <1>3, <2>1, <3>1 DEF LandedSince
    <3>3. L = {x[1] : x \in {y \in invoked : y[1] >= w.from /\ y[2]}}
      BY <1>3 DEF LandedSince
    <3>4. CASE e[1] >= w.from /\ e[2]
      BY <3>1, <3>2, <3>3, <3>4
    <3>5. CASE ~(e[1] >= w.from /\ e[2])
      BY <3>1, <3>2, <3>3, <3>5
    <3> QED BY <3>4, <3>5
  <2>3. CASE tip - w.to < horizon
    BY <1>4, <1>6, <2>1, <2>3 DEF Stands
  <2>4. CASE tip - w.to >= horizon /\ L # {}
    <3>1. L \in SUBSET Nat /\ M \in SUBSET Nat /\ M # {}
      BY <1>1, <1>4, <1>6, <2>1, <2>2, <2>4
    <3>2. Min(L) \in L /\ \A m \in L : Min(L) <= m
      BY <2>4, <3>1, MinIs
    <3>3. Min(M) \in M /\ \A m \in M : Min(M) <= m
      BY <3>1, MinIs
    <3>4. PICK a, b \in Nat : a = Min(L) /\ b = Min(M)
      BY <3>1, <3>2, <3>3
    <3>5. a \in L /\ a <= tip /\ b \in M /\ (\A m \in L : a <= m) /\ (\A m \in M : b <= m)
      BY <1>1, <1>4, <3>2, <3>3, <3>4
    <3>6. a = b
      BY <1>1, <2>2, <3>4, <3>5
    <3> QED BY <1>4, <1>6, <2>1, <2>4, <3>1, <3>4, <3>6 DEF Stands
  <2>5. CASE tip - w.to >= horizon /\ L = {}
    <3>1. r \in {"not-due", "missed"}
      BY <1>4, <2>5
    <3>2. s \in {"not-due", "missed", "late"} \/ (s = "fired" /\ Tight(w))
      <4>1. CASE M = {}
        BY <1>6, <2>1, <2>5, <4>1
      <4>2. CASE M = {tip}
        <5>1. Min(M) = tip
          BY <1>1, <4>2, MinIs
        <5>2. s = IF tip <= w.to THEN "fired" ELSE "late"
          BY <1>6, <2>1, <2>5, <4>2, <5>1
        <5>3. tip <= w.to => horizon = 0 /\ tip = w.to
          BY <1>1, <2>5
        <5> QED BY <5>2, <5>3 DEF Tight
      <4> QED BY <2>2, <2>5, <4>1, <4>2
    <3> QED BY <3>1, <3>2 DEF Stands
  <2> QED BY <1>1, <2>3, <2>4, <2>5
<1> QED BY <1>2, <1>7, <1>8

(* The window an event opens when it opens one, and its verdict now.         *)
WindowFor(c) == [id |-> c, from |-> happened[c], to |-> happened[c] + Bound]

(* Without a horizon, the verdict was given in the ledger of the deadline.   *)
OnTheDay(c) == horizon = 0 /\ c \in atDeadline

(* What the verdict of ledger T on a window is against the one of now.       *)
Judged(c, w, T) ==
    /\ Stands(verdicts[c], ResolveWindow(w), OnTheDay(c))
    /\ verdicts[c] = "pending" \/ T - w.to >= horizon
    /\ T = w.to => c \in atDeadline

(* What was not delivered yet happened from T on, what was judged did so up  *)
(* to T and is planned, and every verdict stands against the one of now.     *)
SettledUpTo(T) ==
    /\ T <= tip
    /\ \A c \in DOMAIN happened : c \notin Range(feed) => happened[c] = NoLedger \/ happened[c] >= T
    /\ \A c \in DOMAIN verdicts : /\ c \in DOMAIN happened /\ happened[c] <= T /\ WindowFor(c) \in Plan
                                  /\ Judged(c, WindowFor(c), T)

(* What holds of the verification after every step.                          *)
VerdictsInv == ChainTyped /\ \E T \in Nat : SettledUpTo(T)

(* Verdicts that stand one after the other stand.                            *)
LEMMA StandsOn ==
    \A x, y, z, p, q : Stands(x, y, p) /\ Stands(y, z, q) /\ (q => p \/ x = "pending") =>
                        Stands(x, z, p)
BY DEF Stands

(* A planned window is the one of its event.                                 *)
LEMMA PlannedIs ==
    ASSUME ChainTyped
    PROVE  /\ \A w \in Plan : w.id \in DOMAIN happened /\ w = WindowFor(w.id)
           /\ \A c \in DOMAIN happened : /\ WindowFor(c).id = c /\ WindowFor(c).from = happened[c]
                                         /\ WindowFor(c).from \in Nat /\ WindowFor(c).to \in Nat
                                         /\ happened[c] <= tip
<1>1. ASSUME NEW w \in Plan PROVE w.id \in DOMAIN happened /\ w = WindowFor(w.id)
  <2>1. PICK i \in DOMAIN feed : w = WindowAt(i)
    BY PlanIsKnown DEF PlanKnown
  <2>2. w.id = feed[i] /\ feed[i] \in DOMAIN happened
    BY <2>1, WhenIs DEF WindowAt
  <2> QED BY <2>1, <2>2 DEF WindowAt, WindowFor, When
<1>2. \A c \in DOMAIN happened : happened[c] \in Nat /\ happened[c] <= tip
  BY DEF ChainTyped
<1>3. \A c \in DOMAIN happened : /\ WindowFor(c).id = c /\ WindowFor(c).from = happened[c]
                                 /\ WindowFor(c).from \in Nat /\ WindowFor(c).to \in Nat
  BY <1>2, VerificationAssumption DEF WindowFor
<1> QED BY <1>1, <1>2, <1>3

(* A step other than of verify.                                              *)
LEMMA SettledStays ==
    ASSUME ChainTyped, ChainTyped', NEW T \in Nat, SettledUpTo(T),
           \/ \E c \in Conditions : DeliverCondition(c) \/ \E l \in {tip, NoLedger} : ConditionOccurs(c, l)
           \/ (\E ok \in BOOLEAN : WorkerInvokes(ok)) \/ NextTip
    PROVE  SettledUpTo(T)'
<1>1. /\ T <= tip
      /\ \A c \in DOMAIN happened : c \notin Range(feed) => happened[c] = NoLedger \/ happened[c] >= T
      /\ \A c \in DOMAIN verdicts : /\ c \in DOMAIN happened /\ happened[c] <= T /\ WindowFor(c) \in Plan
                                    /\ Judged(c, WindowFor(c), T)
  BY DEF SettledUpTo
<1>2. UNCHANGED <<horizon, verdicts, atDeadline>>
  BY DEF DeliverCondition, ConditionOccurs, WorkerInvokes, NextTip
<1>3. tip \in Nat /\ tip' \in Nat /\ tip <= tip' /\ T <= tip'
  <2>1. tip \in Nat /\ tip' \in Nat
    BY DEF ChainTyped
  <2>2. tip' = tip \/ tip' = tip + 1
    BY DEF DeliverCondition, ConditionOccurs, WorkerInvokes, NextTip
  <2> QED BY <1>1, <2>1, <2>2
<1>4. /\ \A c \in DOMAIN happened : c \in DOMAIN happened' /\ happened'[c] = happened[c]
      /\ \A c \in DOMAIN happened' : c \in DOMAIN happened \/ (happened'[c] \in {tip, NoLedger})
  BY DEF DeliverCondition, ConditionOccurs, WorkerInvokes, NextTip
<1>5. feed' = feed \/ \E d \in DOMAIN happened : feed' = Append(feed, d)
  BY DEF DeliverCondition, ConditionOccurs, WorkerInvokes, NextTip
<1>6. Range(feed) \subseteq Range(feed')
  <2>1. CASE feed' = feed
    BY <2>1
  <2>2. ASSUME NEW d, feed' = Append(feed, d) PROVE Range(feed) \subseteq Range(feed')
    <3>1. PICK n \in Nat : n = Len(feed) /\ DOMAIN feed = 1..n
      BY DEF ChainTyped
    <3>2. DOMAIN feed' = 1..(n + 1) /\ \A i \in 1..n : feed'[i] = feed[i]
      BY <2>2, <3>1 DEF ChainTyped
    <3> QED BY <3>1, <3>2 DEF Range
  <2> QED BY <1>5, <2>1, <2>2
<1>7. \A c \in DOMAIN happened' : c \notin Range(feed') => happened'[c] = NoLedger \/ happened'[c] >= T
  BY <1>1, <1>4, <1>6
<1>8. ASSUME NEW c \in DOMAIN verdicts
      PROVE  /\ c \in DOMAIN happened' /\ happened'[c] <= T /\ WindowFor(c)' \in Plan'
             /\ Judged(c, WindowFor(c), T)'
  <2>1. PICK w : w = WindowFor(c)
    OBVIOUS
  <2>2. c \in DOMAIN happened /\ happened[c] <= T /\ w \in Plan /\ Judged(c, w, T)
    BY <1>1, <2>1
  <2>3. w.from = happened[c] /\ w.from \in Nat /\ w.to \in Nat
    BY <2>1, <2>2, PlannedIs
  <2>4. c \in DOMAIN happened' /\ happened'[c] = happened[c]
    BY <1>4, <2>2
  <2>5. WindowFor(c)' = w
    BY <2>1, <2>4 DEF WindowFor
  <2>6. w \in Plan'
    <3>1. feed' = feed \/ \E d : /\ feed' = Append(feed, d)
                                 /\ d \in Range(feed) \/ happened'[d] = NoLedger \/ happened'[d] >= T
      BY <1>1, <1>4, <1>5
    <3>2. w.from <= T
      BY <2>2, <2>3
    <3> QED BY <1>4, <2>2, <3>1, <3>2, WindowsStay
  <2>7. Stands(ResolveWindow(w), ResolveWindow(w)', Tight(w))
    <3>1. CASE (\E ok \in BOOLEAN : WorkerInvokes(ok)) \/ NextTip
      BY <2>3, <3>1, ResolveStands
    <3>2. CASE \E d \in Conditions : DeliverCondition(d) \/ \E l \in {tip, NoLedger} : ConditionOccurs(d, l)
      <4>1. tip' = tip /\ invoked' = invoked /\ horizon' = horizon
        BY <3>2 DEF DeliverCondition, ConditionOccurs
      <4>2. ResolveWindow(w)' = ResolveWindow(w)
        BY <4>1 DEF ResolveWindow
      <4> QED BY <4>2 DEF Stands
    <3> QED BY <3>1, <3>2
  <2>8. /\ Stands(verdicts[c], ResolveWindow(w), OnTheDay(c))
        /\ verdicts[c] = "pending" \/ T - w.to >= horizon
        /\ T = w.to => c \in atDeadline
    BY <2>2 DEF Judged
  <2>9. Tight(w) => OnTheDay(c) \/ verdicts[c] = "pending"
    BY <1>1, <1>3, <2>3, <2>8 DEF Tight, OnTheDay
  <2>10. Stands(verdicts[c], ResolveWindow(w)', OnTheDay(c))
    BY <2>7, <2>8, <2>9, StandsOn, Zenon
  <2>11. Judged(c, w, T)'
    BY <1>2, <2>8, <2>10 DEF Judged, OnTheDay
  <2>12. Judged(c, WindowFor(c), T)'
    BY <2>5, <2>11 DEF Judged, ResolveWindow
  <2> QED BY <2>2, <2>4, <2>5, <2>6, <2>12
<1> QED BY <1>2, <1>3, <1>7, <1>8 DEF SettledUpTo

(* verify judges every planned window as of now; earlier verdicts stand.     *)
LEMMA VerifyStands ==
    ASSUME ChainTyped, ChainTyped', NEW T \in Nat, SettledUpTo(T), Verify
    PROVE  /\ SettledUpTo(tip)'
           /\ \A c \in DOMAIN verdicts : c \in DOMAIN verdicts' /\ Stands(verdicts[c], verdicts'[c], OnTheDay(c))
<1>1. /\ tip' = tip /\ happened' = happened /\ feed' = feed /\ invoked' = invoked
      /\ horizon' = horizon /\ atDeadline' = {w.id : w \in {w \in Plan : w.to = tip}}
      /\ Range(feed) = DOMAIN happened
  BY DEF Verify
<1>2. tip \in Nat
  BY DEF ChainTyped
<1>3. DOMAIN verdicts' = {w.id : w \in Plan}
  BY DEF Verify
<1>4. \A w \in Plan : w.id \in DOMAIN happened /\ w = WindowFor(w.id)
  BY PlannedIs
<1>5. ASSUME NEW c \in DOMAIN verdicts'
      PROVE  /\ c \in DOMAIN happened /\ happened[c] <= tip /\ WindowFor(c) \in Plan
             /\ verdicts'[c] = ResolveWindow(WindowFor(c))
  <2>1. PICK w \in Plan : w.id = c
    BY <1>3
  <2>2. c \in DOMAIN happened /\ w = WindowFor(c) /\ happened[c] <= tip
    BY <1>4, <2>1, PlannedIs
  <2>3. PICK v : v = CHOOSE u \in Plan : u.id = c
    OBVIOUS
  <2>4. v \in Plan /\ v.id = c
    BY <2>1, <2>3
  <2>5. v = w
    BY <1>4, <2>2, <2>4
  <2>6. verdicts'[c] = ResolveWindow(v)
    BY <1>3, <2>3 DEF Verify
  <2> QED BY <2>1, <2>2, <2>5, <2>6
<1>6. ASSUME NEW c \in DOMAIN verdicts'
      PROVE  /\ c \in DOMAIN happened' /\ happened'[c] <= tip /\ WindowFor(c)' \in Plan'
             /\ Judged(c, WindowFor(c), tip)'
  <2>1. PICK w : w = WindowFor(c)
    OBVIOUS
  <2>2. WindowFor(c)' = w
    BY <1>1, <2>1 DEF WindowFor
  <2>3. w \in Plan /\ w.from <= tip
    BY <1>5, <2>1, PlannedIs
  <2>4. w \in Plan'
    BY <1>1, <1>2, <2>3, WindowsStay
  <2>5. ResolveWindow(WindowFor(c))' = ResolveWindow(w)
    BY <1>1, <2>2 DEF ResolveWindow
  <2>6. verdicts'[c] = ResolveWindow(w)
    BY <1>5, <2>1
  <2>7. ResolveWindow(w) = "pending" \/ tip - w.to >= horizon
    <3>1. w.from \in Nat /\ w.to \in Nat /\ horizon \in Nat
      BY <1>5, <2>1, PlannedIs DEF ChainTyped
    <3>2. Resolves(w)
      BY <3>1, ResolveIs DEF ResolvesAll
    <3> QED BY <1>2, <3>1, <3>2 DEF Resolves
  <2>8. tip = w.to => c \in atDeadline'
    <3>1. w.id = c
      BY <1>5, <2>1, PlannedIs
    <3> QED BY <1>1, <2>3, <3>1
  <2>9. Judged(c, WindowFor(c), tip)'
    BY <1>1, <2>2, <2>5, <2>6, <2>7, <2>8 DEF Judged, Stands
  <2> QED BY <1>1, <1>5, <2>2, <2>4, <2>9
<1>7. SettledUpTo(tip)'
  BY <1>1, <1>2, <1>6 DEF SettledUpTo
<1>8. ASSUME NEW c \in DOMAIN verdicts
      PROVE  c \in DOMAIN verdicts' /\ Stands(verdicts[c], verdicts'[c], OnTheDay(c))
  <2>1. /\ c \in DOMAIN happened /\ WindowFor(c) \in Plan
        /\ Stands(verdicts[c], ResolveWindow(WindowFor(c)), OnTheDay(c))
    BY DEF SettledUpTo, Judged
  <2>2. WindowFor(c).id = c
    BY <2>1, PlannedIs
  <2>3. c \in DOMAIN verdicts'
    BY <1>3, <2>1, <2>2
  <2> QED BY <1>5, <2>1, <2>3
<1> QED BY <1>7, <1>8

(* WorkerVerificationEngine: whatever the horizon, verifying again, with more*)
(* of the chain and more copies of the events, never takes back that a worker*)
(* fired or how late it was, never drops a window, never makes a settled one *)
(* pending, and finds a settled one fired in time only if that was so before *)
(* or it was judged, without a horizon, in the ledger of its deadline.       *)
THEOREM VerdictsAreFinal == VerificationSpec => VerdictsStand
<1>1. VerificationInit => VerdictsInv
  <2> SUFFICES ASSUME VerificationInit PROVE VerdictsInv
    OBVIOUS
  <2>1. ChainTyped
    BY ChainMoves
  <2>2. SettledUpTo(0)
    BY DEF VerificationInit, SettledUpTo
  <2> QED BY <2>1, <2>2 DEF VerdictsInv
<1> DEFINE Kept == \A c \in DOMAIN verdicts :
          /\ c \in DOMAIN verdicts'
          /\ verdicts[c] \in {"fired", "late"} => verdicts'[c] = verdicts[c]
          /\ verdicts'[c] = "pending" => verdicts[c] = "pending"
          /\ verdicts'[c] = "fired" => \/ verdicts[c] \in {"pending", "fired"}
                                       \/ horizon = 0 /\ c \in atDeadline
<1>2. VerdictsInv /\ [VerificationNext]_verificationVars => VerdictsInv' /\ Kept
  <2> SUFFICES ASSUME VerdictsInv, [VerificationNext]_verificationVars PROVE VerdictsInv' /\ Kept
    OBVIOUS
  <2>1. ChainTyped /\ ChainTyped'
    BY ChainMoves DEF VerdictsInv
  <2>2. PICK T \in Nat : SettledUpTo(T)
    BY DEF VerdictsInv
  <2>3. verdicts' = verdicts => Kept
    OBVIOUS
  <2>4. CASE Verify
    <3>1. /\ SettledUpTo(tip)'
          /\ \A c \in DOMAIN verdicts : c \in DOMAIN verdicts' /\ Stands(verdicts[c], verdicts'[c], OnTheDay(c))
      BY <2>1, <2>2, <2>4, VerifyStands
    <3>2. PICK n \in Nat : n = tip'
      BY <2>1 DEF ChainTyped
    <3>3. SettledUpTo(n)'
      BY <3>1, <3>2 DEF SettledUpTo
    <3> QED BY <2>1, <3>1, <3>3 DEF VerdictsInv, Stands, OnTheDay
  <2>5. CASE \/ \E c \in Conditions : DeliverCondition(c) \/ \E l \in {tip, NoLedger} : ConditionOccurs(c, l)
             \/ (\E ok \in BOOLEAN : WorkerInvokes(ok)) \/ NextTip
    <3>1. SettledUpTo(T)'
      BY <2>1, <2>2, <2>5, SettledStays
    <3>2. verdicts' = verdicts
      BY <2>5 DEF DeliverCondition, ConditionOccurs, WorkerInvokes, NextTip
    <3> QED BY <2>1, <2>3, <3>1, <3>2 DEF VerdictsInv
  <2>6. CASE UNCHANGED verificationVars
    <3>1. UNCHANGED <<tip, happened, feed, invoked, horizon, verdicts, atDeadline>>
      BY <2>6 DEF verificationVars
    <3>2. ASSUME NEW c \in DOMAIN verdicts
          PROVE  /\ c \in DOMAIN happened /\ happened[c] <= T /\ WindowFor(c)' \in Plan'
                 /\ Judged(c, WindowFor(c), T)'
      <4>1. PICK w : w = WindowFor(c)
        OBVIOUS
      <4>2. WindowFor(c)' = w
        BY <3>1, <4>1 DEF WindowFor
      <4>3. /\ c \in DOMAIN happened /\ happened[c] <= T /\ w \in Plan
            /\ Judged(c, w, T)
        BY <2>2, <4>1 DEF SettledUpTo
      <4>4. w \in Plan'
        <5>1. w.from <= T
          BY <2>1, <4>1, <4>3, PlannedIs
        <5> QED BY <2>1, <3>1, <4>3, <5>1, WindowsStay
      <4>5. Judged(c, WindowFor(c), T)'
        BY <3>1, <4>2, <4>3 DEF Judged, OnTheDay, ResolveWindow
      <4> QED BY <4>2, <4>3, <4>4, <4>5
    <3>3. SettledUpTo(T)'
      BY <2>2, <3>1, <3>2 DEF SettledUpTo
    <3> QED BY <2>1, <2>3, <3>1, <3>3 DEF VerdictsInv
  <2> QED BY <2>4, <2>5, <2>6 DEF VerificationNext
<1> QED BY <1>1, <1>2, PTL DEF VerificationSpec, VerdictsStand
=============================================================================
