------------------------ MODULE ShmBackingStoreProofs ------------------------
(***************************************************************************)
(* The pool of shared memory buffers, for every set of buffers and sizes,  *)
(* every size of the pool and any depth of nested paints.                  *)
(***************************************************************************)
EXTENDS ShmBackingStore, ListsProofs

\* What the compositor has and what it gives back are busy, and no buffer is both.
Lent == held \cup releases \subseteq mBusy /\ held \cap releases = {}

\* The back buffer is in the pool, and nobody else's while it is painted.
BackIsPooled ==
  /\ mBackBuffer \in Range(mBuffers) \cup {Null}
  /\ painting => mBackBuffer \in Range(mBuffers) \ mBusy /\ size[mBackBuffer] \in Sizes

\* Before the first configure event nothing is committed, so no paint stalls, and
\* what is queued is in the pool but while another one is painted.
BeforeConfigure ==
  ~configured => /\ ~exposed /\ mBusy = {} /\ stalls = <<>>
                 /\ ~painting => mQueuedBuffer \in Range(mBuffers) \cup {Null}

\* Between paints the back buffer has all that was drawn.
BackIsDrawn ==
  ~painting /\ drawn # Null =>
     mBackBuffer # Null /\ size[mBackBuffer] = drawn /\ mBackBuffer \in complete

Inv == TypeOK /\ Lent /\ BackIsPooled /\ BeforeConfigure /\ BackIsDrawn /\ KeepsContent

-----------------------------------------------------------------------------
(* The pool *)

\* getBuffer deletes what is free, and nothing that fits.
LEMMA DeletedProperties ==
  ASSUME TypeOK, NEW sz \in Sizes
  PROVE  /\ Deleted(sz) \cap mBusy = {}
         /\ \A i \in Fitting(sz) : mBuffers[i] \notin Deleted(sz)
         /\ \A b \in Range(mBuffers) : size[b] = sz => b \notin Deleted(sz)
         /\ mBusy = {} /\ Fitting(sz) = {} => Range(mBuffers) \subseteq Deleted(sz)
<1>1. mBuffers \in Seq(Buffers) /\ IsInjective(mBuffers) /\ DOMAIN mBuffers \subseteq Nat
  BY DEF TypeOK
<1>2. Deleted(sz) \cap mBusy = {}
  BY DEF Deleted
<1>3. ASSUME NEW i \in Fitting(sz), mBuffers[i] \in Deleted(sz)
      PROVE  FALSE
  <2>1. PICK j \in DOMAIN mBuffers : mBuffers[j] = mBuffers[i] /\ \A k \in Fitting(sz) : j < k
    BY <1>3 DEF Deleted
  <2>2. i \in DOMAIN mBuffers /\ j = i
    BY <1>1, <2>1 DEF Fitting, IsInjective
  <2>3. QED
    BY <1>1, <1>3, <2>1, <2>2
<1>4. ASSUME NEW b \in Range(mBuffers), size[b] = sz
      PROVE  b \notin Deleted(sz)
  <2>1. PICK i \in DOMAIN mBuffers : mBuffers[i] = b
    BY DEF Range
  <2>2. QED
    BY <1>2, <1>3, <1>4, <2>1 DEF Fitting
<1>5. mBusy = {} /\ Fitting(sz) = {} => Range(mBuffers) \subseteq Deleted(sz)
  BY DEF Deleted, Range
<1>6. QED
  BY <1>2, <1>3, <1>4, <1>5

LEMMA KeptProperties ==
  ASSUME TypeOK, NEW sz \in Sizes
  PROVE  /\ Kept(sz) \in Seq(Buffers) /\ IsInjective(Kept(sz))
         /\ Range(Kept(sz)) = Range(mBuffers) \ Deleted(sz)
BY WithoutIsSeq, WithoutKeepsDistinct DEF TypeOK, Kept

\* A list without duplicates is as long as what it holds is many.
LEMMA LengthBound ==
  ASSUME NEW S, NEW left \in Seq(S), NEW right \in Seq(S), IsInjective(left), IsInjective(right),
         NEW x, Range(left) \subseteq Range(right) \cup {x}
  PROVE  /\ Len(left) <= Len(right) + 1
         /\ x \in Range(right) => Len(left) <= Len(right)
<1>1. /\ Cardinality(Range(left)) = Len(left) /\ Cardinality(Range(right)) = Len(right)
      /\ Len(left) \in Nat /\ Len(right) \in Nat
  BY LengthOfDistinct
<1>2. IsFiniteSet(Range(right))
  <2>1. IsFiniteSet(1..Len(right)) /\ right \in Surjection(1..Len(right), Range(right))
    BY <1>1, FS_Interval DEF Range, Surjection
  <2>2. QED
    BY <2>1, FS_Surjection
<1>3. /\ IsFiniteSet(Range(right) \cup {x})
      /\ Cardinality(Range(right) \cup {x}) =
           IF x \in Range(right) THEN Len(right) ELSE Len(right) + 1
  BY <1>1, <1>2, FS_AddElement
<1>4. Cardinality(Range(left)) <= Cardinality(Range(right) \cup {x})
  BY <1>3, FS_Subset
<1>5. QED
  BY <1>1, <1>3, <1>4

\* The pool after getBuffer, with the buffer at the front: it is free, the busy
\* ones are there, and the pool has not grown too large.
LEMMA PoolProperties ==
  ASSUME TypeOK, NEW sz \in Sizes, NEW b \in Buffers, getBuffer(sz, b)
  PROVE  LET pool == <<b>> \o Without(Kept(sz), {b})
         IN  /\ pool \in Seq(Buffers) /\ IsInjective(pool) /\ Len(pool) <= MAX_BUFFERS
             /\ b \in Range(pool) \ mBusy /\ mBusy \subseteq Range(pool)
<1> DEFINE kept == Kept(sz)
           rest == Without(kept, {b})
           pool == <<b>> \o rest
<1>1. /\ kept \in Seq(Buffers) /\ IsInjective(kept)
      /\ Range(kept) = Range(mBuffers) \ Deleted(sz)
  BY KeptProperties
<1> HIDE DEF kept
<1>2. rest \in Seq(Buffers) /\ IsInjective(rest) /\ Range(rest) = Range(kept) \ {b}
  BY <1>1, WithoutIsSeq, WithoutKeepsDistinct
<1> HIDE DEF rest
<1>3. pool \in Seq(Buffers) /\ IsInjective(pool) /\ Range(pool) = Range(kept) \cup {b}
  BY <1>2, PrependProperties
<1> HIDE DEF pool
<1>4. mBusy \subseteq Range(kept)
  BY <1>1, DeletedProperties DEF TypeOK
<1>5. \/ b \in Range(kept) /\ b \notin mBusy
      \/ b \notin Range(kept) /\ Len(kept) < MAX_BUFFERS
  <2>1. CASE \E i \in Fitting(sz) : b = mBuffers[i]
    <3>1. PICK i \in Fitting(sz) : b = mBuffers[i]
      BY <2>1
    <3>2. b \in Range(mBuffers) /\ b \notin mBusy
      BY <3>1 DEF Fitting, Range
    <3>3. QED
      BY <1>1, <3>1, <3>2, DeletedProperties
  <2>2. CASE Len(Kept(sz)) < MAX_BUFFERS /\ b \notin Range(Kept(sz))
    BY <2>2 DEF kept
  <2>3. QED
    BY <2>1, <2>2 DEF getBuffer
<1>6. /\ Len(mBuffers) <= MAX_BUFFERS /\ MAX_BUFFERS \in Nat
      /\ mBuffers \in Seq(Buffers) /\ IsInjective(mBuffers)
  BY PoolAssumption DEF TypeOK
<1>7. Len(pool) <= MAX_BUFFERS
  <2>1. Len(pool) \in Nat /\ Len(kept) \in Nat /\ Len(mBuffers) \in Nat
    BY <1>1, <1>3, <1>6
  <2>2. CASE b \in Range(kept)
    <3>1. Range(pool) \subseteq Range(mBuffers) \cup {b} /\ b \in Range(mBuffers)
      BY <1>1, <1>3, <2>2
    <3>2. Len(pool) <= Len(mBuffers)
      BY <1>3, <1>6, <3>1, LengthBound
    <3>3. QED
      BY <1>6, <2>1, <3>2
  <2>3. CASE Len(kept) < MAX_BUFFERS
    <3>1. Len(pool) <= Len(kept) + 1
      BY <1>1, <1>3, LengthBound
    <3>2. QED
      BY <1>6, <2>1, <2>3, <3>1
  <2>4. QED
    BY <1>5, <2>2, <2>3
<1>8. QED
  BY <1>3, <1>4, <1>5, <1>7 DEF pool, rest, kept

\* While no buffer is busy every paint gets one.
LEMMA FreePoolHasBuffer ==
  ASSUME TypeOK, NEW sz \in Sizes, mBusy = {}
  PROVE  CanGetBuffer(sz)
<1>1. Buffers # {}
  BY PoolAssumption, FS_EmptySet
<1>2. CASE Fitting(sz) # {}
  <2>1. mBuffers \in Seq(Buffers) /\ Fitting(sz) \in SUBSET Nat /\ Fitting(sz) \subseteq DOMAIN mBuffers
    BY DEF TypeOK, Fitting
  <2>2. PICK i \in Fitting(sz) : \A k \in Fitting(sz) : i <= k
    BY <1>2, <2>1, Least
  <2>3. mBuffers[i] \in Buffers
    BY <2>1
  <2>4. QED
    BY <2>2, <2>3 DEF CanGetBuffer, getBuffer
<1>3. CASE Fitting(sz) = {}
  <2>1. Kept(sz) \in Seq(Buffers) /\ Range(Kept(sz)) = {}
    BY <1>3, KeptProperties, DeletedProperties
  <2>2. Len(Kept(sz)) = 0
    <3> DEFINE kept == Kept(sz)
    <3>1. kept \in Seq(Buffers) /\ Range(kept) = {}
      BY <2>1
    <3> HIDE DEF kept
    <3>2. DOMAIN kept = {} /\ DOMAIN kept = 1..Len(kept) /\ Len(kept) \in Nat
      BY <3>1 DEF Range
    <3>3. Len(kept) = 0
      BY <3>2
    <3>4. QED
      BY <3>3 DEF kept
  <2>3. 0 < MAX_BUFFERS
    BY PoolAssumption
  <2>4. QED
    BY <1>1, <1>3, <2>1, <2>2, <2>3 DEF CanGetBuffer, getBuffer
<1>4. QED
  BY <1>2, <1>3

\* What beginPaint makes of the pool, whether it gets a buffer or stalls.
LEMMA BeginPaintKeeps ==
  ASSUME Inv, ~painting, NEW sz \in Sizes, NEW waiting \in Seq(Sizes),
         Len(waiting) <= MaxNested \/ (CanGetBuffer(sz) /\ Len(waiting) <= MaxNested + 1),
         ~configured => waiting = <<>>,
         beginPaint(sz, waiting),
         UNCHANGED <<mRequestedSize, configured, exposed, mQueuedBuffer, flagVars, drawn, serverVars>>
  PROVE  Inv'
<1> USE DEF poolVars, flagVars, serverVars
<1>1. TypeOK /\ Lent /\ BackIsPooled /\ BeforeConfigure /\ BackIsDrawn
  BY DEF Inv
<1>2. ASSUME NEW b \in Buffers, getBuffer(sz, b),
             mBuffers' = <<b>> \o Without(Kept(sz), {b}), size' = [size EXCEPT ![b] = sz],
             complete' = CarriesOver(sz, b), mBackBuffer' = b, painting' = TRUE, stalls' = waiting
      PROVE  Inv'
  <2>1. /\ mBuffers' \in Seq(Buffers) /\ IsInjective(mBuffers') /\ Len(mBuffers') <= MAX_BUFFERS
        /\ b \in Range(mBuffers') \ mBusy /\ mBusy \subseteq Range(mBuffers')
    BY <1>1, <1>2, PoolProperties
  <2>2. size' \in [Buffers -> Sizes \cup {Null}] /\ size'[b] = sz
    BY <1>1, <1>2 DEF TypeOK
  <2>3. complete' \subseteq Buffers
    BY <1>1, <1>2 DEF TypeOK, CarriesOver
  <2>4. Len(waiting) <= MaxNested + 1
    <3>1. Len(waiting) \in Nat /\ MaxNested \in Nat
      BY PoolAssumption
    <3>2. QED
      BY <3>1
  <2>5. TypeOK'
    BY <1>1, <1>2, <2>1, <2>2, <2>3, <2>4 DEF TypeOK
  <2>6. Lent'
    BY <1>1 DEF Lent
  <2>7. BackIsPooled'
    BY <1>2, <2>1, <2>2 DEF BackIsPooled
  <2>8. BeforeConfigure' /\ BackIsDrawn'
    BY <1>1, <1>2 DEF BeforeConfigure, BackIsDrawn
  <2>9. ASSUME sz = drawn
        PROVE  b \in complete'
    <3>1. /\ mBackBuffer # Null /\ size[mBackBuffer] = sz /\ mBackBuffer \in complete
          /\ mBackBuffer \in Range(mBuffers)
      BY <1>1, <2>9, PoolAssumption DEF BackIsDrawn, BackIsPooled
    <3>2. mBackBuffer \in Range(Kept(sz))
      BY <1>1, <3>1, KeptProperties, DeletedProperties
    <3>3. QED
      BY <1>2, <3>1, <3>2 DEF CarriesOver
  <2>10. KeepsContent'
    BY <1>2, <2>2, <2>9 DEF KeepsContent
  <2>11. QED
    BY <2>5, <2>6, <2>7, <2>8, <2>10 DEF Inv
<1>3. CASE /\ ~CanGetBuffer(sz)
           /\ stalls' = Append(waiting, sz)
           /\ UNCHANGED <<poolVars, painting, complete>>
  <2>1. configured
    BY <1>1, <1>3, FreePoolHasBuffer DEF BeforeConfigure
  <2>2. stalls' \in Seq(Sizes) /\ Len(stalls') <= MaxNested + 1
    <3>1. Len(waiting) \in Nat /\ MaxNested \in Nat /\ Len(waiting) <= MaxNested
      BY <1>3, PoolAssumption
    <3>2. QED
      BY <1>3, <3>1
  <2>3. TypeOK'
    BY <1>1, <1>3, <2>2 DEF TypeOK
  <2>4. Lent' /\ BackIsPooled' /\ BeforeConfigure' /\ BackIsDrawn'
    BY <1>1, <1>3, <2>1 DEF Lent, BackIsPooled, BeforeConfigure, BackIsDrawn
  <2>5. KeepsContent'
    BY <1>3 DEF KeepsContent
  <2>6. QED
    BY <2>3, <2>4, <2>5 DEF Inv
<1>4. QED
  BY <1>2, <1>3 DEF beginPaint

-----------------------------------------------------------------------------
(* The steps *)

\* A commit of a buffer of the pool, which nobody paints any more.
LEMMA CommitKeeps ==
  ASSUME TypeOK, Lent, NEW b \in Range(mBuffers), commit(b), UNCHANGED <<mBuffers, releases>>
  PROVE  /\ Lent'
         /\ mCommitted' = mBusy' /\ mBusy' \subseteq Range(mBuffers)
         /\ held' \subseteq Buffers /\ shown' \in Buffers \cup {Null}
<1>1. b \in Buffers /\ mCommitted = mBusy /\ mBusy \subseteq Range(mBuffers)
  BY DEF TypeOK, Range
<1>2. CASE b \in mCommitted
  BY <1>1, <1>2 DEF commit, flagVars, Lent, TypeOK
<1>3. CASE b \notin mCommitted
  BY <1>1, <1>3 DEF commit, Lent, TypeOK
<1>4. QED
  BY <1>2, <1>3

LEMMA ConfigureKeeps == Inv /\ handleExpose => Inv'
<1> SUFFICES ASSUME Inv, handleExpose PROVE Inv'
  OBVIOUS
<1> USE DEF poolVars, flagVars, ghostVars
<1>1. TypeOK /\ Lent /\ BackIsPooled /\ BeforeConfigure /\ BackIsDrawn /\ KeepsContent
  BY DEF Inv
<1>2. /\ ~painting /\ ~painting' /\ configured' /\ exposed' \in BOOLEAN /\ mQueuedBuffer' = Null
      /\ UNCHANGED <<mRequestedSize, mBuffers, size, mBackBuffer, painting, stalls, drawn,
                     complete, releases>>
      /\ mQueuedBuffer \in Range(mBuffers) \cup {Null}
  BY <1>1 DEF handleExpose, BeforeConfigure
<1>3. /\ Lent'
      /\ mCommitted' = mBusy' /\ mBusy' \subseteq Range(mBuffers)
      /\ held' \subseteq Buffers /\ shown' \in Buffers \cup {Null}
  <2>1. CASE mQueuedBuffer = Null
    BY <1>1, <1>2, <2>1 DEF handleExpose, Lent, TypeOK
  <2>2. CASE mQueuedBuffer # Null
    BY <1>1, <1>2, <2>2, CommitKeeps DEF handleExpose
  <2>3. QED
    BY <2>1, <2>2
<1>4. TypeOK'
  BY <1>1, <1>2, <1>3 DEF TypeOK
<1>5. BackIsPooled' /\ BeforeConfigure' /\ BackIsDrawn' /\ KeepsContent'
  BY <1>1, <1>2 DEF BackIsPooled, BeforeConfigure, BackIsDrawn, KeepsContent
<1>6. QED
  BY <1>3, <1>4, <1>5 DEF Inv

LEMMA ExposureKeeps == Inv /\ ExposureChanges => Inv'
<1> SUFFICES ASSUME Inv, ExposureChanges PROVE Inv'
  OBVIOUS
<1>1. /\ configured' /\ ~painting /\ exposed' \in BOOLEAN /\ shown' \in Buffers \cup {Null}
      /\ UNCHANGED <<mRequestedSize, configured, mQueuedBuffer, mBuffers, size, mBackBuffer,
                     mBusy, mCommitted, painting, stalls, drawn, complete, held, releases>>
  BY DEF ExposureChanges, Inv, TypeOK, poolVars, flagVars, ghostVars
<1>2. TypeOK' /\ Lent' /\ BackIsPooled'
  BY <1>1 DEF Inv, TypeOK, Lent, BackIsPooled
<1>3. BeforeConfigure' /\ BackIsDrawn' /\ KeepsContent'
  BY <1>1 DEF Inv, BeforeConfigure, BackIsDrawn, KeepsContent
<1>4. QED
  BY <1>2, <1>3 DEF Inv

LEMMA ResizeKeeps == ASSUME NEW sz \in Sizes PROVE Inv /\ resize(sz) => Inv'
<1> SUFFICES ASSUME Inv, resize(sz) PROVE Inv'
  OBVIOUS
<1>1. /\ mRequestedSize' = sz
      /\ UNCHANGED <<configured, exposed, mQueuedBuffer, mBuffers, size, mBackBuffer,
                     mBusy, mCommitted, painting, stalls, drawn, complete, shown, held, releases>>
  BY DEF resize, poolVars, flagVars, ghostVars, serverVars
<1>2. TypeOK' /\ Lent' /\ BackIsPooled'
  BY <1>1 DEF Inv, TypeOK, Lent, BackIsPooled
<1>3. BeforeConfigure' /\ BackIsDrawn' /\ KeepsContent'
  BY <1>1 DEF Inv, BeforeConfigure, BackIsDrawn, KeepsContent
<1>4. QED
  BY <1>2, <1>3 DEF Inv

LEMMA PaintKeeps == Inv /\ (Paint \/ PaintNested \/ RetryPaint) => Inv'
<1> SUFFICES ASSUME Inv, Paint \/ PaintNested \/ RetryPaint PROVE Inv'
  OBVIOUS
<1>1. /\ mRequestedSize \in Sizes /\ stalls \in Seq(Sizes) /\ MaxNested \in Nat
      /\ Len(stalls) <= MaxNested + 1 /\ (~configured => stalls = <<>>)
  BY PoolAssumption DEF Inv, TypeOK, BeforeConfigure
<1>2. CASE Paint
  <2>1. <<>> \in Seq(Sizes) /\ Len(<<>>) <= MaxNested /\ ~painting
    BY <1>1, <1>2 DEF Paint, InLoop
  <2>2. QED
    BY <1>1, <1>2, <2>1, BeginPaintKeeps DEF Paint
<1>3. CASE PaintNested
  <2>1. Len(stalls) <= MaxNested /\ ~painting
    BY <1>1, <1>3 DEF PaintNested
  <2>2. QED
    BY <1>1, <1>3, <2>1, BeginPaintKeeps DEF PaintNested
<1>4. CASE RetryPaint
  <2>1. /\ ~painting /\ stalls # <<>> /\ CanGetBuffer(Last(stalls))
        /\ beginPaint(Last(stalls), Front(stalls))
        /\ UNCHANGED <<mRequestedSize, configured, exposed, mQueuedBuffer, flagVars, drawn,
                       serverVars>>
    BY <1>4 DEF RetryPaint
  <2>2. /\ Last(stalls) \in Sizes /\ Front(stalls) \in Seq(Sizes)
        /\ Len(Front(stalls)) <= MaxNested + 1
    <3>1. Len(stalls) \in Nat /\ Len(stalls) > 0
      BY <1>1, <2>1
    <3>2. stalls[Len(stalls)] \in Sizes
      BY <1>1, <3>1
    <3>3. /\ SubSeq(stalls, 1, Len(stalls) - 1) \in Seq(Sizes)
          /\ Len(SubSeq(stalls, 1, Len(stalls) - 1)) = Len(stalls) - 1
      <4>1. PICK m \in Nat : Len(stalls) = m + 1
        <5>1. Len(stalls) - 1 \in Nat /\ Len(stalls) = (Len(stalls) - 1) + 1
          BY <3>1
        <5>2. QED
          BY <5>1
      <4>2. m \in Int /\ 1 \in Int /\ Len(stalls) - 1 = m /\ (IF 1 <= m THEN m - 1 + 1 ELSE 0) = m
        BY <4>1
      <4>3. \A i \in 1..m : stalls[i] \in Sizes
        BY <1>1, <4>1
      <4>4. /\ SubSeq(stalls, 1, m) \in Seq(Sizes)
            /\ Len(SubSeq(stalls, 1, m)) = IF 1 <= m THEN m - 1 + 1 ELSE 0
        BY <4>2, <4>3, SubSeqProperties
      <4>5. QED
        BY <4>2, <4>4
    <3>4. QED
      BY <1>1, <3>1, <3>2, <3>3 DEF Last, Front
  <2>3. configured
    BY <1>1, <2>1
  <2>4. QED
    BY <2>1, <2>2, <2>3, BeginPaintKeeps
<1>5. QED
  BY <1>2, <1>3, <1>4

LEMMA EndPaintKeeps == Inv /\ EndPaint => Inv'
<1> SUFFICES ASSUME Inv, EndPaint PROVE Inv'
  OBVIOUS
<1> USE DEF poolVars, flagVars
<1>1. TypeOK /\ Lent /\ BackIsPooled /\ BeforeConfigure
  BY DEF Inv
<1>2. /\ painting /\ ~painting' /\ painting' \in BOOLEAN /\ mRequestedSize' \in Sizes
      /\ drawn' = size[mBackBuffer] /\ complete' = {mBackBuffer} /\ safeCommit(mBackBuffer)
      /\ UNCHANGED <<configured, exposed, mBuffers, size, mBackBuffer, stalls, releases>>
  BY <1>1 DEF EndPaint, TypeOK
<1>3. /\ mBackBuffer \in Range(mBuffers) /\ size[mBackBuffer] \in Sizes
      /\ mBackBuffer \in Buffers /\ mBackBuffer # Null
  BY <1>1, <1>2, PoolAssumption DEF BackIsPooled, TypeOK, Range
<1>4. /\ Lent'
      /\ mCommitted' = mBusy' /\ mBusy' \subseteq Range(mBuffers)
      /\ held' \subseteq Buffers /\ shown' \in Buffers \cup {Null}
      /\ mQueuedBuffer' \in Buffers \cup {Null}
  <2>1. CASE exposed
    BY <1>1, <1>2, <1>3, <2>1, CommitKeeps DEF safeCommit, TypeOK
  <2>2. CASE ~exposed
    BY <1>1, <1>2, <1>3, <2>2 DEF safeCommit, Lent, TypeOK
  <2>3. QED
    BY <2>1, <2>2
<1>5. TypeOK'
  BY <1>1, <1>2, <1>3, <1>4 DEF TypeOK
<1>6. BeforeConfigure'
  BY <1>1, <1>2, <1>3 DEF BeforeConfigure, safeCommit
<1>7. BackIsPooled' /\ BackIsDrawn' /\ KeepsContent'
  BY <1>1, <1>2, <1>3 DEF BackIsPooled, BackIsDrawn, KeepsContent
<1>8. QED
  BY <1>4, <1>5, <1>6, <1>7 DEF Inv

LEMMA FlushKeeps == Inv /\ FlushAgain => Inv'
<1> SUFFICES ASSUME Inv, FlushAgain PROVE Inv'
  OBVIOUS
<1> USE DEF poolVars, flagVars, ghostVars
<1>1. TypeOK /\ Lent /\ BackIsPooled /\ BeforeConfigure /\ BackIsDrawn
  BY DEF Inv
<1>2. /\ ~painting /\ mBackBuffer # Null /\ safeCommit(mBackBuffer)
      /\ UNCHANGED <<mRequestedSize, configured, exposed, mBuffers, size, mBackBuffer, painting,
                     stalls, drawn, complete, releases>>
  BY DEF FlushAgain, InLoop
<1>3. mBackBuffer \in Range(mBuffers) /\ mBackBuffer \in Buffers
  BY <1>1, <1>2 DEF BackIsPooled, TypeOK
<1>4. /\ Lent'
      /\ mCommitted' = mBusy' /\ mBusy' \subseteq Range(mBuffers)
      /\ held' \subseteq Buffers /\ shown' \in Buffers \cup {Null}
      /\ mQueuedBuffer' \in Buffers \cup {Null}
  <2>1. CASE exposed
    BY <1>1, <1>2, <1>3, <2>1, CommitKeeps DEF safeCommit, TypeOK
  <2>2. CASE ~exposed
    BY <1>1, <1>2, <1>3, <2>2 DEF safeCommit, Lent, TypeOK
  <2>3. QED
    BY <2>1, <2>2
<1>5. TypeOK'
  BY <1>1, <1>2, <1>4 DEF TypeOK
<1>6. BeforeConfigure'
  BY <1>1, <1>2, <1>3 DEF BeforeConfigure, safeCommit
<1>7. BackIsPooled' /\ BackIsDrawn' /\ KeepsContent'
  BY <1>1, <1>2 DEF BackIsPooled, BackIsDrawn, KeepsContent
<1>8. QED
  BY <1>4, <1>5, <1>6, <1>7 DEF Inv

LEMMA ReleaseKeeps ==
  ASSUME NEW b \in Buffers
  PROVE  Inv /\ (release(b) \/ SendRelease(b)) => Inv'
<1> SUFFICES ASSUME Inv, release(b) \/ SendRelease(b) PROVE Inv'
  OBVIOUS
<1> USE DEF poolVars, flagVars, ghostVars
<1>1. TypeOK /\ Lent /\ BackIsPooled /\ BeforeConfigure /\ BackIsDrawn /\ KeepsContent
  BY DEF Inv
<1>2. /\ UNCHANGED <<mRequestedSize, configured, exposed, mQueuedBuffer, mBuffers, size,
                     mBackBuffer, painting, stalls, drawn, complete, shown>>
      /\ mBusy' \subseteq mBusy /\ mCommitted' = mBusy' /\ (painting => mBusy' = mBusy)
      /\ Lent' /\ held' \subseteq Buffers /\ releases' \subseteq Buffers
  <2>1. CASE release(b)
    BY <1>1, <2>1 DEF release, Lent, TypeOK
  <2>2. CASE SendRelease(b)
    BY <1>1, <2>2 DEF SendRelease, Lent, TypeOK
  <2>3. QED
    BY <2>1, <2>2
<1>3. TypeOK' /\ BackIsPooled'
  BY <1>1, <1>2 DEF TypeOK, BackIsPooled
<1>4. BeforeConfigure' /\ BackIsDrawn' /\ KeepsContent'
  BY <1>1, <1>2 DEF BeforeConfigure, BackIsDrawn, KeepsContent
<1>5. QED
  BY <1>2, <1>3, <1>4 DEF Inv

LEMMA InitInv == Init => Inv
<1> SUFFICES ASSUME Init PROVE Inv
  OBVIOUS
<1>1. IsInjective(<<>>) /\ Range(<<>>) = {} /\ <<>> \in Seq(Buffers) /\ <<>> \in Seq(Sizes)
      /\ Len(<<>>) = 0
  BY DEF IsInjective, Range
<1>2. 0 <= MAX_BUFFERS /\ 0 <= MaxNested + 1
  BY PoolAssumption
<1>3. TypeOK
  BY <1>1, <1>2 DEF Init, TypeOK
<1>4. Lent /\ BackIsPooled /\ BeforeConfigure /\ BackIsDrawn /\ KeepsContent
  BY DEF Init, Lent, BackIsPooled, BeforeConfigure, BackIsDrawn, KeepsContent
<1>5. QED
  BY <1>3, <1>4 DEF Inv

LEMMA InvHolds == Spec => []Inv
<1>1. Inv /\ UNCHANGED vars => Inv'
  <2> SUFFICES ASSUME Inv, UNCHANGED vars PROVE Inv'
    OBVIOUS
  <2>1. UNCHANGED <<mRequestedSize, configured, exposed, mQueuedBuffer, mBuffers, size,
          mBackBuffer, mBusy, mCommitted, painting, stalls, drawn, complete, shown, held, releases>>
    BY DEF vars, poolVars, flagVars, ghostVars, serverVars
  <2>2. TypeOK' /\ Lent' /\ BackIsPooled'
    BY <2>1 DEF Inv, TypeOK, Lent, BackIsPooled
  <2>3. BeforeConfigure' /\ BackIsDrawn' /\ KeepsContent'
    BY <2>1 DEF Inv, BeforeConfigure, BackIsDrawn, KeepsContent
  <2>4. QED
    BY <2>2, <2>3 DEF Inv
<1>2. Inv /\ [Next]_vars => Inv'
  BY <1>1, ConfigureKeeps, ExposureKeeps, ResizeKeeps, PaintKeeps, EndPaintKeeps, FlushKeeps,
     ReleaseKeeps DEF Next
<1>3. QED
  BY <1>2, InitInv, PTL DEF Spec

-----------------------------------------------------------------------------
(* The theorems *)

\* Every variable keeps its type: the pool holds no buffer twice and no more than
\* MAX_BUFFERS, and a buffer is busy exactly while it is committed.
THEOREM TypeCorrect == Spec => []TypeOK
<1>1. Inv => TypeOK
  BY DEF Inv
<1>2. QED
  BY <1>1, InvHolds, PTL

\* No paint writes to a buffer that the compositor may read, or whose release has
\* not been dispatched.
THEOREM PaintIsPrivate == Spec => []PaintsOwnBuffer
<1>1. Inv => PaintsOwnBuffer
  BY DEF Inv, Lent, BackIsPooled, PaintsOwnBuffer
<1>2. QED
  BY <1>1, InvHolds, PTL

\* No buffer is deleted that the compositor has, or that is queued for the first
\* configure event.
THEOREM DeletedAreUnused == Spec => []UsedAreKept
<1>1. Inv => UsedAreKept
  BY DEF Inv, TypeOK, Lent, BeforeConfigure, UsedAreKept
<1>2. QED
  BY <1>1, InvHolds, PTL

\* A paint of the size of the last one starts with all that was drawn then, through
\* any stalls and paints inside paints.
THEOREM ContentIsCarried == Spec => []KeepsContent
<1>1. Inv => KeepsContent
  BY DEF Inv
<1>2. QED
  BY <1>1, InvHolds, PTL
=============================================================================
