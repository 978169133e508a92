------------------------- MODULE RateLimiterProofs -------------------------
(***************************************************************************)
(* Theorems about RateLimiter: what a fixed window lets through, for every *)
(* limit, window and number of keys, and for any hits at any moments.      *)
(***************************************************************************)
EXTENDS RateLimiter, SequenceTheorems, TLAPS

Entry == [at : Nat, hit : Nat, began : Nat]

(* The counter of a key that was ever used: its window is not over later   *)
(* than a window from now, and its first hit counts.                       *)
CounterOK(b) ==
  /\ hits[b] <= Max[b[1]] + 1
  /\ resetAt[b] <= now + Window[b[1]]
  /\ resetAt[b] = 0 \/ (resetAt[b] >= Window[b[1]] /\ hits[b] >= 1)

(* A hit that was let through: within its window, and within the limit.    *)
EntryOK(b, e) ==
  /\ e.hit \in 1..Max[b[1]]
  /\ e.began <= e.at /\ e.at < e.began + Window[b[1]]
  /\ e.at <= now
  /\ e.hit = 1 => e.at = e.began

(* Two hits that were let through fall into one window, where they are as  *)
(* far apart in its count as in the log, or into windows that do not meet. *)
PairOK(b, n, m) ==
  LET e == log[b][n]
      f == log[b][m]
  IN \/ e.began = f.began /\ f.hit >= e.hit + (m - n)
     \/ f.began >= e.began + Window[b[1]]

(* The same of a hit that was let through and the counter as it stands.    *)
TailOK(b, n) ==
  LET e == log[b][n]
  IN \/ /\ resetAt[b] = e.began + Window[b[1]]
        /\ hits[b] >= e.hit + (Len(log[b]) - n)
     \/ resetAt[b] >= e.began + 2 * Window[b[1]]

BucketOK(b) ==
  /\ CounterOK(b)
  /\ \A n \in 1..Len(log[b]) : EntryOK(b, log[b][n]) /\ TailOK(b, n)
  /\ \A n, m \in 1..Len(log[b]) : n < m => PairOK(b, n, m)

LimiterInv == LimiterTypeOK /\ \A b \in Bucket : BucketOK(b)

LEMMA LimitsTyped ==
  ASSUME NEW b \in Bucket
  PROVE  Max[b[1]] \in Nat \ {0} /\ Window[b[1]] \in Nat \ {0}
BY LimiterAssumption DEF Bucket

LEMMA InitInv == LimiterInit => LimiterInv
BY LimitsTyped DEF LimiterInit, LimiterInv, LimiterTypeOK, BucketOK, CounterOK

-----------------------------------------------------------------------------
(* What the script does to the counter of its key                          *)

LEMMA CountOfKey ==
  ASSUME LimiterInv, NEW b \in Bucket, Count(b)
  PROVE  /\ now' = now /\ hits' \in [Bucket -> Nat] /\ resetAt' \in [Bucket -> Nat]
         /\ \A c \in Bucket \ {b} : hits'[c] = hits[c] /\ resetAt'[c] = resetAt[c]
         /\ Hit(b) \in Nat \ {0} /\ Began(b) \in Nat
         /\ Began(b) <= now /\ now < Began(b) + Window[b[1]]
         /\ Hit(b) = 1 => Began(b) = now
         /\ hits'[b] = IF Admitted(b) THEN Hit(b) ELSE Max[b[1]] + 1
         /\ resetAt'[b] = Began(b) + Window[b[1]]
         /\ CounterOK(b)'
<1> DEFINE mx == Max[b[1]]
           wd == Window[b[1]]
<1>1. /\ now \in Nat /\ hits \in [Bucket -> Nat] /\ resetAt \in [Bucket -> Nat]
      /\ hits[b] \in Nat /\ resetAt[b] \in Nat /\ CounterOK(b)
      /\ mx \in Nat \ {0} /\ wd \in Nat \ {0}
  BY LimitsTyped DEF LimiterInv, LimiterTypeOK, BucketOK
<1>2. /\ Hit(b) \in Nat \ {0} /\ Began(b) \in Nat
      /\ Began(b) <= now /\ now < Began(b) + wd
      /\ Hit(b) = 1 => Began(b) = now
  BY <1>1 DEF Hit, Began, Expired, CounterOK
<1>3. /\ now' = now
      /\ hits' = [hits EXCEPT ![b] = IF Admitted(b) THEN Hit(b) ELSE mx + 1]
      /\ resetAt' = [resetAt EXCEPT ![b] = Began(b) + wd]
  BY DEF Count
<1>4. mx + 1 \in Nat /\ Began(b) + wd \in Nat
  BY <1>1, <1>2
<1> HIDE DEF mx, wd
<1>5. /\ hits' \in [Bucket -> Nat] /\ resetAt' \in [Bucket -> Nat]
      /\ \A c \in Bucket \ {b} : hits'[c] = hits[c] /\ resetAt'[c] = resetAt[c]
      /\ hits'[b] = IF Admitted(b) THEN Hit(b) ELSE mx + 1
      /\ resetAt'[b] = Began(b) + wd
  BY <1>1, <1>2, <1>3, <1>4
<1>6. CounterOK(b)'
  BY <1>1, <1>2, <1>3, <1>5 DEF CounterOK, Admitted, mx, wd
<1> QED
  BY <1>2, <1>3, <1>5, <1>6 DEF mx, wd

(* A hit that was let through before stays apart from the counter.         *)
LEMMA TailKept ==
  ASSUME LimiterInv, NEW b \in Bucket, Count(b), NEW n \in 1..Len(log[b])
  PROVE  LET e == log[b][n]
         IN \/ /\ Began(b) = e.began /\ Hit(b) >= e.hit + (Len(log[b]) + 1 - n)
               /\ hits'[b] >= e.hit + (Len(log[b]) - n)
            \/ Began(b) >= e.began + Window[b[1]]
<1> DEFINE e == log[b][n]
           mx == Max[b[1]]
           wd == Window[b[1]]
           gap == Len(log[b]) - n
<1>1. /\ now \in Nat /\ hits[b] \in Nat /\ resetAt[b] \in Nat
      /\ mx \in Nat \ {0} /\ wd \in Nat \ {0}
      /\ log[b] \in Seq(Entry)
      /\ CounterOK(b) /\ TailOK(b, n)
  BY LimitsTyped DEF LimiterInv, LimiterTypeOK, BucketOK, Entry
<1>2. e.began \in Nat /\ e.hit \in Nat /\ gap \in Nat
  <2>1. log[b] \in Seq(Entry) /\ Len(log[b]) \in Nat
    BY <1>1, LenProperties
  <2>2. e \in Entry
    BY <2>1, ElementOfSeq
  <2>3. e.began \in Nat /\ e.hit \in Nat
    BY <2>2 DEF Entry
  <2>4. gap \in Nat
    BY <2>1
  <2> QED
    BY <2>3, <2>4
<1>3. hits'[b] = IF Hit(b) <= mx THEN Hit(b) ELSE mx + 1
  BY CountOfKey DEF Admitted
<1>4. /\ hits[b] <= mx + 1
      /\ \/ resetAt[b] = e.began + wd /\ hits[b] >= e.hit + gap
         \/ resetAt[b] >= e.began + 2 * wd
  BY <1>1 DEF CounterOK, TailOK
<1>5. Len(log[b]) + 1 - n = gap + 1
  BY <1>1, LenProperties
<1> HIDE DEF e, mx, wd, gap
<1>6. \/ Began(b) = e.began /\ Hit(b) >= e.hit + (gap + 1) /\ hits'[b] >= e.hit + gap
      \/ Began(b) >= e.began + wd
  <2>1. CASE Expired(b)
    <3>1. resetAt[b] <= now /\ Began(b) = now
      BY <2>1 DEF Expired, Began
    <3>2. resetAt[b] >= e.began + wd
      BY <1>1, <1>2, <1>4
    <3> QED
      BY <1>1, <1>2, <3>1, <3>2
  <2>2. CASE ~Expired(b)
    <3>1. Hit(b) = hits[b] + 1 /\ Began(b) = resetAt[b] - wd
      BY <2>2 DEF Hit, Began, wd
    <3>2. hits'[b] >= hits[b]
      BY <1>1, <1>3, <1>4, <3>1
    <3>3. CASE resetAt[b] = e.began + wd /\ hits[b] >= e.hit + gap
      <4>1. Began(b) = e.began
        BY <1>1, <1>2, <3>1, <3>3
      <4>2. Hit(b) >= e.hit + (gap + 1)
        BY <1>1, <1>2, <3>1, <3>3
      <4>3. hits'[b] \in Nat
        BY CountOfKey
      <4>4. hits'[b] >= e.hit + gap
        BY <1>1, <1>2, <3>2, <3>3, <4>3
      <4> QED
        BY <4>1, <4>2, <4>4
    <3>4. CASE resetAt[b] >= e.began + 2 * wd
      BY <1>1, <1>2, <3>1, <3>4
    <3> QED
      BY <1>4, <3>3, <3>4
  <2> QED
    BY <2>1, <2>2
<1> QED
  BY <1>5, <1>6 DEF e, wd, gap

(* Nothing is disturbed by the clock, nor by the hits of another key.      *)
LEMMA Untouched ==
  ASSUME LimiterInv, NEW c \in Bucket, now' \in Nat, now <= now',
         hits'[c] = hits[c], resetAt'[c] = resetAt[c], log'[c] = log[c]
  PROVE  BucketOK(c)'
<1>1. /\ now \in Nat /\ resetAt[c] \in Nat /\ Window[c[1]] \in Nat
      /\ log[c] \in Seq(Entry) /\ BucketOK(c)
  BY LimitsTyped DEF LimiterInv, LimiterTypeOK, Entry
<1>2. CounterOK(c)'
  BY <1>1 DEF BucketOK, CounterOK
<1>3. ASSUME NEW n \in 1..Len(log[c])
      PROVE  EntryOK(c, log[c][n])' /\ TailOK(c, n)'
  <2>1. EntryOK(c, log[c][n]) /\ TailOK(c, n)
    BY <1>1 DEF BucketOK
  <2>2. log[c][n] \in Entry
    BY <1>1, ElementOfSeq
  <2>3. log[c][n].at \in Nat
    BY <2>2 DEF Entry
  <2>4. log[c][n].at <= now'
    BY <1>1, <2>1, <2>3 DEF EntryOK
  <2> QED
    BY <2>1, <2>4 DEF EntryOK, TailOK
<1>4. \A n, m \in 1..Len(log[c]) : n < m => PairOK(c, n, m)'
  BY <1>1 DEF BucketOK, PairOK
<1> QED
  BY <1>2, <1>3, <1>4 DEF BucketOK

LEMMA WasteKeeps ==
  ASSUME LimiterInv, NEW b \in Bucket, Waste(b)
  PROVE  BucketOK(b)'
<1>1. /\ Count(b) /\ log' = log
  BY DEF Waste
<1>2. /\ log[b] \in Seq(Entry) /\ BucketOK(b) /\ Window[b[1]] \in Nat \ {0}
  BY LimitsTyped DEF LimiterInv, LimiterTypeOK, Entry
<1>3. /\ CounterOK(b)' /\ now' = now
      /\ resetAt'[b] = Began(b) + Window[b[1]] /\ Began(b) \in Nat
  BY <1>1, CountOfKey
<1>4. ASSUME NEW n \in 1..Len(log[b])
      PROVE  EntryOK(b, log[b][n])' /\ TailOK(b, n)'
  <2>1. EntryOK(b, log[b][n])'
    BY <1>1, <1>2, <1>3 DEF BucketOK, EntryOK
  <2>2. log[b][n] \in Entry
    BY <1>2, ElementOfSeq
  <2>3. log[b][n].began \in Nat
    BY <2>2 DEF Entry
  <2>4. \/ /\ Began(b) = log[b][n].began
           /\ hits'[b] >= log[b][n].hit + (Len(log[b]) - n)
        \/ Began(b) >= log[b][n].began + Window[b[1]]
    BY <1>1, TailKept
  <2>5. CASE /\ Began(b) = log[b][n].began
             /\ hits'[b] >= log[b][n].hit + (Len(log[b]) - n)
    <3>1. resetAt'[b] = log[b][n].began + Window[b[1]]
      BY <1>3, <2>5
    <3> QED
      BY <1>1, <2>1, <2>5, <3>1 DEF TailOK
  <2>6. CASE Began(b) >= log[b][n].began + Window[b[1]]
    <3>1. resetAt'[b] >= log[b][n].began + 2 * Window[b[1]]
      BY <1>2, <1>3, <2>3, <2>6
    <3> QED
      BY <1>1, <2>1, <3>1 DEF TailOK
  <2> QED
    BY <2>4, <2>5, <2>6
<1>5. \A n, m \in 1..Len(log[b]) : n < m => PairOK(b, n, m)'
  BY <1>1, <1>2 DEF BucketOK, PairOK
<1> QED
  BY <1>1, <1>3, <1>4, <1>5 DEF BucketOK

(* The log after a hit was let through.                                    *)
LEMMA PassLogs ==
  ASSUME LimiterInv, NEW b \in Bucket, Pass(b)
  PROVE  LET e == [at |-> now, hit |-> Hit(b), began |-> Began(b)]
         IN /\ e \in Entry
            /\ log' \in [Bucket -> Seq(Entry)]
            /\ \A c \in Bucket \ {b} : log'[c] = log[c]
            /\ Len(log[b]) \in Nat /\ Len(log'[b]) = Len(log[b]) + 1
            /\ \A n \in 1..Len(log[b]) : log'[b][n] = log[b][n]
            /\ log'[b][Len(log[b]) + 1] = e
<1> DEFINE e == [at |-> now, hit |-> Hit(b), began |-> Began(b)]
<1>1. log \in [Bucket -> Seq(Entry)] /\ now \in Nat
  BY DEF LimiterInv, LimiterTypeOK, Entry
<1>2. e \in Entry
  BY <1>1, CountOfKey DEF Pass, Entry
<1>3. log' = [log EXCEPT ![b] = Append(log[b], e)]
  BY DEF Pass
<1> HIDE DEF e
<1>4. /\ Append(log[b], e) \in Seq(Entry)
      /\ Len(Append(log[b], e)) = Len(log[b]) + 1
      /\ \A i \in 1..Len(log[b]) : Append(log[b], e)[i] = log[b][i]
      /\ Append(log[b], e)[Len(log[b]) + 1] = e
  BY <1>1, <1>2, AppendProperties
<1>5. /\ log' \in [Bucket -> Seq(Entry)]
      /\ log'[b] = Append(log[b], e)
      /\ \A c \in Bucket \ {b} : log'[c] = log[c]
  BY <1>1, <1>3, <1>4
<1>6. Len(log[b]) \in Nat
  BY <1>1, LenProperties
<1> QED
  BY <1>2, <1>4, <1>5, <1>6 DEF e

LEMMA PassKeeps ==
  ASSUME LimiterInv, NEW b \in Bucket, Pass(b)
  PROVE  BucketOK(b)'
<1> DEFINE wd == Window[b[1]]
<1>0. PICK len \in Nat, new \in Entry :
        /\ len = Len(log[b])
        /\ new = [at |-> now, hit |-> Hit(b), began |-> Began(b)]
  BY PassLogs
<1>1. Count(b) /\ Admitted(b)
  BY DEF Pass
<1>2. /\ log[b] \in Seq(Entry) /\ BucketOK(b)
      /\ wd \in Nat \ {0} /\ Max[b[1]] \in Nat \ {0}
  BY LimitsTyped DEF LimiterInv, LimiterTypeOK, Entry
<1>3. /\ CounterOK(b)' /\ now' = now
      /\ resetAt'[b] = Began(b) + wd /\ hits'[b] = Hit(b)
      /\ Hit(b) \in Nat \ {0} /\ Began(b) \in Nat /\ now \in Nat
      /\ Began(b) <= now /\ now < Began(b) + wd
      /\ Hit(b) = 1 => Began(b) = now
      /\ Hit(b) <= Max[b[1]]
  BY <1>1, CountOfKey DEF Admitted, LimiterInv, LimiterTypeOK
<1>4. /\ Len(log'[b]) = len + 1
      /\ \A n \in 1..len : log'[b][n] = log[b][n]
      /\ log'[b][len + 1] = new
  BY <1>0, PassLogs
<1>5. ASSUME NEW n \in 1..len
      PROVE  /\ EntryOK(b, log[b][n])' /\ TailOK(b, n)'
             /\ PairOK(b, n, len + 1)'
  <2>1. log[b][n] \in Entry
    BY <1>0, <1>2, ElementOfSeq
  <2>2. log[b][n].began \in Nat /\ log[b][n].hit \in Nat
    BY <2>1 DEF Entry
  <2>3. EntryOK(b, log[b][n])'
    BY <1>0, <1>2, <1>3, <1>4 DEF BucketOK, EntryOK
  <2>4. \/ Began(b) = log[b][n].began /\ Hit(b) >= log[b][n].hit + (len + 1 - n)
        \/ Began(b) >= log[b][n].began + wd
    BY <1>0, <1>1, TailKept
  <2>5. TailOK(b, n)'
    <3>1. CASE Began(b) = log[b][n].began /\ Hit(b) >= log[b][n].hit + (len + 1 - n)
      BY <1>3, <1>4, <3>1 DEF TailOK
    <3>2. CASE Began(b) >= log[b][n].began + wd
      <4>1. PICK first \in Nat, second \in Nat, w \in Nat :
              first = log[b][n].began /\ second = Began(b) /\ w = wd
        BY <1>2, <1>3, <2>2
      <4>2. second + w >= first + 2 * w
        BY <3>2, <4>1
      <4>3. resetAt'[b] >= log[b][n].began + 2 * wd
        BY <1>3, <4>1, <4>2
      <4> QED
        BY <1>4, <4>3 DEF TailOK
    <3> QED
      BY <2>4, <3>1, <3>2
  <2>6. PairOK(b, n, len + 1)'
    <3>1. new.hit = Hit(b) /\ new.began = Began(b)
      BY <1>0
    <3>2. len + 1 - n = (len + 1) - n
      OBVIOUS
    <3>3. \/ log[b][n].began = new.began /\ new.hit >= log[b][n].hit + ((len + 1) - n)
          \/ new.began >= log[b][n].began + wd
      BY <2>4, <3>1
    <3> QED
      BY <1>4, <3>3 DEF PairOK
  <2> QED
    BY <2>3, <2>5, <2>6
<1>6. EntryOK(b, log[b][len + 1])' /\ TailOK(b, len + 1)'
  <2>1. new.at = now /\ new.hit = Hit(b) /\ new.began = Began(b)
    BY <1>0
  <2>2. EntryOK(b, new)'
    <3>1. Hit(b) \in 1..Max[b[1]]
      BY <1>2, <1>3
    <3> QED
      BY <1>3, <2>1, <3>1 DEF EntryOK
  <2>3. hits'[b] >= new.hit + (len + 1 - (len + 1))
    BY <1>3, <1>4, <2>1
  <2>4. TailOK(b, len + 1)'
    BY <1>3, <1>4, <2>1, <2>3 DEF TailOK
  <2> QED
    BY <1>4, <2>2, <2>4
<1>7. ASSUME NEW n \in 1..(len + 1), NEW m \in 1..(len + 1), n < m
      PROVE  PairOK(b, n, m)'
  <2>1. CASE m = len + 1
    <3>1. n \in 1..len
      BY <1>4, <1>7, <2>1
    <3> QED
      BY <1>5, <2>1, <3>1
  <2>2. CASE m \in 1..len
    <3>1. n \in 1..len
      BY <1>4, <1>7, <2>2
    <3> QED
      BY <1>0, <1>2, <1>4, <1>7, <2>2, <3>1 DEF BucketOK, PairOK
  <2> QED
    BY <1>4, <2>1, <2>2
<1>8. \A n \in 1..(len + 1) : EntryOK(b, log[b][n])' /\ TailOK(b, n)'
  <2>1. \A n \in 1..(len + 1) : n \in 1..len \/ n = len + 1
    BY <1>4
  <2> QED
    BY <1>5, <1>6, <2>1
<1> QED
  BY <1>3, <1>4, <1>7, <1>8 DEF BucketOK

-----------------------------------------------------------------------------
(* The invariant                                                           *)

LEMMA StepKeeps ==
  ASSUME LimiterInv, LimiterNext
  PROVE  LimiterInv'
<1>1. /\ now \in Nat /\ hits \in [Bucket -> Nat] /\ resetAt \in [Bucket -> Nat]
      /\ log \in [Bucket -> Seq(Entry)]
  BY DEF LimiterInv, LimiterTypeOK, Entry
<1>2. CASE Tick
  <2>1. /\ now' \in Nat /\ now <= now'
        /\ hits' = hits /\ resetAt' = resetAt /\ log' = log
    BY <1>1, <1>2 DEF Tick
  <2>2. ASSUME NEW c \in Bucket PROVE BucketOK(c)'
    BY <2>1, Untouched
  <2> QED
    BY <1>1, <2>1, <2>2 DEF LimiterInv, LimiterTypeOK, Entry
<1>3. ASSUME NEW b \in Bucket, Pass(b) PROVE LimiterInv'
  <2>1. Count(b)
    BY <1>3 DEF Pass
  <2>2. LimiterTypeOK'
    BY <1>1, <1>3, <2>1, CountOfKey, PassLogs DEF LimiterTypeOK, Entry
  <2>3. ASSUME NEW c \in Bucket \ {b} PROVE BucketOK(c)'
    <3>1. /\ hits'[c] = hits[c] /\ resetAt'[c] = resetAt[c] /\ log'[c] = log[c]
          /\ now' = now
      BY <1>3, <2>1, CountOfKey, PassLogs
    <3> QED
      BY <1>1, <3>1, Untouched
  <2>4. BucketOK(b)'
    BY <1>3, PassKeeps
  <2> QED
    BY <2>2, <2>3, <2>4 DEF LimiterInv, Bucket
<1>4. ASSUME NEW b \in Bucket, Waste(b) PROVE LimiterInv'
  <2>1. Count(b) /\ log' = log
    BY <1>4 DEF Waste
  <2>2. LimiterTypeOK'
    BY <1>1, <2>1, CountOfKey DEF LimiterTypeOK, Entry
  <2>3. ASSUME NEW c \in Bucket \ {b} PROVE BucketOK(c)'
    <3>1. /\ hits'[c] = hits[c] /\ resetAt'[c] = resetAt[c] /\ log'[c] = log[c]
          /\ now' = now
      BY <2>1, CountOfKey
    <3> QED
      BY <1>1, <3>1, Untouched
  <2>4. BucketOK(b)'
    BY <1>4, WasteKeeps
  <2> QED
    BY <2>2, <2>3, <2>4 DEF LimiterInv, Bucket
<1> QED
  BY <1>2, <1>3, <1>4 DEF LimiterNext

LEMMA StutterKeeps ==
  ASSUME LimiterInv, UNCHANGED limiterVars
  PROVE  LimiterInv'
<1>1. now' = now /\ hits' = hits /\ resetAt' = resetAt /\ log' = log
  BY DEF limiterVars
<1>2. LimiterTypeOK'
  BY <1>1 DEF LimiterInv, LimiterTypeOK
<1>3. ASSUME NEW c \in Bucket PROVE BucketOK(c)'
  BY <1>1, Untouched DEF LimiterInv, LimiterTypeOK
<1> QED
  BY <1>2, <1>3 DEF LimiterInv, Bucket

LEMMA LimiterInvariant == LimiterSpec => []LimiterInv
<1>1. LimiterInit => LimiterInv
  BY InitInv
<1>2. LimiterInv /\ [LimiterNext]_limiterVars => LimiterInv'
  BY StepKeeps, StutterKeeps
<1> QED
  BY <1>1, <1>2, PTL DEF LimiterSpec

(* The counters have their types for every set of limits.                  *)
THEOREM LimiterTypeCorrect == LimiterSpec => []LimiterTypeOK
<1>1. LimiterInv => LimiterTypeOK
  BY DEF LimiterInv
<1> QED
  BY <1>1, LimiterInvariant, PTL

-----------------------------------------------------------------------------
(* Of 2 max hits in a row the first and the last are a window apart.  The  *)
(* hit k that comes max after the first is in a later window.  If the last *)
(* one, m, is in a third, that is enough.  Otherwise k began its window,   *)
(* and the hit before it lies in the window of the first, which the first  *)
(* then began, or in a window between the two.                             *)
LEMMA WindowsApart ==
  ASSUME LimiterInv, NEW b \in Bucket, NEW n \in 1..Len(log[b]),
         n + 2 * Max[b[1]] - 1 <= Len(log[b])
  PROVE  log[b][n + 2 * Max[b[1]] - 1].at - log[b][n].at >= Window[b[1]]
<1>0. PICK len \in Nat, mx \in Nat \ {0}, wd \in Nat \ {0} :
        len = Len(log[b]) /\ mx = Max[b[1]] /\ wd = Window[b[1]]
  <2>1. log[b] \in Seq(Entry)
    BY DEF LimiterInv, LimiterTypeOK, Entry
  <2>2. Len(log[b]) \in Nat
    BY <2>1, LenProperties
  <2> QED
    BY <2>2, LimitsTyped
<1>a. n \in 1..len /\ n + 2 * mx - 1 <= len
  BY <1>0
<1>1. PICK m \in 1..len, k \in 1..len, j \in 1..len :
        n \in 1..len /\ m = n + 2 * mx - 1 /\ k = n + mx /\ j = k - 1
  <2>1. n + 2 * mx - 1 \in 1..len /\ n + mx \in 1..len /\ (n + mx) - 1 \in 1..len
    BY <1>a
  <2> QED
    BY <1>a, <2>1
<1>2. ASSUME NEW i \in 1..len
      PROVE  /\ log[b][i].at \in Nat /\ log[b][i].began \in Nat
             /\ log[b][i].hit \in 1..mx
             /\ log[b][i].began <= log[b][i].at
             /\ log[b][i].at < log[b][i].began + wd
             /\ log[b][i].hit = 1 => log[b][i].at = log[b][i].began
  <2>1. log[b] \in Seq(Entry)
    BY DEF LimiterInv, LimiterTypeOK, Entry
  <2>2. log[b][i] \in Entry
    BY <1>0, <2>1, ElementOfSeq
  <2>3. EntryOK(b, log[b][i])
    BY <1>0 DEF LimiterInv, BucketOK
  <2> QED
    BY <1>0, <2>2, <2>3 DEF Entry, EntryOK
<1>3. ASSUME NEW i \in 1..len, NEW l \in 1..len, i < l
      PROVE  \/ /\ log[b][i].began = log[b][l].began
                /\ log[b][l].hit >= log[b][i].hit + (l - i)
             \/ log[b][l].began >= log[b][i].began + wd
  <2>1. BucketOK(b)
    BY DEF LimiterInv
  <2>2. PairOK(b, i, l)
    BY <1>0, <1>3, <2>1 DEF BucketOK
  <2> QED
    BY <1>0, <2>2 DEF PairOK
<1>4. n \in 1..len /\ n < k /\ k - n = mx /\ (m = k \/ k < m) /\ m - k = mx - 1
  <2>1. n \in 1..len /\ n < k /\ k - n = mx
    BY <1>1
  <2>2. m - k = mx - 1
    BY <1>1
  <2> QED
    BY <2>1, <2>2
<1>5. PICK atN \in Nat, atM \in Nat, beganN \in Nat, beganJ \in Nat, beganK \in Nat,
           beganM \in Nat, hitN \in 1..mx, hitJ \in 1..mx, hitK \in 1..mx, hitM \in 1..mx :
        /\ atN = log[b][n].at /\ beganN = log[b][n].began /\ hitN = log[b][n].hit
        /\ beganJ = log[b][j].began /\ hitJ = log[b][j].hit
        /\ beganK = log[b][k].began /\ hitK = log[b][k].hit
        /\ atM = log[b][m].at /\ beganM = log[b][m].began /\ hitM = log[b][m].hit
  BY <1>2, <1>4
<1>6. /\ atN < beganN + wd /\ (hitN = 1 => atN = beganN)
      /\ beganM <= atM
  BY <1>2, <1>4, <1>5
<1>7. (beganN = beganK /\ hitK >= hitN + mx) \/ beganK >= beganN + wd
  BY <1>3, <1>4, <1>5
<1>8. \/ m = k /\ beganM = beganK /\ hitM = hitK /\ mx = 1
      \/ beganK = beganM /\ hitM >= hitK + (mx - 1)
      \/ beganM >= beganK + wd
  <2>1. CASE m = k
    <3>1. mx = 1
      BY <1>4, <2>1
    <3> QED
      BY <1>5, <2>1, <3>1
  <2>2. CASE k < m
    <3>1. \/ /\ log[b][k].began = log[b][m].began
             /\ log[b][m].hit >= log[b][k].hit + (m - k)
          \/ log[b][m].began >= log[b][k].began + wd
      BY <1>3, <2>2
    <3>2. m - k = mx - 1
      BY <1>4
    <3> QED
      BY <1>5, <3>1, <3>2
  <2>3. m = k \/ k < m
    BY <1>4
  <2> QED
    BY <2>1, <2>2, <2>3
<1>9. (beganJ = beganK /\ hitK >= hitJ + 1) \/ beganK >= beganJ + wd
  <2>1. j < k /\ k - j = 1
    BY <1>1
  <2> QED
    BY <1>3, <1>5, <2>1
<1>10. \/ beganJ = beganN /\ hitJ >= hitN + (mx - 1)
       \/ beganJ >= beganN + wd
  <2>1. CASE j = n
    <3>1. mx = 1
      BY <1>1, <2>1
    <3>2. beganJ = beganN /\ hitJ = hitN
      BY <1>5, <2>1
    <3> QED
      BY <3>1, <3>2
  <2>2. CASE n < j
    <3>1. j - n = mx - 1
      BY <1>1
    <3> QED
      BY <1>3, <1>4, <1>5, <2>2, <3>1
  <2>3. j = n \/ n < j
    BY <1>1
  <2> QED
    BY <2>1, <2>2, <2>3
<1>11. beganK >= beganN + wd
  BY <1>7
<1>12. beganM >= beganN + 2 * wd \/ (hitK = 1 /\ beganM = beganK)
  <2>1. CASE m = k /\ beganM = beganK /\ hitM = hitK /\ mx = 1
    BY <2>1
  <2>2. CASE beganK = beganM /\ hitM >= hitK + (mx - 1)
    <3>1. hitK <= 1
      BY <2>2
    <3> QED
      BY <2>2, <3>1
  <2>3. CASE beganM >= beganK + wd
    BY <1>11, <2>3
  <2> QED
    BY <1>8, <2>1, <2>2, <2>3
<1>13. CASE beganM >= beganN + 2 * wd
  <2>1. atM - atN >= wd
    BY <1>6, <1>13
  <2>2. log[b][m].at - log[b][n].at >= Window[b[1]]
    BY <1>0, <1>5, <2>1
  <2> QED
    BY <1>0, <1>1, <2>2
<1>14. CASE hitK = 1 /\ beganM = beganK
  <2>1. beganK >= beganJ + wd
    BY <1>9, <1>14
  <2>2. \/ beganM >= beganN + 2 * wd
        \/ hitN = 1 /\ beganM >= beganN + wd
    BY <1>10, <1>14, <2>1
  <2>3. atM - atN >= wd
    BY <1>6, <2>2
  <2>4. log[b][m].at - log[b][n].at >= Window[b[1]]
    BY <1>0, <1>5, <2>3
  <2> QED
    BY <1>0, <1>1, <2>4
<1> QED
  BY <1>12, <1>13, <1>14

(* However hits fall around the end of a window, and with commands that    *)
(* were sent again, 2 max - 1 hits of one key pass within a window of time *)
(* and the next one does not.                                              *)
THEOREM BurstIsBounded == LimiterSpec => []BurstBounded
<1>1. LimiterInv => BurstBounded
  BY WindowsApart DEF BurstBounded
<1> QED
  BY <1>1, LimiterInvariant, PTL

=============================================================================
