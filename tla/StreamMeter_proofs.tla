-------------------------- MODULE StreamMeter_proofs --------------------------
(***************************************************************************)
(* The measurements of a stream are consistent, for every interval, omit   *)
(* window, deadline, block size and limit: its rows add up to its receipt  *)
(* and tile the time since the first byte, its omit window is split off    *)
(* exactly, and a limited loop stays within its limit.                     *)
(***************************************************************************)
EXTENDS StreamMeter, TLAPS

\* The receipt's time stamps and the reporter's clock.  The reporter never runs
\* ahead of the stream: the interval it collects has started by the last byte.
ClockInv ==
    /\ firstByteAt = None <=> lastByteAt = None
    /\ firstByteAt = None =>
          /\ bytes = 0 /\ bytesOmit = 0 /\ bytesIn = 0 /\ printed = 0
          /\ firstMeasuredAt = None /\ boundary = None /\ rows = <<>>
    /\ firstByteAt # None => firstByteAt <= lastByteAt /\ lastByteAt <= now
    /\ role \in Reporting /\ firstByteAt # None => boundary # None
    /\ boundary # None =>
          boundary - Interval >= firstByteAt /\ boundary - Interval <= lastByteAt

\* Every byte of a reporting stream is in a row or in the current interval.
BytesInv == role \in Reporting => printed + bytesIn = bytes

\* While the loop runs the next row starts where the last one ended.
NextRowInv ==
    pc = "loop" /\ boundary # None =>
        boundary - Interval - firstByteAt = (IF rows = <<>> THEN 0 ELSE rows[Len(rows)].end)

NoRowsInv == boundary = None => rows = <<>>

MeterInv ==
    TypeOK /\ ClockInv /\ BytesInv /\ NextRowInv /\ NoRowsInv
    /\ RowsTile /\ RowsAddUp /\ OmitSplit

-----------------------------------------------------------------------------

\* The boundary a call of on_bytes compares with: the first call sets it.
Bound(t) == IF boundary = None THEN FirstBoundary(t) ELSE boundary

\* Arithmetic the steps below cite.
LEMMA Behind == \A a, b, c \in Nat : ~(a - b < c) => b + c <= a
    OBVIOUS

\* The arithmetic of a row: from the boundary less an interval to the boundary.
LEMMA Within ==
    \A b, i, f, t \in Nat :
        b - i >= f /\ b <= t =>
            /\ b - i - f \in Nat /\ b - f \in Nat /\ b - i - f <= b - f
            /\ b + i \in Nat /\ b + i - i >= f /\ b + i - i <= t
            /\ b - f <= t - f
    OBVIOUS

\* A call moves a natural number of bytes, and one that sends at most a block.
LEMMA ChunkBound ==
    ASSUME NEW n \in 1 .. Chunk
    PROVE  n \in Nat /\ n > 0 /\ (role \in Limited \cup Paced => n <= Blk)
    BY MeterAssumption DEF Chunk, Sending

\* A count of whole blocks below the limit leaves the bytes below it.
LEMMA BlocksBelow ==
    ASSUME NEW b \in Nat, NEW m \in Nat, NEW k \in Nat, k > 0, b \div k < m
    PROVE  b < m * k
<1>1. b \div k \in Nat /\ b = k * (b \div k) + (b % k) /\ b % k \in 0 .. k - 1
    OBVIOUS
<1>2. PICK q \in Nat : q = b \div k
    BY <1>1
<1>3. b < q * k + k
    BY <1>1, <1>2
<1>4. q + 1 <= m
    BY <1>2
<1>5. (q + 1) * k <= m * k
    BY <1>4
<1> QED
    BY <1>3, <1>5

\* Nothing has been transferred and no row printed.
LEMMA InitInv == Init => MeterInv /\ WithinLimit
<1> SUFFICES ASSUME Init PROVE MeterInv /\ WithinLimit
    OBVIOUS
<1>1. TypeOK
    BY MeterAssumption DEF Init, TypeOK, Instant, Row
<1>2. ClockInv /\ BytesInv /\ NextRowInv /\ NoRowsInv
    BY MeterAssumption DEF Init, ClockInv, BytesInv, NextRowInv, NoRowsInv
<1>3. RowsTile /\ RowsAddUp /\ OmitSplit /\ WithinLimit
    BY MeterAssumption DEF Init, RowsTile, RowsAddUp, OmitSplit, WithinLimit
<1> QED
    BY <1>1, <1>2, <1>3, Zenon DEF MeterInv

\* A transfer moves the receipt as recv_stream_bytes and its kin do.
LEMMA TransferReceipt ==
    ASSUME MeterInv, NEW n \in 1 .. Chunk, NEW t \in now .. MaxTime, Transfer(n, t)
    PROVE  /\ n \in Nat /\ n > 0 /\ t \in Nat /\ t >= now
           /\ role' = role /\ given' = given /\ pc' = pc /\ pc = "loop" /\ now' = t /\ slept' \in Nat
           /\ bytes' = bytes + n /\ bytes' \in Nat
           /\ lastByteAt' = t
           /\ firstByteAt' \in Nat /\ firstByteAt' <= t
           /\ firstByteAt # None => firstByteAt' = firstByteAt /\ lastByteAt \in Nat /\ lastByteAt <= t
           /\ firstByteAt = None => firstByteAt' = t
           /\ bytesOmit' \in Nat /\ firstMeasuredAt' \in Instant
           /\ None \notin Nat
<1>1. n \in Nat /\ n > 0 /\ t \in Nat /\ t >= now /\ None \notin Nat
    BY MeterAssumption, ChunkBound DEF MeterInv, TypeOK
<1>2. role' = role /\ given' = given /\ pc' = pc /\ pc = "loop" /\ now' = t /\ bytes' = bytes + n /\ lastByteAt' = t
      /\ firstByteAt' = IF firstByteAt = None THEN t ELSE firstByteAt
    BY Zenon DEF Transfer
<1>3. bytes' \in Nat
    BY <1>1, <1>2 DEF MeterInv, TypeOK
<1>4. /\ firstByteAt' \in Nat /\ firstByteAt' <= t
      /\ firstByteAt # None => firstByteAt' = firstByteAt /\ lastByteAt \in Nat /\ lastByteAt <= t
      /\ firstByteAt = None => firstByteAt' = t
    BY <1>1, <1>2 DEF MeterInv, TypeOK, ClockInv, Instant
<1>5. bytesOmit' \in Nat /\ firstMeasuredAt' \in Instant
    BY <1>1 DEF Transfer, MeterInv, TypeOK, Instant
<1>6. slept' \in Nat
    BY Zenon DEF Transfer, MeterInv, TypeOK
<1> QED
    BY <1>1, <1>2, <1>3, <1>4, <1>5, <1>6, Zenon

\* A transfer counts its bytes in or out of the omit window, and its time stamp with them.
LEMMA TransferOmit ==
    ASSUME MeterInv, NEW n \in 1 .. Chunk, NEW t \in now .. MaxTime, Transfer(n, t)
    PROVE  OmitSplit'
<1>1. /\ n \in Nat /\ n > 0 /\ t \in Nat /\ bytes' = bytes + n /\ lastByteAt' = t
      /\ firstByteAt' \in Nat /\ None \notin Nat
      /\ firstByteAt # None => firstByteAt' = firstByteAt /\ lastByteAt <= t
    BY TransferReceipt, Zenon
<1>2. bytes \in Nat /\ bytesOmit \in Nat /\ Omit \in Nat /\ firstMeasuredAt \in Instant
    BY MeterAssumption, Zenon DEF MeterInv, TypeOK
<1>3. OmitSplit /\ (firstByteAt = None => firstMeasuredAt = None)
    BY Zenon DEF MeterInv, ClockInv
<1>4. lastByteAt \in Nat \/ firstByteAt = None
    BY Zenon DEF MeterInv, ClockInv, TypeOK, Instant
<1>5. CASE InOmit(t, firstByteAt')
    <2>1. bytesOmit' = bytesOmit + n /\ firstMeasuredAt' = firstMeasuredAt
        BY <1>5, Zenon DEF Transfer
    <2>2. bytesOmit' <= bytes' /\ (firstMeasuredAt' # None <=> bytes' > bytesOmit')
        BY <1>1, <1>2, <1>3, <2>1 DEF OmitSplit
    <2>3. ASSUME firstMeasuredAt # None
          PROVE  firstByteAt' + Omit <= firstMeasuredAt /\ firstMeasuredAt <= t
        <3>1. firstByteAt # None /\ lastByteAt \in Nat /\ firstMeasuredAt \in Nat
            BY <1>2, <1>3, <1>4, <2>3, Zenon DEF Instant
        <3> QED
            BY <1>1, <1>2, <1>3, <2>3, <3>1 DEF OmitSplit
    <2> QED
        BY <1>1, <2>1, <2>2, <2>3, Zenon DEF OmitSplit
<1>6. CASE ~InOmit(t, firstByteAt')
    <2>1. /\ bytesOmit' = bytesOmit
          /\ firstMeasuredAt' = IF firstMeasuredAt = None THEN t ELSE firstMeasuredAt
        BY <1>6, Zenon DEF Transfer
    <2>2. firstByteAt' + Omit <= t
        <3>1. ~(t - firstByteAt' < Omit)
            BY <1>6, Zenon DEF InOmit
        <3>2. t \in Nat /\ firstByteAt' \in Nat /\ Omit \in Nat
            BY <1>1, <1>2, Zenon
        <3> QED
            BY <3>1, <3>2, Behind, Zenon
    <2>3. bytesOmit' <= bytes' /\ bytes' > bytesOmit' /\ firstMeasuredAt' # None
        BY <1>1, <1>2, <1>3, <2>1 DEF OmitSplit
    <2>4. CASE firstMeasuredAt = None
        BY <1>1, <2>1, <2>2, <2>3, <2>4 DEF OmitSplit
    <2>5. CASE firstMeasuredAt # None
        <3>1. firstByteAt # None /\ lastByteAt \in Nat /\ firstMeasuredAt \in Nat
            BY <1>2, <1>3, <1>4, <2>5, Zenon DEF Instant
        <3>2. firstByteAt' + Omit <= firstMeasuredAt /\ firstMeasuredAt <= t
            BY <1>1, <1>2, <1>3, <2>5, <3>1 DEF OmitSplit
        <3> QED
            BY <1>1, <2>1, <2>3, <2>5, <3>2, Zenon DEF OmitSplit
    <2> QED
        BY <2>4, <2>5, Zenon
<1> QED
    BY <1>5, <1>6, Zenon

\* The limits are looked at before every send, and a send moves at most a block.
LEMMA TransferLimit ==
    ASSUME MeterInv, WithinLimit, NEW n \in 1 .. Chunk, NEW t \in now .. MaxTime, Transfer(n, t)
    PROVE  WithinLimit'
<1>1. role' = role /\ given' = given /\ bytes' = bytes + n
    BY TransferReceipt, Zenon
<1> SUFFICES ASSUME role \in Limited
             PROVE  /\ "-n" \in given => bytes + n < MaxBytes + Blk
                    /\ "-k" \in given => bytes + n < MaxBlocks * Blk + Blk
    BY <1>1, Zenon DEF WithinLimit
<1>2. /\ "-n" \in given => bytes < MaxBytes
      /\ "-k" \in given => bytes \div Blk < MaxBlocks
    BY Zenon DEF Transfer, MaySend
<1>3. /\ bytes \in Nat /\ Blk \in Nat /\ Blk > 0 /\ MaxBytes \in Nat /\ MaxBlocks \in Nat
    BY MeterAssumption DEF MeterInv, TypeOK
<1>4. n \in Nat /\ n <= Blk
    BY ChunkBound, Zenon
<1>5. "-n" \in given => bytes + n < MaxBytes + Blk
    BY <1>2, <1>3, <1>4
<1>6. ASSUME "-k" \in given PROVE bytes + n < MaxBlocks * Blk + Blk
    <2>1. bytes < MaxBlocks * Blk
        BY <1>2, <1>3, <1>6, BlocksBelow
    <2>2. MaxBlocks * Blk \in Nat
        BY <1>3
    <2> QED
        BY <1>3, <1>4, <2>1, <2>2
<1> QED
    BY <1>5, <1>6, Zenon

\* What a call of on_bytes does to the reporter, and the facts it starts from.
LEMMA TransferReporter ==
    ASSUME MeterInv, NEW n \in 1 .. Chunk, NEW t \in now .. MaxTime, Transfer(n, t),
           role \in Reporting
    PROVE  /\ Bound(t) \in Nat
           /\ Bound(t) - Interval >= firstByteAt'
           /\ Bound(t) - Interval <= t
           /\ Bound(t) - Interval - firstByteAt' =
                 (IF rows = <<>> THEN 0 ELSE rows[Len(rows)].end)
           /\ OnBytes(n, t, firstByteAt', Bound(t))
<1>1. /\ t \in Nat /\ firstByteAt' \in Nat /\ firstByteAt' <= t /\ pc = "loop"
      /\ firstByteAt # None => firstByteAt' = firstByteAt /\ lastByteAt \in Nat /\ lastByteAt <= t
      /\ firstByteAt = None => firstByteAt' = t
    BY TransferReceipt, Zenon
<1>2. Interval \in Nat /\ None \notin Nat
    BY MeterAssumption
<1>3. OnBytes(n, t, firstByteAt', Bound(t))
    BY Zenon DEF Transfer, Bound
<1>4. CASE firstByteAt = None
    <2>1. boundary = None /\ rows = <<>>
        BY <1>4, Zenon DEF MeterInv, ClockInv
    <2>2. Bound(t) = t + Interval
        BY <2>1, Zenon DEF Bound, FirstBoundary
    <2> QED
        BY <1>1, <1>2, <1>3, <1>4, <2>1, <2>2
<1>5. CASE firstByteAt # None
    <2>1. boundary # None /\ boundary \in Nat
        BY <1>5, Zenon DEF MeterInv, ClockInv, TypeOK, Instant
    <2>2. Bound(t) = boundary
        BY <2>1, Zenon DEF Bound
    <2>3. boundary - Interval >= firstByteAt /\ boundary - Interval <= lastByteAt
        BY <2>1, Zenon DEF MeterInv, ClockInv
    <2>4. boundary - Interval - firstByteAt = (IF rows = <<>> THEN 0 ELSE rows[Len(rows)].end)
        BY <1>1, <2>1, Zenon DEF MeterInv, NextRowInv
    <2>5. boundary - Interval <= t
        BY <1>1, <1>2, <1>5, <2>1, <2>3
    <2> QED
        BY <1>1, <1>3, <1>5, <2>1, <2>2, <2>3, <2>4, <2>5, Zenon
<1> QED
    BY <1>4, <1>5, Zenon

\* Appending a row that starts where the last one ended keeps the tiling, if the
\* stream's span has not shrunk.
LEMMA TileExtends ==
    ASSUME NEW rs \in Seq(Row), NEW r \in Row, NEW old \in Int, NEW span \in Int, old <= span,
           \A k \in 1 .. Len(rs) :
               /\ rs[k].start = (IF k = 1 THEN 0 ELSE rs[k - 1].end)
               /\ rs[k].start <= rs[k].end
               /\ rs[k].end <= old,
           r.start = (IF rs = <<>> THEN 0 ELSE rs[Len(rs)].end),
           r.start <= r.end, r.end <= span
    PROVE  LET new == Append(rs, r)
           IN  \A k \in 1 .. Len(new) :
                  /\ new[k].start = (IF k = 1 THEN 0 ELSE new[k - 1].end)
                  /\ new[k].start <= new[k].end
                  /\ new[k].end <= span
<1> DEFINE new == Append(rs, r)
<1>1. Len(new) = Len(rs) + 1 /\ Len(rs) \in Nat /\ new[Len(rs) + 1] = r
      /\ \A k \in 1 .. Len(rs) : new[k] = rs[k] /\ rs[k] \in Row
    OBVIOUS
<1>2. ASSUME NEW k \in 1 .. Len(rs)
      PROVE  /\ new[k].start = (IF k = 1 THEN 0 ELSE new[k - 1].end)
             /\ new[k].start <= new[k].end
             /\ new[k].end <= span
    <2>1. new[k] = rs[k] /\ rs[k].end \in Nat /\ rs[k].end <= old /\ rs[k].start <= rs[k].end
        BY <1>1, <1>2, Zenon DEF Row
    <2>2. k # 1 => new[k - 1] = rs[k - 1]
        BY <1>1, <1>2
    <2>3. rs[k].end <= span
        BY <2>1
    <2> QED
        BY <1>2, <2>1, <2>2, <2>3, Zenon
<1>3. ASSUME NEW k \in 1 .. Len(new), k = Len(rs) + 1
      PROVE  new[k].start = (IF k = 1 THEN 0 ELSE new[k - 1].end)
    <2>1. CASE rs = <<>>
        BY <1>1, <1>3, <2>1
    <2>2. CASE rs # <<>>
        <3>1. Len(rs) \in 1 .. Len(rs) /\ k # 1 /\ k - 1 = Len(rs)
            BY <1>1, <1>3, <2>2
        <3> QED
            BY <1>1, <1>3, <2>2, <3>1, Zenon
    <2> QED
        BY <2>1, <2>2, Zenon
<1>4. ASSUME NEW k \in 1 .. Len(new)
      PROVE  k \in 1 .. Len(rs) \/ k = Len(rs) + 1
    BY <1>1
<1> HIDE DEF new
<1>5. \A k \in 1 .. Len(new) :
          /\ new[k].start = (IF k = 1 THEN 0 ELSE new[k - 1].end)
          /\ new[k].start <= new[k].end
          /\ new[k].end <= span
    BY <1>1, <1>2, <1>3, <1>4, Zenon
<1> QED
    BY <1>5, Zenon DEF new

\* A transfer closes at most one row (IntervalReporter::on_bytes), which starts where the
\* last one ended.
LEMMA TransferRows ==
    ASSUME MeterInv, NEW n \in 1 .. Chunk, NEW t \in now .. MaxTime, Transfer(n, t)
    PROVE  MeterInv'
<1> USE DEF Instant
<1>1. /\ n \in Nat /\ n > 0 /\ t \in Nat /\ t >= now
      /\ role' = role /\ given' = given /\ pc' = pc /\ pc = "loop" /\ now' = t /\ slept' \in Nat
      /\ bytes' = bytes + n /\ bytes' \in Nat
      /\ lastByteAt' = t
      /\ firstByteAt' \in Nat /\ firstByteAt' <= t
      /\ firstByteAt # None => firstByteAt' = firstByteAt /\ lastByteAt \in Nat /\ lastByteAt <= t
      /\ bytesOmit' \in Nat /\ firstMeasuredAt' \in Instant
      /\ None \notin Nat
    BY TransferReceipt, Zenon
<1>2. /\ role \in Roles /\ given \in SUBSET {"-n", "-k"} /\ bytes \in Nat /\ bytesIn \in Nat /\ printed \in Nat
      /\ rows \in Seq(Row) /\ boundary \in Instant /\ firstByteAt \in Instant
      /\ Interval \in Nat
    BY MeterAssumption, Zenon DEF MeterInv, TypeOK
<1>3. OmitSplit'
    BY TransferOmit, Zenon
<1>4. RowsAddUp'
    BY <1>1, Zenon DEF RowsAddUp
<1>5. firstByteAt = None => rows = <<>>
    BY Zenon DEF MeterInv, ClockInv
<1>6. CASE role \notin Reporting
    <2>1. boundary' = boundary /\ bytesIn' = bytesIn /\ rows' = rows /\ printed' = printed
        BY <1>6, Zenon DEF Transfer, reporter
    <2>2. TypeOK'
        BY <1>1, <1>2, <2>1, Zenon DEF TypeOK
    <2>3. firstByteAt = None => boundary = None
        BY Zenon DEF MeterInv, ClockInv
    <2>4. boundary # None =>
              /\ boundary \in Nat /\ firstByteAt # None /\ lastByteAt \in Nat /\ lastByteAt <= t
              /\ boundary - Interval >= firstByteAt' /\ boundary - Interval <= lastByteAt
        BY <1>1, <1>2, <2>3, Zenon DEF MeterInv, ClockInv
    <2>5. boundary # None => boundary - Interval >= firstByteAt' /\ boundary - Interval <= t
        BY <1>1, <1>2, <2>4
    <2>6. ClockInv'
        BY <1>1, <1>6, <2>1, <2>5 DEF ClockInv
    <2>7. BytesInv' /\ NoRowsInv'
        BY <1>1, <1>6, <2>1, Zenon DEF BytesInv, NoRowsInv, MeterInv
    <2>8. NextRowInv'
        BY <1>1, <2>1, <2>4, Zenon DEF NextRowInv, MeterInv
    <2>9. RowsTile'
        <3>1. CASE firstByteAt = None
            BY <1>5, <2>1, <3>1 DEF RowsTile
        <3>2. CASE firstByteAt # None
            <4>0. /\ firstByteAt' = firstByteAt /\ firstByteAt' \in Nat /\ t \in Nat
                  /\ lastByteAt \in Nat /\ lastByteAt <= t
                BY <1>1, <3>2, Zenon
            <4>1. ASSUME NEW k \in 1 .. Len(rows)
                  PROVE  rows[k].end <= t - firstByteAt'
                <5>1. rows[k] \in Row /\ rows[k].end <= lastByteAt - firstByteAt
                    BY <1>2, <4>1 DEF MeterInv, RowsTile
                <5>2. rows[k].end \in Nat
                    BY <5>1, Zenon DEF Row
                <5> QED
                    BY <4>0, <5>1, <5>2
            <4> QED
                BY <1>1, <2>1, <4>1, Zenon DEF MeterInv, RowsTile
        <3> QED
            BY <3>1, <3>2, Zenon
    <2> QED
        BY <1>3, <1>4, <2>2, <2>6, <2>7, <2>8, <2>9, Zenon DEF MeterInv
<1>7. CASE role \in Reporting
    <2> DEFINE b == Bound(t)
               start == b - Interval - firstByteAt'
    <2>1. /\ b \in Nat /\ b - Interval >= firstByteAt' /\ b - Interval <= t
          /\ start = (IF rows = <<>> THEN 0 ELSE rows[Len(rows)].end)
          /\ OnBytes(n, t, firstByteAt', b)
        BY <1>7, TransferReporter, Zenon
    <2>2. printed + bytesIn = bytes
        BY <1>7, Zenon DEF MeterInv, BytesInv
    <2> HIDE DEF b
    <2>3. CASE t < b
        <3>1. bytesIn' = bytesIn + n /\ boundary' = b /\ rows' = rows /\ printed' = printed
            BY <1>1, <2>1, <2>3 DEF OnBytes
        <3>2. TypeOK'
            BY <1>1, <1>2, <2>1, <3>1 DEF TypeOK
        <3>3. ClockInv'
            BY <1>1, <2>1, <3>1 DEF ClockInv
        <3>4. BytesInv' /\ NoRowsInv'
            <4>1. printed + (bytesIn + n) = bytes + n
                BY <1>1, <1>2, <2>2
            <4>2. BytesInv'
                BY <1>1, <3>1, <4>1, Zenon DEF BytesInv
            <4>3. boundary' # None
                BY <1>1, <2>1, <3>1, Zenon
            <4> QED
                BY <4>2, <4>3, Zenon DEF NoRowsInv
        <3>5. NextRowInv'
            BY <1>1, <2>1, <3>1, Zenon DEF NextRowInv
        <3>6. RowsTile'
            <4>1. CASE firstByteAt = None
                BY <1>5, <3>1, <4>1 DEF RowsTile
            <4>2. CASE firstByteAt # None
                <5>0. /\ firstByteAt' = firstByteAt /\ firstByteAt' \in Nat /\ t \in Nat
                      /\ lastByteAt \in Nat /\ lastByteAt <= t
                    BY <1>1, <4>2, Zenon
                <5>1. ASSUME NEW k \in 1 .. Len(rows)
                      PROVE  rows[k].end <= t - firstByteAt'
                    <6>1. rows[k] \in Row /\ rows[k].end <= lastByteAt - firstByteAt
                        BY <1>2, <5>1 DEF MeterInv, RowsTile
                    <6>2. rows[k].end \in Nat
                        BY <6>1, Zenon DEF Row
                    <6> QED
                        BY <5>0, <6>1, <6>2
                <5> QED
                    BY <1>1, <3>1, <5>1, Zenon DEF MeterInv, RowsTile
            <4> QED
                BY <4>1, <4>2, Zenon
        <3> QED
            BY <1>3, <1>4, <3>2, <3>3, <3>4, <3>5, <3>6, Zenon DEF MeterInv
    <2>4. CASE t >= b
        <3> DEFINE r == [start |-> start, end |-> b - firstByteAt', bytes |-> bytesIn + n]
        <3>1. /\ bytesIn' = 0 /\ boundary' = b + Interval
              /\ rows' = Append(rows, r) /\ printed' = printed + (bytesIn + n)
            BY <2>1, <2>4, Zenon DEF OnBytes, PrintRow
        <3>2. start \in Nat /\ b - firstByteAt' \in Nat /\ start <= b - firstByteAt'
              /\ b + Interval \in Nat /\ b + Interval - Interval >= firstByteAt'
              /\ b + Interval - Interval <= t /\ b - firstByteAt' <= t - firstByteAt'
            BY <1>1, <1>2, <2>1, <2>4, Within, Zenon
        <3>3. r \in Row
            BY <1>1, <1>2, <3>2 DEF Row
        <3>4. TypeOK'
            <4>1. rows' \in Seq(Row)
                BY <1>2, <3>1, <3>3
            <4>2. bytesIn' \in Nat /\ printed' \in Nat /\ boundary' \in Nat
                BY <1>1, <1>2, <2>1, <3>1
            <4> QED
                BY <1>1, <1>2, <4>1, <4>2, Zenon DEF TypeOK
        <3>5. ClockInv'
            <4>1. firstByteAt' # None /\ lastByteAt' # None /\ boundary' # None
                BY <1>1, <3>1, <3>2, Zenon
            <4>2. boundary' - Interval >= firstByteAt' /\ boundary' - Interval <= lastByteAt'
                <5>1. boundary' = b + Interval /\ lastByteAt' = t
                    BY <1>1, <3>1, Zenon
                <5>2. b \in Nat /\ Interval \in Nat /\ t \in Nat /\ firstByteAt' \in Nat
                      /\ b >= firstByteAt' /\ b <= t
                    BY <1>1, <1>2, <2>1, <2>4
                <5> QED
                    BY <5>1, <5>2
            <4>3. firstByteAt' <= lastByteAt' /\ lastByteAt' <= now'
                BY <1>1
            <4> QED
                BY <4>1, <4>2, <4>3, Zenon DEF ClockInv
        <3>6. BytesInv' /\ NoRowsInv'
            <4>1. printed' + bytesIn' = bytes'
                BY <1>1, <1>2, <2>2, <3>1
            <4>2. boundary' # None
                BY <1>1, <3>1, <3>2, Zenon
            <4> QED
                BY <4>1, <4>2, Zenon DEF BytesInv, NoRowsInv
        <3>7. NextRowInv'
            <4>1. rows' # <<>> /\ rows'[Len(rows')] = r
                BY <1>2, <3>1, <3>3
            <4>2. boundary' - Interval - firstByteAt' = b - firstByteAt'
                BY <1>1, <1>2, <2>1, <3>1
            <4> QED
                BY <4>1, <4>2 DEF NextRowInv
        <3>8. RowsTile'
            <4> DEFINE old == IF firstByteAt = None THEN 0 ELSE lastByteAt - firstByteAt
                       span == t - firstByteAt'
            <4>1. old \in Int /\ span \in Int /\ old <= span
                BY <1>1, <1>2
            <4>2. \A k \in 1 .. Len(rows) :
                      /\ rows[k].start = (IF k = 1 THEN 0 ELSE rows[k - 1].end)
                      /\ rows[k].start <= rows[k].end
                      /\ rows[k].end <= old
                BY <1>5 DEF MeterInv, RowsTile
            <4>3. r.start = (IF rows = <<>> THEN 0 ELSE rows[Len(rows)].end)
                  /\ r.start <= r.end /\ r.end <= span
                BY <2>1, <3>2, Zenon
            <4> HIDE DEF old, span, r
            <4>4. LET new == Append(rows, r)
                  IN  \A k \in 1 .. Len(new) :
                          /\ new[k].start = (IF k = 1 THEN 0 ELSE new[k - 1].end)
                          /\ new[k].start <= new[k].end
                          /\ new[k].end <= span
                BY <1>2, <3>3, <4>1, <4>2, <4>3, TileExtends, Zenon
            <4> QED
                BY <1>1, <3>1, <4>4, Zenon DEF RowsTile, span
        <3> QED
            BY <1>3, <1>4, <3>4, <3>5, <3>6, <3>7, <3>8, Zenon DEF MeterInv
    <2> QED
        BY <1>1, <2>1, <2>3, <2>4
<1> QED
    BY <1>6, <1>7, Zenon

\* The end of the loop: the last, partial interval becomes a row.
LEMMA StopInv ==
    ASSUME MeterInv, WithinLimit, Stop
    PROVE  MeterInv' /\ WithinLimit'
<1>1. /\ role' = role /\ given' = given /\ now' = now /\ bytes' = bytes /\ bytesOmit' = bytesOmit
      /\ firstByteAt' = firstByteAt /\ firstMeasuredAt' = firstMeasuredAt
      /\ lastByteAt' = lastByteAt /\ pc = "loop" /\ pc' = "done" /\ slept' = slept
    BY Zenon DEF Stop, receipt
<1>2. OmitSplit' /\ WithinLimit' /\ NextRowInv'
    BY <1>1, Zenon DEF MeterInv, OmitSplit, WithinLimit, NextRowInv
<1>3. /\ bytes \in Nat /\ bytesIn \in Nat /\ printed \in Nat /\ rows \in Seq(Row)
      /\ boundary \in Instant /\ firstByteAt \in Instant /\ lastByteAt \in Instant
      /\ Interval \in Nat /\ None \notin Nat
    BY MeterAssumption DEF MeterInv, TypeOK
<1>4. role \in Flushing => role \in Reporting
    BY Zenon DEF Flushing, Reporting
<1>5. CASE ~(role \in Flushing /\ lastByteAt # None /\ bytesIn > 0)
    <2>1. boundary' = boundary /\ bytesIn' = bytesIn /\ rows' = rows /\ printed' = printed
        BY <1>5, Zenon DEF Stop, Flush, reporter
    <2>2. TypeOK' /\ ClockInv' /\ BytesInv' /\ NoRowsInv' /\ RowsTile'
        BY <1>1, <2>1, Zenon DEF MeterInv, TypeOK, ClockInv, BytesInv, NoRowsInv, RowsTile
    <2>3. RowsAddUp'
        <3>1. role \in Flushing => printed + bytesIn = bytes
            BY <1>4, Zenon DEF MeterInv, BytesInv
        <3>2. role \in Flushing => bytesIn = 0
            BY <1>3, <1>5 DEF MeterInv, ClockInv
        <3> QED
            BY <1>1, <1>3, <2>1, <3>1, <3>2 DEF RowsAddUp
    <2> QED
        BY <1>2, <2>2, <2>3, Zenon DEF MeterInv
<1>6. CASE role \in Flushing /\ lastByteAt # None /\ bytesIn > 0
    <2> DEFINE start == boundary - Interval - firstByteAt
               since == lastByteAt - firstByteAt
               last == IF since > start THEN since ELSE start
               r == [start |-> start, end |-> last, bytes |-> bytesIn]
    <2>1. /\ rows' = Append(rows, r) /\ printed' = printed + bytesIn
          /\ bytesIn' = 0 /\ boundary' = boundary
        BY <1>6, Zenon DEF Stop, Flush, PrintRow
    <2>2. firstByteAt # None /\ boundary # None
        BY <1>4, <1>6, Zenon DEF MeterInv, ClockInv
    <2>3. boundary - Interval >= firstByteAt /\ boundary - Interval <= lastByteAt
        BY <2>2, Zenon DEF MeterInv, ClockInv
    <2>4. firstByteAt \in Nat /\ lastByteAt \in Nat /\ boundary \in Nat
        BY <1>3, <1>6, <2>2, Zenon DEF Instant
    <2>5. start \in Nat /\ since \in Nat /\ start <= since /\ last = since
        BY <1>3, <2>3, <2>4
    <2>6. start = (IF rows = <<>> THEN 0 ELSE rows[Len(rows)].end)
        BY <1>1, <2>2, Zenon DEF MeterInv, NextRowInv
    <2>7. r \in Row
        BY <1>3, <2>4, <2>5, Zenon DEF Row
    <2>8. TypeOK'
        <3>1. rows' \in Seq(Row)
            BY <1>3, <2>1, <2>7
        <3>2. bytesIn' \in Nat /\ printed' \in Nat
            BY <1>3, <2>1
        <3>3. boundary' = boundary
            BY <2>1, Zenon
        <3> QED
            BY <1>1, <3>1, <3>2, <3>3, Zenon DEF MeterInv, TypeOK
    <2>9. ClockInv' /\ NoRowsInv'
        <3>1. boundary' = boundary /\ boundary # None
            BY <2>1, <2>2, Zenon
        <3> QED
            BY <1>1, <2>2, <3>1, Zenon DEF MeterInv, ClockInv, NoRowsInv
    <2>10. BytesInv' /\ RowsAddUp'
        <3>1. printed + bytesIn = bytes
            BY <1>4, <1>6, Zenon DEF MeterInv, BytesInv
        <3>2. printed' = bytes' /\ bytesIn' = 0
            BY <1>1, <2>1, <3>1, Zenon
        <3> QED
            BY <1>1, <1>3, <3>2 DEF BytesInv, RowsAddUp
    <2>11. RowsTile'
        <3>1. \A k \in 1 .. Len(rows) :
                  /\ rows[k].start = (IF k = 1 THEN 0 ELSE rows[k - 1].end)
                  /\ rows[k].start <= rows[k].end
                  /\ rows[k].end <= since
            BY Zenon DEF MeterInv, RowsTile
        <3>2. r.start = (IF rows = <<>> THEN 0 ELSE rows[Len(rows)].end)
              /\ r.start <= r.end /\ r.end <= since
            BY <2>5, <2>6
        <3>3. since \in Int /\ since <= since
            BY <2>5
        <3> HIDE DEF since, r
        <3>4. LET new == Append(rows, r)
              IN  \A k \in 1 .. Len(new) :
                      /\ new[k].start = (IF k = 1 THEN 0 ELSE new[k - 1].end)
                      /\ new[k].start <= new[k].end
                      /\ new[k].end <= since
            BY <1>3, <2>7, <3>1, <3>2, <3>3, TileExtends, Zenon
        <3> QED
            BY <1>1, <2>1, <3>4, Zenon DEF RowsTile, since
    <2> QED
        BY <1>2, <2>8, <2>9, <2>10, <2>11, Zenon DEF MeterInv
<1> QED
    BY <1>5, <1>6, Zenon

-----------------------------------------------------------------------------

\* Sleeping moves nothing but the clock.
LEMMA SleepInv ==
    ASSUME MeterInv, WithinLimit, NEW t \in now .. MaxTime, NEW w \in 1 .. MaxTime,
           NEW u \in now .. MaxTime, Sleep(t, w, u)
    PROVE  MeterInv' /\ WithinLimit'
<1>1. /\ role' = role /\ given' = given /\ pc' = pc /\ bytes' = bytes /\ bytesOmit' = bytesOmit
      /\ firstByteAt' = firstByteAt /\ firstMeasuredAt' = firstMeasuredAt
      /\ lastByteAt' = lastByteAt /\ boundary' = boundary /\ bytesIn' = bytesIn
      /\ rows' = rows /\ printed' = printed
    BY Zenon DEF Sleep, receipt, reporter
<1>2. now \in Nat /\ MaxTime \in Nat
    BY MeterAssumption DEF MeterInv, TypeOK
<1>3. now' = u /\ u \in Nat /\ u >= now /\ slept' = w /\ w \in Nat
    BY <1>2 DEF Sleep
<1>4. TypeOK'
    BY <1>1, <1>3, Zenon DEF MeterInv, TypeOK
<1>5. ClockInv'
    <2>1. lastByteAt # None => lastByteAt \in Nat
        BY MeterAssumption DEF MeterInv, TypeOK, Instant
    <2>2. firstByteAt # None => lastByteAt <= now'
        BY <1>2, <1>3, <2>1 DEF MeterInv, ClockInv
    <2> QED
        BY <1>1, <2>2, Zenon DEF MeterInv, ClockInv
<1>6. BytesInv' /\ NextRowInv' /\ NoRowsInv' /\ RowsTile' /\ RowsAddUp' /\ OmitSplit' /\ WithinLimit'
    BY <1>1, Zenon DEF MeterInv, BytesInv, NextRowInv, NoRowsInv, RowsTile, RowsAddUp, OmitSplit,
                       WithinLimit
<1> QED
    BY <1>4, <1>5, <1>6, Zenon DEF MeterInv


\* Every behaviour of a transfer loop keeps the receipt and the reporter
\* consistent with each other.
THEOREM MeterConsistent == Spec => [](MeterInv /\ WithinLimit)
<1>1. Init => MeterInv /\ WithinLimit
    BY InitInv, Zenon
<1>2. MeterInv /\ WithinLimit /\ [Next]_vars => (MeterInv /\ WithinLimit)'
    <2> SUFFICES ASSUME MeterInv, WithinLimit, [Next]_vars
                 PROVE  (MeterInv /\ WithinLimit)'
        OBVIOUS
    <2>1. ASSUME NEW n \in 1 .. Chunk, NEW t \in now .. MaxTime, Transfer(n, t)
          PROVE  (MeterInv /\ WithinLimit)'
        BY <2>1, TransferRows, TransferLimit, Zenon
    <2>2. CASE Stop
        BY <2>2, StopInv, Zenon
    <2>4. ASSUME NEW t \in now .. MaxTime, NEW w \in 1 .. MaxTime, NEW u \in now .. MaxTime,
                 Sleep(t, w, u)
          PROVE  (MeterInv /\ WithinLimit)'
        BY <2>4, SleepInv, Zenon
    <2>3. CASE UNCHANGED vars
        BY <2>3, Zenon DEF vars, receipt, reporter, MeterInv, WithinLimit, TypeOK, ClockInv, BytesInv,
                    NextRowInv, NoRowsInv, RowsTile, RowsAddUp, OmitSplit, WithinLimit
    <2> QED
        BY <2>1, <2>2, <2>3, <2>4, Zenon DEF Next
<1> QED
    BY <1>1, <1>2, PTL DEF Spec

\* The rows of a flushed stream add up to the bytes of its receipt.
THEOREM RowsAddUpAlways == Spec => []RowsAddUp
<1>1. MeterInv => RowsAddUp
    BY Zenon DEF MeterInv
<1> QED
    BY <1>1, MeterConsistent, PTL

\* The rows of a stream tile the time from its first byte on.
THEOREM RowsTileAlways == Spec => []RowsTile
<1>1. MeterInv => RowsTile
    BY Zenon DEF MeterInv
<1> QED
    BY <1>1, MeterConsistent, PTL

\* The measured bytes and the measured span leave out the same omit window.
THEOREM OmitSplitAlways == Spec => []OmitSplit
<1>1. MeterInv => OmitSplit
    BY Zenon DEF MeterInv
<1> QED
    BY <1>1, MeterConsistent, PTL

\* A loop that looks at the limits of -n and -k overshoots neither by a block.
THEOREM LimitKept == Spec => []WithinLimit
    BY MeterConsistent, PTL

\* Every figure of a receipt and of its rows keeps its type.
THEOREM TypeCorrect == Spec => []TypeOK
<1>1. MeterInv => TypeOK
    BY Zenon DEF MeterInv
<1> QED
    BY <1>1, MeterConsistent, PTL

\* Products of natural numbers grow with their second factor,
LEMMA TimesMonotone == \A a, b, c \in Nat : b <= c => a * b <= a * c /\ a * b \in Nat
    OBVIOUS

\* and distribute over the ticks a loop sleeps (TokenBucket::wait).
LEMMA TimesSplit == \A a, b, c \in Nat : c > 0 => a * (b + c - 1) = a * b + a * (c - 1)
    OBVIOUS

\* A paced loop is never more than a block ahead of its rate, and never sleeps longer
\* than a block takes (TokenBucket::wait before every send).
THEOREM RateKept == Spec => []KeepsRate
<1>1. Init => KeepsRate
    BY MeterAssumption DEF Init, KeepsRate
<1>2. ASSUME MeterInv, KeepsRate, [Next]_vars PROVE KeepsRate'
    <2> SUFFICES ASSUME role' \in Paced, Rate > 0
                 PROVE  bytes' <= Rate * now' + Blk /\ (slept' > 0 => Rate * (slept' - 1) < Blk)
        BY Zenon DEF KeepsRate
    <2>1. Rate \in Nat /\ Blk \in Nat /\ MaxTime \in Nat /\ now \in Nat /\ bytes \in Nat
        BY <1>2, MeterAssumption DEF MeterInv, TypeOK
    <2>2. role' = role
        BY <1>2, Zenon DEF Next, Transfer, Stop, Sleep, vars
    <2>3. bytes <= Rate * now + Blk /\ (slept > 0 => Rate * (slept - 1) < Blk)
        BY <1>2, <2>2, Zenon DEF KeepsRate
    <2>4. ASSUME NEW n \in 1 .. Chunk, NEW t \in now .. MaxTime, Transfer(n, t)
          PROVE  bytes' <= Rate * now' + Blk /\ slept' = slept
        <3>1. bytes' = bytes + n /\ now' = t /\ slept' = slept /\ bytes <= Rate * t
            BY <2>2, <2>4, Zenon DEF Transfer, OnTime
        <3>2. t \in Nat /\ Rate * t \in Nat
            BY <2>1, TimesMonotone
        <3>3. n \in Nat /\ n <= Blk
            BY <2>2, ChunkBound, Zenon
        <3> HIDE <2>4
        <3> QED
            BY <2>1, <3>1, <3>2, <3>3
    <2>5. ASSUME NEW t \in now .. MaxTime, NEW w \in 1 .. MaxTime, NEW u \in now .. MaxTime,
                 Sleep(t, w, u)
          PROVE  bytes' <= Rate * now' + Blk /\ (slept' > 0 => Rate * (slept' - 1) < Blk)
        <3>1. bytes' = bytes /\ now' = u /\ slept' = w /\ Rate * (t + w - 1) < bytes
            BY <2>5, Zenon DEF Sleep, Ahead, receipt
        <3>2. t \in Nat /\ u \in Nat /\ w \in Nat /\ now <= t /\ now <= u /\ w > 0
            BY <2>1
        <3>3. /\ Rate * now <= Rate * t /\ Rate * now <= Rate * u
              /\ Rate * now \in Nat /\ Rate * t \in Nat /\ Rate * u \in Nat
            BY <2>1, <3>2, TimesMonotone
        <3>4. Rate * (t + w - 1) = Rate * t + Rate * (w - 1)
            BY <2>1, <3>2, TimesSplit
        <3>5. Rate * (w - 1) \in Nat
            BY <2>1, <3>2, TimesMonotone
        <3>6. Rate * (w - 1) < Blk
            BY <2>1, <2>3, <3>1, <3>3, <3>4, <3>5
        <3>7. bytes <= Rate * u + Blk
            BY <2>1, <2>3, <3>3
        <3> QED
            BY <3>1, <3>6, <3>7, Zenon
    <2>6. CASE Stop \/ UNCHANGED vars
        <3>1. bytes' = bytes /\ now' = now /\ slept' = slept
            BY <2>6, Zenon DEF Stop, vars, receipt
        <3> QED
            BY <2>3, <3>1, Zenon
    <2> QED
        BY <1>2, <2>3, <2>4, <2>5, <2>6, Zenon DEF Next
<1>3. MeterInv /\ KeepsRate /\ [Next]_vars => KeepsRate'
    BY <1>2, Zenon
<1> QED
    BY <1>1, <1>3, MeterConsistent, PTL DEF Spec
=============================================================================
