------------------------- MODULE MkvTimeline_proofs -------------------------
(***************************************************************************)
(* Proofs about MkvTimeline, for any resolution, any width of timecodes    *)
(* and bytes, any durations and any length of a run.                       *)
(***************************************************************************)
EXTENDS MkvTimeline, TLAPS

-----------------------------------------------------------------------------
(* The inductive invariant.                                                *)

\* The pending fragment goes from a keyframe to the end of its last frame.  Its
\* last keyframe came before it was long enough to be cut.
FramesInv ==
    ~waiting =>
       /\ frames # <<>> /\ frames[1].pts = fragmentStart
       /\ \A i \in DOMAIN frames : fragmentStart <= frames[i].pts /\ frames[i].pts <= pts
       /\ frames[Len(frames)].pts + frames[Len(frames)].duration = pts
       /\ fragmentStart <= pts - sinceKey
       /\ \E d \in Durations : pts - sinceKey < fragmentStart + d

\* The anchor is of the session under way, and was taken within its first fragment.
AnchorInv ==
    /\ waiting => ptsOffset = 0 /\ ~Anchored
    /\ ~waiting => ptsOffset <= fragmentStart
    /\ Anchored <=> sessionFirst # None
    /\ Anchored =>
         /\ streamStart + ptsOffset = sessionFirst /\ sessionFirst <= fragmentStart
         /\ Epoch + sessionFirst <= wallStart
         /\ wallStart < Epoch + sessionFirst + MaxFirst + MaxLag
         /\ wallStart <= Epoch + MaxLag + MaxPts

\* The last cluster ends where the pending fragment starts.
PrevInv ==
    cluster.session # None /\ ~ended =>
       /\ ~waiting /\ cluster.pts # <<>>
       /\ cluster.pts[1] + cluster.duration = fragmentStart
       /\ cluster.session <= cluster.pts[1] /\ cluster.duration > 0
       /\ cluster.time = Milliseconds(cluster.anchor + cluster.pts[1] - cluster.session)
       /\ Anchored /\ cluster.session = sessionFirst => cluster.anchor = wallStart

-----------------------------------------------------------------------------
(* Types, one group of variables at a time.                                *)

FrameType == [pts : Nat, duration : FrameDurations]

WriterType ==
    /\ ptsOffset \in Nat /\ streamStart \in Times /\ wallStart \in Times
    /\ sessionFirst \in Times /\ (Anchored <=> wallStart # None)

FragmentType ==
    /\ waiting \in BOOLEAN /\ fragmentStart \in Times /\ (waiting <=> frames = <<>>)
    /\ ~waiting => fragmentStart # None
    /\ frames \in Seq(FrameType) /\ fragmentDuration \in Durations

StreamType == pts \in 0..MaxPts /\ sinceKey \in 0..MaxKeyInterval /\ ended \in BOOLEAN

ClusterType ==
    /\ cluster.time \in Times /\ cluster.duration \in Nat
    /\ cluster.blocks \in Seq(-Half..(Half - 1)) /\ cluster.pts \in Seq(Nat)
    /\ cluster.session \in Times /\ cluster.anchor \in Times
    /\ cluster.session # None => cluster.anchor # None

Types == WriterType /\ FragmentType /\ StreamType /\ ClusterType

IInv == Types /\ FramesInv /\ AnchorInv /\ PrevInv /\ BlocksOnTime /\ DelayBounded

\* The groups are at least as strong as the type invariant.
LEMMA TypeOKFollows == Types => TypeOK
<1> SUFFICES ASSUME Types PROVE TypeOK
  OBVIOUS
<1>1. {streamStart, wallStart, sessionFirst} \subseteq Times
  BY DEF Types, WriterType
<1>2. QED
  BY <1>1 DEF Types, WriterType, FragmentType, StreamType, ClusterType, FrameType, TypeOK

-----------------------------------------------------------------------------
(* The constants and the conversions.                                      *)

\* The constants, one by one.
LEMMA Limits ==
    /\ UnitsPerMs \in Nat \ {0} /\ Epoch \in Nat /\ MaxLag \in Nat /\ MaxPts \in Nat
    /\ MaxKeyInterval \in Nat /\ ImmediateDuration \in Nat \ {0}
    /\ BufferOnlyDuration \in Nat \ {0} /\ FrameDurations \subseteq Nat \ {0}
    /\ TimecodeBits \in Nat \ {0}
<1>1. UnitsPerMs \in Nat \ {0} /\ TimecodeBits \in Nat \ {0}
  BY UnitsAssumption, Zenon
<1>2. Epoch \in Nat /\ MaxLag \in Nat /\ MaxPts \in Nat /\ MaxKeyInterval \in Nat
  BY UnitsAssumption, Zenon
<1>3. /\ ImmediateDuration \in Nat \ {0} /\ BufferOnlyDuration \in Nat \ {0}
      /\ FrameDurations \subseteq Nat \ {0}
  BY UnitsAssumption DEF Durations
<1>4. QED
  BY <1>1, <1>2, <1>3

\* The longest first fragment there can be.
LEMMA MaxFirstIs ==
    MaxFirst \in Nat /\ \A d \in Durations : d \in Nat \ {0} /\ d + MaxKeyInterval <= MaxFirst
<1> DEFINE longest(d) == d \in Durations /\ \A e \in Durations : e <= d
<1>1. \A d \in Durations : d \in Nat \ {0}
  BY Limits DEF Durations
<1>2. \E d \in Durations : \A e \in Durations : e <= d
  <2>1. CASE ImmediateDuration <= BufferOnlyDuration
    BY <2>1, Limits DEF Durations
  <2>2. CASE BufferOnlyDuration <= ImmediateDuration
    BY <2>2, Limits DEF Durations
  <2>3. QED
    BY <2>1, <2>2, Limits
<1>3. PICK d \in Durations : /\ MaxFirst = d + MaxKeyInterval
                             /\ \A e \in Durations : e <= d
  BY <1>2 DEF MaxFirst
<1>4. QED
  BY <1>1, <1>3, Limits

\* A relative timecode reaches past the longest fragment.
LEMMA HalfIs ==
    /\ Half \in Nat \ {0}
    /\ \A d \in Durations : d + MaxKeyInterval <= (Half - 1) * UnitsPerMs
<1>1. TimecodeBits - 1 \in Nat
  BY Limits
<1>2. Half \in Int
  BY <1>1 DEF Half
<1>3. ImmediateDuration + MaxKeyInterval <= (Half - 1) * UnitsPerMs
  BY KeyframesAssumption DEF Durations
<1>4. Half > 0
  <2>1. (Half - 1) * UnitsPerMs > 0
    BY <1>2, <1>3, Limits
  <2>2. CASE Half <= 0
    <3>1. (Half - 1) * UnitsPerMs <= 0
      BY <1>2, <2>2, Limits
    <3>2. QED
      BY <1>2, <2>1, <3>1, Limits
  <2>3. QED
    BY <1>2, <2>2
<1>5. QED
  BY <1>2, <1>4, KeyframesAssumption

\* A time in milliseconds is the time less a rounding.
LEMMA Rounding ==
    ASSUME NEW t \in Nat
    PROVE  /\ Milliseconds(t) \in Nat
           /\ Milliseconds(t) * UnitsPerMs <= t
           /\ t < Milliseconds(t) * UnitsPerMs + UnitsPerMs
  BY Limits DEF Milliseconds

\* A difference of less than (Half - 1) milliseconds does not wrap.
LEMMA TimecodeIs ==
    ASSUME NEW x \in Int
    PROVE  /\ Timecode(x) \in -Half..(Half - 1)
           /\ -Half <= x /\ x < Half => Timecode(x) = x
<1>1. Half \in Nat \ {0}
  BY HalfIs
<1> HIDE DEF Half
<1>2. (x + Half) % (2 * Half) \in 0..(2 * Half - 1)
  BY <1>1
<1>3. Timecode(x) \in -Half..(Half - 1)
  BY <1>1, <1>2 DEF Timecode
<1>4. -Half <= x /\ x < Half => Timecode(x) = x
  BY <1>1 DEF Timecode
<1>5. QED
  BY <1>3, <1>4

\* A timestamp with room in eight bytes is read back as it was.
LEMMA ReadBackIs ==
    ASSUME NEW v \in Nat, v < ByteBase ^ 8
    PROVE  ReadBack(v) = v
<1>1. ByteBase \in Nat
  BY UnitsAssumption
<1>2. TimestampWidth(v) \in Nat
  BY DEF TimestampWidth
<1>3. PICK room : room = ByteBase ^ TimestampWidth(v)
  OBVIOUS
<1>4. room \in Int /\ v < room
  <2>1. room \in Int
    BY <1>1, <1>2, <1>3
  <2>2. QED
    BY <1>3, <2>1 DEF TimestampWidth
<1>5. v % room = v
  BY <1>4
<1>6. QED
  BY <1>3, <1>5 DEF ReadBack

-----------------------------------------------------------------------------
(* What finalize_fragment() writes.                                        *)

\* The pending fragment is not longer than the longest.
LEMMA PendingIs ==
    ASSUME IInv, ~waiting
    PROVE  /\ frames \in Seq(FrameType) /\ frames # <<>> /\ fragmentStart \in Nat
           /\ Head(frames) = frames[1] /\ frames[1].pts = fragmentStart
           /\ \A i \in DOMAIN frames :
                 /\ frames[i].pts \in Nat
                 /\ fragmentStart <= frames[i].pts /\ frames[i].pts <= pts
           /\ pts \in Nat /\ pts <= MaxPts /\ fragmentStart <= pts
           /\ \E d \in Durations : pts - fragmentStart < d + MaxKeyInterval
           /\ FragmentLength = pts - fragmentStart
<1>1. /\ frames \in Seq(FrameType) /\ frames # <<>> /\ fragmentStart \in Nat
      /\ pts \in 0..MaxPts /\ sinceKey \in 0..MaxKeyInterval
  BY DEF IInv, Types, FragmentType, StreamType, Times
<1>2. /\ frames[1].pts = fragmentStart
      /\ \A i \in DOMAIN frames : fragmentStart <= frames[i].pts /\ frames[i].pts <= pts
      /\ frames[Len(frames)].pts + frames[Len(frames)].duration = pts
      /\ fragmentStart <= pts - sinceKey
      /\ \E d \in Durations : pts - sinceKey < fragmentStart + d
  BY DEF IInv, FramesInv
<1>3. Head(frames) = frames[1] /\ Last(frames) = frames[Len(frames)]
  BY <1>1 DEF Last
<1>4. \A i \in DOMAIN frames : frames[i] \in FrameType
  BY <1>1
<1>5. \A i \in DOMAIN frames : frames[i].pts \in Nat /\ frames[i].duration \in Nat
  BY <1>4, Limits DEF FrameType
<1>6. pts \in Nat /\ pts <= MaxPts /\ fragmentStart <= pts
  BY <1>1, <1>2, Limits
<1>7. \E d \in Durations : pts - fragmentStart < d + MaxKeyInterval
  BY <1>1, <1>2, <1>6, MaxFirstIs, Limits
<1>8. FragmentLength = pts - fragmentStart
  <2>1. Len(frames) \in DOMAIN frames
    BY <1>1
  <2>2. PICK last : last = frames[Len(frames)]
    OBVIOUS
  <2>3. last.pts \in Nat /\ last.duration \in Nat /\ last.pts + last.duration = pts
    BY <1>2, <1>5, <2>1, <2>2
  <2>4. FragmentLength = last.pts - fragmentStart + last.duration
    BY <1>2, <1>3, <2>2 DEF FragmentLength
  <2>5. QED
    BY <1>1, <1>6, <2>3, <2>4
<1>9. QED
  BY <1>1, <1>2, <1>3, <1>5, <1>6, <1>7, <1>8

\* The anchor the pending fragment gets is of its session.
LEMMA AnchoredNow ==
    ASSUME IInv, ~waiting, NEW now \in Arrivals
    PROVE  /\ SessionFirst \in Nat /\ AnchorWall(now) \in Nat /\ AnchorStart \in Nat
           /\ AnchorStart + ptsOffset = SessionFirst
           /\ ptsOffset <= fragmentStart /\ SessionFirst <= fragmentStart
           /\ Epoch + SessionFirst <= AnchorWall(now)
           /\ AnchorWall(now) < Epoch + SessionFirst + MaxFirst + MaxLag
           /\ AnchorWall(now) <= Epoch + MaxLag + MaxPts
<1>1. /\ ptsOffset \in Nat /\ streamStart \in Times /\ wallStart \in Times
      /\ sessionFirst \in Times /\ (Anchored <=> wallStart # None)
      /\ ptsOffset <= fragmentStart /\ AnchorInv
  BY DEF IInv, Types, WriterType, AnchorInv
<1>2. /\ fragmentStart \in Nat /\ Head(frames).pts = fragmentStart
      /\ pts \in Nat /\ pts <= MaxPts /\ fragmentStart <= pts
  BY PendingIs
<1>3. CASE Anchored
  <2>1. /\ SessionFirst = sessionFirst /\ AnchorWall(now) = wallStart
        /\ AnchorStart = streamStart
    BY <1>3 DEF SessionFirst, AnchorWall, AnchorStart
  <2>2. sessionFirst \in Nat /\ wallStart \in Nat /\ streamStart \in Nat
    BY <1>1, <1>3 DEF AnchorInv, Times, Anchored
  <2>3. QED
    BY <1>1, <1>3, <2>1, <2>2 DEF AnchorInv
<1>4. CASE ~Anchored
  <2>1. PICK lag \in 0..MaxLag : now = Epoch + pts + lag
    BY DEF Arrivals
  <2>2. PICK d \in Durations : pts - fragmentStart < d + MaxKeyInterval
    BY PendingIs
  <2>3. pts - fragmentStart < MaxFirst /\ MaxFirst \in Nat
    BY <1>2, <2>2, MaxFirstIs, Limits
  <2>4. /\ SessionFirst = fragmentStart /\ AnchorWall(now) = now
        /\ AnchorStart = fragmentStart - ptsOffset
    BY <1>1, <1>2, <1>4 DEF SessionFirst, AnchorWall, AnchorStart, NormalizePts
  <2>5. QED
    BY <1>1, <1>2, <2>1, <2>3, <2>4, Limits
<1>5. QED
  BY <1>3, <1>4

\* The cluster of the pending fragment, its timestamp read back whole and no
\* timecode wrapped.
LEMMA Written ==
    ASSUME IInv, ~waiting, NEW now \in Arrivals, WriteFragment(now)
    PROVE  /\ cluster'.time = Milliseconds(AnchorWall(now) + fragmentStart - SessionFirst)
           /\ cluster'.duration = pts - fragmentStart
           /\ cluster'.session = SessionFirst /\ cluster'.anchor = AnchorWall(now)
           /\ cluster'.blocks \in Seq(-Half..(Half - 1)) /\ cluster'.pts \in Seq(Nat)
           /\ DOMAIN cluster'.blocks = DOMAIN frames /\ DOMAIN cluster'.pts = DOMAIN frames
           /\ \A i \in DOMAIN frames :
                 /\ cluster'.pts[i] = frames[i].pts
                 /\ cluster'.blocks[i] = Milliseconds(frames[i].pts - ptsOffset)
                                           - Milliseconds(fragmentStart - ptsOffset)
<1>1. PICK start : start = fragmentStart - ptsOffset
  OBVIOUS
<1>2. /\ ptsOffset \in Nat /\ fragmentStart \in Nat /\ ptsOffset <= fragmentStart
      /\ SessionFirst \in Nat /\ AnchorWall(now) \in Nat /\ AnchorStart \in Nat
      /\ AnchorStart + ptsOffset = SessionFirst /\ SessionFirst <= fragmentStart
      /\ AnchorWall(now) <= Epoch + MaxLag + MaxPts
      /\ Head(frames).pts = fragmentStart /\ fragmentStart <= MaxPts
  <2>1. ptsOffset \in Nat
    BY DEF IInv, Types, WriterType
  <2>2. fragmentStart <= pts /\ pts <= MaxPts /\ pts \in Nat /\ fragmentStart \in Nat
    BY PendingIs
  <2>3. fragmentStart <= MaxPts
    BY <2>2, Limits
  <2>4. QED
    BY <2>1, <2>3, PendingIs, AnchoredNow
<1>3. start \in Nat /\ NormalizePts(Head(frames).pts) = start
  BY <1>1, <1>2 DEF NormalizePts
<1>4. cluster' = [time |-> ReadBack(AbsoluteMs(start, now)),
                  blocks |-> [i \in DOMAIN frames |-> RelativeMs(frames[i].pts, start)],
                  pts |-> [i \in DOMAIN frames |-> frames[i].pts],
                  duration |-> FragmentLength,
                  session |-> SessionFirst, anchor |-> AnchorWall(now)]
  BY <1>3 DEF WriteFragment
<1>5. ReadBack(AbsoluteMs(start, now))
        = Milliseconds(AnchorWall(now) + fragmentStart - SessionFirst)
  <2>1. PICK t : t = AnchorWall(now) + fragmentStart - SessionFirst
    OBVIOUS
  <2>2. t \in Nat /\ t <= Epoch + MaxLag + 2 * MaxPts
    BY <1>2, <2>1, Limits
  <2>3. start >= AnchorStart /\ AnchorWall(now) + (start - AnchorStart) = t
    BY <1>1, <1>2, <2>1
  <2>4. AbsoluteMs(start, now) = Milliseconds(t)
    BY <2>3 DEF AbsoluteMs
  <2>5. Milliseconds(t) < ByteBase ^ 8 /\ Milliseconds(t) \in Nat
    <3>1. PICK most : most = Epoch + MaxLag + 2 * MaxPts
      OBVIOUS
    <3>2. PICK room : room = ByteBase ^ 8
      OBVIOUS
    <3>3. most \in Nat /\ t <= most
      BY <2>2, <3>1, Limits
    <3>4. Milliseconds(most) < room
      BY <3>1, <3>2, ClockAssumption DEF Milliseconds
    <3>5. Milliseconds(t) <= Milliseconds(most)
      BY <2>2, <3>3, Limits DEF Milliseconds
    <3>6. room \in Int
      <4>1. ByteBase \in Nat /\ 8 \in Nat
        BY UnitsAssumption
      <4>2. QED
        BY <3>2, <4>1
    <3>7. QED
      BY <2>2, <3>2, <3>3, <3>4, <3>5, <3>6, Rounding
  <2>6. QED
    BY <2>1, <2>4, <2>5, ReadBackIs
<1>6. ASSUME NEW i \in DOMAIN frames
      PROVE  /\ RelativeMs(frames[i].pts, start)
                   = Milliseconds(frames[i].pts - ptsOffset) - Milliseconds(start)
             /\ RelativeMs(frames[i].pts, start) \in -Half..(Half - 1)
             /\ frames[i].pts \in Nat
  <2>1. PICK p : p = frames[i].pts
    OBVIOUS
  <2>2. p \in Nat /\ fragmentStart <= p /\ p <= pts /\ pts \in Nat
    BY <2>1, PendingIs
  <2>3. PICK d \in Durations : pts - fragmentStart < d + MaxKeyInterval
    BY PendingIs
  <2>4. p - fragmentStart < (Half - 1) * UnitsPerMs
    <3>1. PICK reach : reach = (Half - 1) * UnitsPerMs
      OBVIOUS
    <3>2. reach \in Int
      BY <3>1, HalfIs, Limits
    <3>3. d + MaxKeyInterval <= reach /\ d \in Nat
      BY <3>1, HalfIs, MaxFirstIs
    <3>4. p - fragmentStart < reach
      BY <1>2, <2>2, <2>3, <3>2, <3>3, Limits
    <3>5. QED
      BY <3>1, <3>4
  <2>5. PICK q : q = p - ptsOffset
    OBVIOUS
  <2>6. /\ q \in Nat /\ q >= start /\ NormalizePts(p) = q
        /\ q - start < (Half - 1) * UnitsPerMs
    BY <1>1, <1>2, <2>2, <2>4, <2>5 DEF NormalizePts
  <2>7. PICK x : x = Milliseconds(q) - Milliseconds(start)
    OBVIOUS
  <2>8. x \in Int /\ 0 <= x /\ x < Half
    <3>1. PICK a, b : a = Milliseconds(q) /\ b = Milliseconds(start)
      OBVIOUS
    <3>2. /\ a \in Nat /\ a * UnitsPerMs <= q /\ q < a * UnitsPerMs + UnitsPerMs
          /\ b \in Nat /\ b * UnitsPerMs <= start /\ start < b * UnitsPerMs + UnitsPerMs
      BY <1>3, <2>6, <3>1, Rounding
    <3>3. b <= a
      BY <1>3, <2>6, <3>1, Limits DEF Milliseconds
    <3>4. a - b < Half
      <4>1. PICK h : h = Half
        OBVIOUS
      <4>2. h \in Nat \ {0} /\ q - start < (h - 1) * UnitsPerMs
        BY <2>6, <4>1, HalfIs
      <4>3. (a - b) * UnitsPerMs < (h - 1) * UnitsPerMs + UnitsPerMs
        BY <1>3, <2>6, <3>2, <4>2, Limits
      <4>4. (a - b) * UnitsPerMs < h * UnitsPerMs
        BY <3>2, <4>2, <4>3, Limits
      <4>5. a - b < h
        BY <3>2, <4>2, <4>4, Limits
      <4>6. QED
        BY <4>1, <4>5
    <3>5. QED
      BY <2>7, <3>1, <3>2, <3>3, <3>4
  <2>9. RelativeMs(p, start) = Timecode(x)
    BY <2>6, <2>7 DEF RelativeMs
  <2>10. Timecode(x) = x /\ x \in -Half..(Half - 1)
    BY <2>8, TimecodeIs, HalfIs
  <2>11. QED
    BY <2>1, <2>2, <2>5, <2>7, <2>9, <2>10
<1>7. DOMAIN frames = 1..Len(frames) /\ Len(frames) \in Nat
  BY PendingIs
<1>8. /\ cluster'.blocks \in Seq(-Half..(Half - 1)) /\ cluster'.pts \in Seq(Nat)
      /\ DOMAIN cluster'.blocks = DOMAIN frames /\ DOMAIN cluster'.pts = DOMAIN frames
  BY <1>4, <1>6, <1>7
<1>9. cluster'.duration = pts - fragmentStart
  BY <1>4, PendingIs
<1>10. QED
  BY <1>1, <1>4, <1>5, <1>6, <1>8, <1>9

\* Where a player puts a frame: three roundings, of which two cancel in one direction.
LEMMA Placed ==
    ASSUME NEW A \in Nat, NEW q \in Nat, NEW s \in Nat
    PROVE  LET t == (Milliseconds(A) + (Milliseconds(q) - Milliseconds(s))) * UnitsPerMs
           IN  t \in Int /\ A + q - s - 2 * UnitsPerMs < t /\ t < A + q - s + UnitsPerMs
<1>1. PICK u : u = UnitsPerMs
  OBVIOUS
<1>2. PICK a, b, c : a = Milliseconds(A) /\ b = Milliseconds(q) /\ c = Milliseconds(s)
  OBVIOUS
<1>3. /\ u \in Nat \ {0} /\ a \in Nat /\ b \in Nat /\ c \in Nat
      /\ a * u <= A /\ A < a * u + u /\ b * u <= q /\ q < b * u + u
      /\ c * u <= s /\ s < c * u + u
  BY <1>1, <1>2, Rounding, Limits
<1>4. (a + (b - c)) * u = a * u + b * u - c * u
  BY <1>3
<1>5. /\ (a + (b - c)) * u \in Int
      /\ A + q - s - 2 * u < (a + (b - c)) * u /\ (a + (b - c)) * u < A + q - s + u
  <2>1. PICK x, y, z : x = a * u /\ y = b * u /\ z = c * u
    OBVIOUS
  <2>2. x \in Int /\ y \in Int /\ z \in Int
    BY <1>3, <2>1
  <2>3. A + q - s - 2 * u < x + y - z /\ x + y - z < A + q - s + u /\ x + y - z \in Int
    BY <1>3, <2>1, <2>2
  <2>4. QED
    BY <1>4, <2>1, <2>3
<1>6. QED
  BY <1>1, <1>2, <1>5

\* The frames of a cluster that is written are in their place.
LEMMA WrittenOnTime ==
    ASSUME IInv, ~waiting, NEW now \in Arrivals, WriteFragment(now)
    PROVE  ClusterType' /\ BlocksOnTime' /\ DelayBounded'
<1>1. /\ ptsOffset \in Nat /\ fragmentStart \in Nat /\ ptsOffset <= fragmentStart
      /\ SessionFirst \in Nat /\ AnchorWall(now) \in Nat /\ SessionFirst <= fragmentStart
      /\ Epoch + SessionFirst <= AnchorWall(now)
      /\ AnchorWall(now) < Epoch + SessionFirst + MaxFirst + MaxLag
      /\ fragmentStart <= pts /\ pts \in Nat
  BY PendingIs, AnchoredNow DEF IInv, Types, WriterType
<1>2. PICK W, sf, A : /\ W = AnchorWall(now) /\ sf = SessionFirst
                      /\ A = AnchorWall(now) + fragmentStart - SessionFirst
  OBVIOUS
<1>3. /\ W \in Nat /\ sf \in Nat /\ A \in Nat /\ A = W + fragmentStart - sf
      /\ Epoch + sf <= W /\ W < Epoch + sf + MaxFirst + MaxLag
  BY <1>1, <1>2
<1>4. /\ cluster'.time = Milliseconds(A) /\ cluster'.duration = pts - fragmentStart
      /\ cluster'.session = sf /\ cluster'.anchor = W
      /\ cluster'.blocks \in Seq(-Half..(Half - 1)) /\ cluster'.pts \in Seq(Nat)
      /\ DOMAIN cluster'.blocks = DOMAIN frames
      /\ \A i \in DOMAIN frames :
            /\ cluster'.pts[i] = frames[i].pts
            /\ cluster'.blocks[i] = Milliseconds(frames[i].pts - ptsOffset)
                                      - Milliseconds(fragmentStart - ptsOffset)
  BY <1>2, Written
<1>5. ClusterType'
  <2>1. cluster'.time \in Nat /\ cluster'.duration \in Nat
    BY <1>1, <1>3, <1>4, Rounding
  <2>2. QED
    BY <1>3, <1>4, <2>1 DEF ClusterType, Times, None
<1>6. ASSUME NEW i \in DOMAIN frames
      PROVE  LET t == (cluster'.time + cluster'.blocks[i]) * UnitsPerMs
             IN  /\ t \in Int /\ cluster'.pts[i] \in Nat
                 /\ W + cluster'.pts[i] - sf - 2 * UnitsPerMs < t
                 /\ t < W + cluster'.pts[i] - sf + UnitsPerMs
  <2>1. PICK p, q, s : /\ p = frames[i].pts /\ q = p - ptsOffset
                       /\ s = fragmentStart - ptsOffset
    OBVIOUS
  <2>2. p \in Nat /\ fragmentStart <= p
    BY <2>1, PendingIs
  <2>3. q \in Nat /\ s \in Nat /\ A + q - s = W + p - sf
    BY <1>1, <1>3, <2>1, <2>2
  <2>4. PICK t : t = (Milliseconds(A) + (Milliseconds(q) - Milliseconds(s))) * UnitsPerMs
    OBVIOUS
  <2>5. t \in Int /\ A + q - s - 2 * UnitsPerMs < t /\ t < A + q - s + UnitsPerMs
    BY <1>3, <2>3, <2>4, Placed
  <2>6. t = (cluster'.time + cluster'.blocks[i]) * UnitsPerMs /\ cluster'.pts[i] = p
    BY <1>4, <2>1, <2>4
  <2>7. PICK z : z = W + p - sf
    OBVIOUS
  <2>8. z \in Int /\ A + q - s = z
    BY <1>3, <2>2, <2>3, <2>7
  <2>9. z - 2 * UnitsPerMs < t /\ t < z + UnitsPerMs
    BY <1>3, <2>3, <2>5, <2>8, Limits
  <2>10. W + p - sf - 2 * UnitsPerMs < t /\ t < W + p - sf + UnitsPerMs
    BY <1>3, <2>2, <2>5, <2>7, <2>9, Limits
  <2>11. QED
    BY <2>2, <2>5, <2>6, <2>10
<1>7. BlocksOnTime'
  <2>1. ASSUME NEW i \in DOMAIN frames
        PROVE  LET t == (cluster'.time + cluster'.blocks[i]) * UnitsPerMs
                   w == cluster'.anchor + cluster'.pts[i] - cluster'.session
               IN  t - w < 2 * UnitsPerMs /\ w - t < 2 * UnitsPerMs
    <3>1. PICK t : t = (cluster'.time + cluster'.blocks[i]) * UnitsPerMs
      OBVIOUS
    <3>2. PICK p : p = cluster'.pts[i]
      OBVIOUS
    <3>3. /\ t \in Int /\ p \in Nat
          /\ W + p - sf - 2 * UnitsPerMs < t /\ t < W + p - sf + UnitsPerMs
      BY <1>6, <3>1, <3>2
    <3>4. t - (W + p - sf) < 2 * UnitsPerMs /\ (W + p - sf) - t < 2 * UnitsPerMs
      BY <1>3, <3>3, Limits
    <3>5. QED
      BY <1>4, <3>1, <3>2, <3>4
  <2>2. QED
    BY <1>4, <2>1 DEF BlocksOnTime, BlockTime, Within
<1>8. DelayBounded'
  <2>1. ASSUME NEW i \in DOMAIN frames
        PROVE  LET delay == (cluster'.time + cluster'.blocks[i]) * UnitsPerMs
                              - (Epoch + cluster'.pts[i])
               IN  /\ delay > - 2 * UnitsPerMs
                   /\ delay < MaxFirst + MaxLag + 2 * UnitsPerMs
    <3>1. PICK t : t = (cluster'.time + cluster'.blocks[i]) * UnitsPerMs
      OBVIOUS
    <3>2. PICK p : p = cluster'.pts[i]
      OBVIOUS
    <3>3. /\ t \in Int /\ p \in Nat
          /\ W + p - sf - 2 * UnitsPerMs < t /\ t < W + p - sf + UnitsPerMs
      BY <1>6, <3>1, <3>2
    <3>4. /\ t - (Epoch + p) > - 2 * UnitsPerMs
          /\ t - (Epoch + p) < MaxFirst + MaxLag + 2 * UnitsPerMs
      BY <1>3, <3>3, Limits, MaxFirstIs
    <3>5. QED
      BY <3>1, <3>2, <3>4
  <2>2. MaxFirst' = MaxFirst
    BY DEF MaxFirst
  <2>3. QED
    BY <1>4, <2>1, <2>2 DEF DelayBounded, BlockTime
<1>9. QED
  BY <1>5, <1>7, <1>8

\* It ends where the next fragment starts.
LEMMA WrittenBefore ==
    ASSUME IInv, ~waiting, ~ended, NEW now \in Arrivals, WriteFragment(now)
    PROVE  /\ cluster'.pts # <<>> /\ cluster'.pts[1] = fragmentStart
           /\ cluster'.pts[1] + cluster'.duration = pts
           /\ cluster'.session \in Nat /\ cluster'.session <= cluster'.pts[1]
           /\ cluster'.time
                = Milliseconds(cluster'.anchor + cluster'.pts[1] - cluster'.session)
           /\ cluster'.session = SessionFirst /\ cluster'.anchor = AnchorWall(now)
<1>1. /\ frames # <<>> /\ frames \in Seq(FrameType) /\ frames[1].pts = fragmentStart
      /\ fragmentStart \in Nat /\ pts \in Nat
  BY PendingIs
<1>2. 1 \in DOMAIN frames
  BY <1>1
<1>3. cluster'.pts[1] = fragmentStart /\ cluster'.pts \in Seq(Nat) /\ 1 \in DOMAIN cluster'.pts
  BY <1>1, <1>2, Written
<1>4. SessionFirst \in Nat /\ SessionFirst <= fragmentStart
  BY AnchoredNow
<1>5. cluster'.pts # <<>>
  BY <1>3
<1>6. cluster'.pts[1] + cluster'.duration = pts
  BY <1>1, <1>3, Written
<1>7. QED
  BY <1>3, <1>4, <1>5, <1>6, Written

-----------------------------------------------------------------------------
(* What the steps keep.                                                    *)

\* A fragment begins with its keyframe.
LEMMA Begins ==
    ASSUME IInv, NEW d \in FrameDurations, Arrives(TRUE, d),
           waiting' = FALSE, fragmentStart' = pts, frames' = <<Frame(d)>>,
           fragmentDuration' \in Durations
    PROVE  StreamType' /\ FragmentType' /\ FramesInv'
<1>1. /\ pts \in Nat /\ d \in Nat \ {0} /\ pts + d <= MaxPts /\ d <= MaxKeyInterval
      /\ ended \in BOOLEAN
  BY Limits DEF IInv, Types, StreamType, Arrives, SinceKey
<1>2. pts' = pts + d /\ sinceKey' = d /\ ended' = ended
  BY <1>1 DEF Arrives, SinceKey
<1>3. StreamType'
  BY <1>1, <1>2, Limits DEF StreamType
<1>4. Frame(d) \in FrameType /\ Frame(d).pts = pts /\ Frame(d).duration = d
  BY <1>1 DEF Frame, FrameType
<1>5. FragmentType'
  <2>1. fragmentStart' \in Times /\ fragmentStart' # None
    BY <1>1 DEF Times, None
  <2>2. frames' # <<>> /\ frames' \in Seq(FrameType)
    BY <1>4
  <2>3. QED
    BY <2>1, <2>2 DEF FragmentType, FrameType, Times, Durations
<1>6. FramesInv'
  <2>1. /\ Len(frames') = 1 /\ DOMAIN frames' = {1} /\ frames'[1] = Frame(d)
        /\ frames' # <<>>
    BY <1>4
  <2>2. pts' - sinceKey' = pts
    BY <1>1, <1>2
  <2>3. \E e \in Durations : pts < pts + e
    BY <1>1, Limits DEF Durations
  <2>4. QED
    BY <1>1, <1>2, <1>4, <2>1, <2>2, <2>3 DEF FramesInv
<1>7. QED
  BY <1>3, <1>5, <1>6

\* A frame more does not make the fragment longer than it may be.
LEMMA Extends ==
    ASSUME IInv, NEW d \in FrameDurations, NEW key \in BOOLEAN, AddFrame(key, d)
    PROVE  StreamType' /\ FragmentType' /\ FramesInv'
<1>1. /\ pts \in Nat /\ sinceKey \in Nat /\ ended \in BOOLEAN /\ d \in Nat \ {0}
      /\ pts + d <= MaxPts /\ SinceKey(key) + d <= MaxKeyInterval
  BY Limits DEF IInv, Types, StreamType, AddFrame, Arrives
<1>2. /\ waiting = FALSE /\ frames \in Seq(FrameType) /\ frames # <<>>
      /\ fragmentStart \in Nat /\ fragmentStart <= pts /\ fragmentDuration \in Durations
      /\ \A i \in DOMAIN frames :
            /\ frames[i].pts \in Nat
            /\ fragmentStart <= frames[i].pts /\ frames[i].pts <= pts
      /\ frames[1].pts = fragmentStart
  <2>1. ~waiting /\ waiting \in BOOLEAN /\ fragmentDuration \in Durations
    BY DEF AddFrame, IInv, Types, FragmentType
  <2>2. QED
    BY <2>1, PendingIs
<1>3. /\ waiting' = waiting /\ fragmentStart' = fragmentStart
      /\ fragmentDuration' = fragmentDuration /\ frames' = Append(frames, Frame(d))
      /\ pts' = pts + d /\ sinceKey' = SinceKey(key) + d /\ ended' = ended
  BY DEF AddFrame, Arrives
<1>4. SinceKey(key) \in Nat
  BY <1>1 DEF SinceKey
<1>5. StreamType'
  BY <1>1, <1>3, <1>4, Limits DEF StreamType
<1>6. Frame(d) \in FrameType /\ Frame(d).pts = pts /\ Frame(d).duration = d
  BY <1>1 DEF Frame, FrameType
<1>7. /\ frames' \in Seq(FrameType) /\ frames' # <<>> /\ Len(frames') = Len(frames) + 1
      /\ frames'[Len(frames')] = Frame(d) /\ frames'[1] = frames[1]
      /\ \A i \in DOMAIN frames' : \/ i \in DOMAIN frames /\ frames'[i] = frames[i]
                                   \/ frames'[i] = Frame(d)
  BY <1>2, <1>3, <1>6
<1>8. FragmentType'
  <2>1. fragmentStart' \in Times /\ fragmentStart' # None
    BY <1>2, <1>3 DEF Times, None
  <2>2. QED
    BY <1>2, <1>3, <1>7, <2>1 DEF FragmentType, FrameType, Times, Durations
<1>9. FramesInv'
  <2>1. \A i \in DOMAIN frames' : fragmentStart <= frames'[i].pts /\ frames'[i].pts <= pts'
    BY <1>1, <1>2, <1>3, <1>6, <1>7
  <2>2. frames'[Len(frames')].pts + frames'[Len(frames')].duration = pts'
    BY <1>3, <1>6, <1>7
  <2>3. /\ fragmentStart <= pts' - sinceKey'
        /\ \E e \in Durations : pts' - sinceKey' < fragmentStart + e
    <3>1. CASE key
      <4>1. pts' - sinceKey' = pts
        BY <1>1, <1>3, <3>1 DEF SinceKey
      <4>2. pts - fragmentStart < fragmentDuration
        <5>1. fragmentDuration \in Nat
          BY <1>2, MaxFirstIs
        <5>2. QED
          BY <1>1, <1>2, <3>1, <5>1 DEF AddFrame, ShouldFragment
      <4>3. pts < fragmentStart + fragmentDuration
        BY <1>1, <1>2, <4>2, MaxFirstIs
      <4>4. QED
        BY <1>2, <4>1, <4>3
    <3>2. CASE ~key
      <4>1. pts' - sinceKey' = pts - sinceKey
        BY <1>1, <1>3, <3>2 DEF SinceKey
      <4>2. QED
        BY <1>2, <4>1 DEF IInv, FramesInv
    <3>3. QED
      BY <3>1, <3>2
  <2>4. QED
    BY <1>2, <1>3, <1>7, <2>1, <2>2, <2>3 DEF FramesInv
<1>10. QED
  BY <1>5, <1>8, <1>9

\* finalize_fragment() leaves the clock of the session under way.
LEMMA Anchors ==
    ASSUME IInv, ~waiting, NEW now \in Arrivals, Anchor(now), sessionFirst' = SessionFirst,
           UNCHANGED <<ptsOffset, waiting>>, fragmentStart' \in Nat,
           fragmentStart <= fragmentStart'
    PROVE  /\ WriterType' /\ AnchorInv'
           /\ wallStart' = AnchorWall(now)
<1>1. /\ streamStart' = AnchorStart /\ wallStart' = AnchorWall(now)
      /\ sessionFirst' = SessionFirst
  BY DEF Anchor
<1>2. ptsOffset \in Nat /\ fragmentStart \in Nat
  BY PendingIs DEF IInv, Types, WriterType
<1>3. /\ streamStart' \in Nat /\ wallStart' \in Nat /\ sessionFirst' \in Nat
      /\ streamStart' + ptsOffset = sessionFirst' /\ ptsOffset <= fragmentStart
      /\ sessionFirst' <= fragmentStart
      /\ Epoch + sessionFirst' <= wallStart'
      /\ wallStart' < Epoch + sessionFirst' + MaxFirst + MaxLag
      /\ wallStart' <= Epoch + MaxLag + MaxPts
  BY <1>1, AnchoredNow
<1>4. WriterType'
  BY <1>2, <1>3 DEF WriterType, Anchored, Times, None
<1>5. MaxFirst' = MaxFirst
  BY DEF MaxFirst
<1>6. AnchorInv'
  <2>1. streamStart' # None /\ sessionFirst' # None
    BY <1>3 DEF None
  <2>2. sessionFirst' <= fragmentStart' /\ ptsOffset' <= fragmentStart'
    BY <1>2, <1>3
  <2>3. QED
    BY <1>3, <1>5, <2>1, <2>2 DEF AnchorInv, Anchored
<1>7. QED
  BY <1>1, <1>4, <1>6

\* Where no fragment is written the last cluster is what it was.
LEMMA ClusterKept ==
    ASSUME IInv, cluster' = cluster
    PROVE  ClusterType' /\ BlocksOnTime' /\ DelayBounded'
<1>1. MaxFirst' = MaxFirst
  BY DEF MaxFirst
<1>2. QED
  BY <1>1 DEF IInv, Types, ClusterType, BlocksOnTime, DelayBounded, BlockTime

\* A keyframe finds the fragment with some length.
LEMMA CutIs ==
    ASSUME IInv, NEW d \in FrameDurations, NextFragment(d)
    PROVE  /\ ~waiting /\ waiting = FALSE /\ ~ended /\ Arrives(TRUE, d)
           /\ waiting' = FALSE /\ fragmentStart' = pts /\ frames' = <<Frame(d)>>
           /\ pts \in Nat /\ fragmentStart \in Nat /\ pts - fragmentStart > 0
           /\ fragmentDuration \in Durations
<1>1. /\ ~waiting /\ ~ended /\ Arrives(TRUE, d) /\ ShouldFragment /\ waiting' = waiting
      /\ fragmentStart' = pts /\ frames' = <<Frame(d)>>
  BY DEF NextFragment, Arrives
<1>2. waiting \in BOOLEAN /\ fragmentDuration \in Durations
  BY DEF IInv, Types, FragmentType
<1>3. pts \in Nat /\ fragmentStart \in Nat
  BY <1>1, PendingIs
<1>4. pts - fragmentStart > 0
  <2>1. fragmentDuration \in Nat \ {0}
    BY <1>2, MaxFirstIs
  <2>2. QED
    BY <1>1, <1>3, <2>1 DEF ShouldFragment
<1>5. QED
  BY <1>1, <1>2, <1>3, <1>4

-----------------------------------------------------------------------------
(* The invariant.                                                          *)

\* Every start satisfies the invariant.
LEMMA InitHolds == Init => IInv
<1> SUFFICES ASSUME Init PROVE IInv
  OBVIOUS
<1>1. WriterType /\ FragmentType
  BY DEF Init, WriterType, FragmentType, Times, Anchored, None
<1>2. StreamType
  <2>1. pts = 0 /\ sinceKey = 0 /\ ended = FALSE
    BY DEF Init
  <2>2. 0 \in 0..MaxPts /\ 0 \in 0..MaxKeyInterval
    BY Limits
  <2>3. QED
    BY <2>1, <2>2 DEF StreamType
<1>3. ClusterType /\ BlocksOnTime /\ DelayBounded
  BY DEF Init, NoCluster, ClusterType, BlocksOnTime, DelayBounded, Times, None
<1>4. FramesInv /\ AnchorInv /\ PrevInv
  BY DEF Init, NoCluster, FramesInv, AnchorInv, PrevInv, Anchored
<1>5. QED
  BY <1>1, <1>2, <1>3, <1>4 DEF IInv, Types

\* A frame that is passed over changes nothing but the stream.
LEMMA SkipFrameKeeps ==
    ASSUME IInv, NEW d \in FrameDurations, SkipFrame(d)
    PROVE  IInv'
<1>1. /\ waiting /\ ~ended /\ waiting' = waiting /\ fragmentStart' = fragmentStart
      /\ frames' = frames /\ fragmentDuration' = fragmentDuration /\ ended' = ended
      /\ ptsOffset' = ptsOffset /\ streamStart' = streamStart /\ wallStart' = wallStart
      /\ sessionFirst' = sessionFirst /\ cluster' = cluster
      /\ pts + d <= MaxPts /\ sinceKey + d <= MaxKeyInterval
      /\ pts' = pts + d /\ sinceKey' = sinceKey + d
  BY DEF SkipFrame, Arrives, SinceKey, writer, fragment
<1>2. WriterType' /\ FragmentType'
  BY <1>1 DEF IInv, Types, WriterType, FragmentType, Anchored
<1>3. StreamType'
  BY <1>1, Limits DEF IInv, Types, StreamType
<1>4. FramesInv' /\ AnchorInv' /\ PrevInv'
  BY <1>1 DEF IInv, FramesInv, AnchorInv, PrevInv, Anchored
<1>5. QED
  BY <1>1, <1>2, <1>3, <1>4, ClusterKept DEF IInv, Types

\* The first keyframe opens the first fragment.
LEMMA FirstKeyframeKeeps ==
    ASSUME IInv, NEW d \in FrameDurations, FirstKeyframe(d)
    PROVE  IInv'
<1>1. /\ waiting /\ ~ended /\ Arrives(TRUE, d) /\ waiting' = FALSE
      /\ fragmentStart' = pts /\ frames' = <<Frame(d)>>
      /\ fragmentDuration' = fragmentDuration /\ ptsOffset' = ptsOffset
      /\ streamStart' = streamStart /\ wallStart' = wallStart
      /\ sessionFirst' = sessionFirst /\ cluster' = cluster
  BY DEF FirstKeyframe, Arrives, writer
<1>2. fragmentDuration' \in Durations /\ pts \in Nat
  BY <1>1 DEF IInv, Types, FragmentType, StreamType
<1>3. StreamType' /\ FragmentType' /\ FramesInv'
  BY <1>1, <1>2, Begins
<1>4. WriterType'
  BY <1>1 DEF IInv, Types, WriterType, Anchored
<1>5. AnchorInv' /\ PrevInv'
  BY <1>1, <1>2 DEF IInv, AnchorInv, PrevInv, Anchored
<1>6. QED
  BY <1>1, <1>3, <1>4, <1>5, ClusterKept DEF IInv, Types

\* The pending fragment grows.
LEMMA AddFrameKeeps ==
    ASSUME IInv, NEW d \in FrameDurations, NEW key \in BOOLEAN, AddFrame(key, d)
    PROVE  IInv'
<1>1. /\ ~waiting /\ ~ended /\ waiting' = waiting /\ fragmentStart' = fragmentStart
      /\ ptsOffset' = ptsOffset /\ streamStart' = streamStart /\ wallStart' = wallStart
      /\ sessionFirst' = sessionFirst /\ cluster' = cluster
  BY DEF AddFrame, Arrives, writer
<1>2. StreamType' /\ FragmentType' /\ FramesInv'
  BY Extends
<1>3. WriterType'
  BY <1>1 DEF IInv, Types, WriterType, Anchored
<1>4. AnchorInv'
  BY <1>1 DEF IInv, AnchorInv, Anchored
<1>5. PrevInv'
  BY <1>1 DEF IInv, PrevInv, Anchored
<1>6. QED
  BY <1>1, <1>2, <1>3, <1>4, <1>5, ClusterKept DEF IInv, Types

\* A fragment is written and the next one begins in its session.
LEMMA FragmentKeeps ==
    ASSUME IInv, NEW d \in FrameDurations, NEW now \in Arrivals, Fragment(d, now)
    PROVE  IInv'
<1>1. /\ ~waiting /\ waiting = FALSE /\ ~ended /\ Arrives(TRUE, d)
      /\ waiting' = FALSE /\ fragmentStart' = pts /\ frames' = <<Frame(d)>>
      /\ pts \in Nat /\ fragmentStart \in Nat /\ pts - fragmentStart > 0
      /\ fragmentDuration \in Durations
  BY CutIs DEF Fragment
<1>2. /\ Anchor(now) /\ WriteFragment(now) /\ sessionFirst' = SessionFirst
      /\ fragmentDuration' \in {fragmentDuration, BufferOnlyDuration}
      /\ ptsOffset' = ptsOffset
  BY DEF Fragment
<1>3. fragmentDuration' \in Durations
  BY <1>1, <1>2 DEF Durations
<1>4. StreamType' /\ FragmentType' /\ FramesInv'
  BY <1>1, <1>3, Begins
<1>5. WriterType' /\ AnchorInv' /\ wallStart' = AnchorWall(now)
  <2>1. fragmentStart' \in Nat /\ fragmentStart <= fragmentStart'
    BY <1>1
  <2>2. UNCHANGED <<ptsOffset, waiting>>
    BY <1>1, <1>2
  <2>3. QED
    BY <1>1, <1>2, <2>1, <2>2, Anchors
<1>6. ClusterType' /\ BlocksOnTime' /\ DelayBounded'
  BY <1>1, <1>2, WrittenOnTime
<1>7. PrevInv'
  <2>1. cluster'.duration = pts - fragmentStart
    BY <1>1, <1>2, Written
  <2>2. QED
    BY <1>1, <1>2, <1>5, <2>1, WrittenBefore DEF PrevInv, Milliseconds
<1>8. QED
  BY <1>4, <1>5, <1>6, <1>7 DEF IInv, Types

\* A fragment is written as the last of its session.
LEMMA FragmentAndResetKeeps ==
    ASSUME IInv, NEW d \in FrameDurations, NEW now \in Arrivals, FragmentAndReset(d, now)
    PROVE  IInv'
<1>1. /\ ~waiting /\ waiting = FALSE /\ ~ended /\ Arrives(TRUE, d)
      /\ waiting' = FALSE /\ fragmentStart' = pts /\ frames' = <<Frame(d)>>
      /\ pts \in Nat /\ fragmentStart \in Nat /\ pts - fragmentStart > 0
      /\ fragmentDuration \in Durations
  BY CutIs DEF FragmentAndReset
<1>2. /\ WriteFragment(now) /\ sessionFirst' = None
      /\ ptsOffset' = pts /\ streamStart' = None /\ wallStart' = None
      /\ fragmentDuration' \in {fragmentDuration, ImmediateDuration}
  BY DEF FragmentAndReset, ForgetAnchor
<1>3. fragmentDuration' \in Durations
  BY <1>1, <1>2 DEF Durations
<1>4. StreamType' /\ FragmentType' /\ FramesInv'
  BY <1>1, <1>3, Begins
<1>5. WriterType' /\ AnchorInv'
  BY <1>1, <1>2 DEF WriterType, AnchorInv, Anchored, Times
<1>6. ClusterType' /\ BlocksOnTime' /\ DelayBounded'
  BY <1>1, <1>2, WrittenOnTime
<1>7. PrevInv'
  <2>1. cluster'.duration = pts - fragmentStart
    BY <1>1, <1>2, Written
  <2>2. QED
    BY <1>1, <1>2, <2>1, WrittenBefore DEF PrevInv, Milliseconds, Anchored
<1>8. QED
  BY <1>4, <1>5, <1>6, <1>7 DEF IInv, Types

\* The writer fails when the session has its clock.
LEMMA FinalizeFailsKeeps ==
    ASSUME IInv, NEW now \in Arrivals, FinalizeFails(now)
    PROVE  IInv'
<1>1. /\ ~waiting /\ Anchor(now) /\ sessionFirst' = SessionFirst /\ ended' = TRUE
      /\ ptsOffset' = ptsOffset /\ waiting' = waiting /\ fragmentStart' = fragmentStart
      /\ frames' = frames /\ fragmentDuration' = fragmentDuration
      /\ pts' = pts /\ sinceKey' = sinceKey /\ cluster' = cluster
  BY DEF FinalizeFails, fragment
<1>2. FragmentType' /\ StreamType'
  BY <1>1 DEF IInv, Types, FragmentType, StreamType
<1>3. FramesInv' /\ PrevInv'
  BY <1>1 DEF IInv, FramesInv, PrevInv
<1>4. WriterType' /\ AnchorInv'
  <2>1. fragmentStart' \in Nat /\ fragmentStart <= fragmentStart'
    BY <1>1, PendingIs
  <2>2. QED
    BY <1>1, <2>1, Anchors
<1>5. QED
  BY <1>1, <1>2, <1>3, <1>4, ClusterKept DEF IInv, Types

\* The end of the stream.
LEMMA EosKeeps ==
    ASSUME IInv, NEW now \in Arrivals, Eos(now)
    PROVE  IInv'
<1>1. /\ ended' = TRUE /\ waiting' = waiting /\ fragmentStart' = fragmentStart
      /\ frames' = frames /\ fragmentDuration' = fragmentDuration
      /\ pts' = pts /\ sinceKey' = sinceKey
  BY DEF Eos, fragment
<1>2. FragmentType' /\ StreamType'
  BY <1>1 DEF IInv, Types, FragmentType, StreamType
<1>3. FramesInv' /\ PrevInv'
  BY <1>1 DEF IInv, FramesInv, PrevInv
<1>4. CASE waiting
  <2>1. /\ ptsOffset' = ptsOffset /\ streamStart' = streamStart /\ wallStart' = wallStart
        /\ sessionFirst' = sessionFirst /\ cluster' = cluster
    BY <1>4 DEF Eos, writer
  <2>2. WriterType' /\ AnchorInv'
    BY <1>1, <2>1 DEF IInv, Types, WriterType, AnchorInv, Anchored
  <2>3. QED
    BY <1>2, <1>3, <2>1, <2>2, ClusterKept DEF IInv, Types
<1>5. CASE ~waiting
  <2>1. /\ Anchor(now) /\ WriteFragment(now) /\ sessionFirst' = SessionFirst
        /\ ptsOffset' = ptsOffset
    BY <1>5 DEF Eos
  <2>2. fragmentStart' \in Nat /\ fragmentStart <= fragmentStart'
    BY <1>1, <1>5, PendingIs
  <2>3. WriterType' /\ AnchorInv'
    BY <1>1, <1>5, <2>1, <2>2, Anchors
  <2>4. QED
    BY <1>2, <1>3, <1>5, <2>1, <2>3, WrittenOnTime DEF IInv, Types
<1>6. QED
  BY <1>4, <1>5

\* A fallback, or a step that changes nothing.
LEMMA OthersKeep ==
    ASSUME IInv, FallBack \/ UNCHANGED vars
    PROVE  IInv'
<1>1. /\ ended' = ended /\ waiting' = waiting /\ fragmentStart' = fragmentStart
      /\ frames' = frames /\ pts' = pts /\ sinceKey' = sinceKey
      /\ ptsOffset' = ptsOffset /\ streamStart' = streamStart /\ wallStart' = wallStart
      /\ sessionFirst' = sessionFirst /\ cluster' = cluster
      /\ fragmentDuration' = fragmentDuration \/ fragmentDuration' = BufferOnlyDuration
  BY DEF FallBack, vars, writer, fragment, stream
<1>2. FragmentType'
  BY <1>1 DEF IInv, Types, FragmentType, Durations
<1>3. StreamType' /\ WriterType' /\ FramesInv' /\ PrevInv' /\ AnchorInv'
  BY <1>1 DEF IInv, Types, WriterType, StreamType, FramesInv, PrevInv, AnchorInv, Anchored
<1>4. QED
  BY <1>1, <1>2, <1>3, ClusterKept DEF IInv, Types

\* Every step keeps the invariant.
LEMMA StepHolds == IInv /\ [Next]_vars => IInv'
<1> SUFFICES ASSUME IInv, [Next]_vars PROVE IInv'
  OBVIOUS
<1>1. ASSUME NEW d \in FrameDurations, FrameArrives(d) PROVE IInv'
  BY <1>1, SkipFrameKeeps, FirstKeyframeKeeps, AddFrameKeeps, FragmentKeeps,
     FragmentAndResetKeeps DEF FrameArrives
<1>2. ASSUME NEW now \in Arrivals, FinalizeFails(now) \/ Eos(now) PROVE IInv'
  BY <1>2, FinalizeFailsKeeps, EosKeeps
<1>3. CASE FallBack \/ UNCHANGED vars
  BY <1>3, OthersKeep
<1>4. QED
  BY <1>1, <1>2, <1>3 DEF Next

\* The invariant holds in every state of every behaviour.
LEMMA Invariance == Spec => []IInv
  BY InitHolds, StepHolds, PTL DEF Spec

-----------------------------------------------------------------------------
(* The theorems.                                                           *)

\* The variables keep their types, and an anchor is whole or not there.
THEOREM TypeCorrect == Spec => []TypeOK
<1>1. IInv => TypeOK
  BY TypeOKFollows DEF IInv
<1>2. QED
  BY <1>1, Invariance, PTL

\* A player reads every frame back at its distance from its session's anchor, to
\* two roundings (finalize_fragment(), write_timecode()): nothing wraps, and offset
\* and anchor are of one session, whatever the resets.
THEOREM BlocksAreOnTime == Spec => []BlocksOnTime
<1>1. IInv => BlocksOnTime
  BY DEF IInv
<1>2. QED
  BY <1>1, Invariance, PTL

\* No frame is dated before it was captured, nor later than its session's first
\* fragment and the lag allow (finalize_fragment() reads the clock last).
THEOREM DelayIsBounded == Spec => []DelayBounded
<1>1. IInv => DelayBounded
  BY DEF IInv
<1>2. QED
  BY <1>1, Invariance, PTL

\* A cluster of the session of the one before it starts where that one ended.
LEMMA Follows ==
    ASSUME IInv, ~waiting, ~ended, NEW now \in Arrivals, WriteFragment(now),
           cluster'.session = cluster.session
    PROVE  Within(cluster'.time * UnitsPerMs,
                  cluster.time * UnitsPerMs + cluster.duration, UnitsPerMs)
<1>1. /\ cluster'.session \in Nat /\ cluster'.session = SessionFirst
      /\ cluster'.pts[1] = fragmentStart
      /\ cluster'.time = Milliseconds(cluster'.anchor + cluster'.pts[1] - cluster'.session)
      /\ cluster'.anchor = AnchorWall(now)
  BY WrittenBefore
<1>2. /\ cluster.pts # <<>> /\ cluster.pts[1] + cluster.duration = fragmentStart
      /\ cluster.session <= cluster.pts[1] /\ cluster.duration > 0
      /\ cluster.time = Milliseconds(cluster.anchor + cluster.pts[1] - cluster.session)
      /\ Anchored /\ cluster.session = sessionFirst => cluster.anchor = wallStart
  BY <1>1 DEF IInv, PrevInv, None
<1>3. /\ cluster.session \in Nat /\ cluster.duration \in Nat /\ cluster.pts[1] \in Nat
      /\ fragmentStart \in Nat /\ AnchorWall(now) \in Nat
  <2>1. /\ cluster.session \in Nat /\ cluster.duration \in Nat
        /\ cluster.pts \in Seq(Nat)
    BY <1>1 DEF IInv, Types, ClusterType
  <2>2. cluster.pts[1] \in Nat
    BY <1>2, <2>1
  <2>3. QED
    BY <2>1, <2>2, PendingIs, AnchoredNow
<1>4. Anchored
  <2>1. SUFFICES ASSUME ~Anchored PROVE FALSE
    OBVIOUS
  <2>2. SessionFirst = fragmentStart
    BY <2>1, PendingIs DEF SessionFirst
  <2>3. QED
    BY <1>1, <1>2, <1>3, <2>2
<1>5. cluster.anchor = AnchorWall(now)
  BY <1>1, <1>2, <1>4 DEF SessionFirst, AnchorWall
<1>6. PICK t, l : /\ t = AnchorWall(now) + cluster.pts[1] - cluster.session
                  /\ l = cluster.duration
  OBVIOUS
<1>7. /\ t \in Nat /\ l \in Nat
      /\ AnchorWall(now) + fragmentStart - cluster.session = t + l
  <2>1. PICK w, s, p : w = AnchorWall(now) /\ s = cluster.session /\ p = cluster.pts[1]
    OBVIOUS
  <2>2. /\ w \in Nat /\ s \in Nat /\ p \in Nat /\ l \in Nat
        /\ s <= p /\ fragmentStart = p + l /\ t = w + p - s
    BY <1>2, <1>3, <1>6, <2>1
  <2>3. t \in Nat /\ w + fragmentStart - s = t + l
    BY <2>2
  <2>4. QED
    BY <2>1, <2>2, <2>3
<1>8. cluster.time = Milliseconds(t) /\ cluster'.time = Milliseconds(t + l)
  BY <1>1, <1>2, <1>5, <1>6, <1>7
<1>9. PICK a, b : a = Milliseconds(t) * UnitsPerMs /\ b = Milliseconds(t + l) * UnitsPerMs
  OBVIOUS
<1>10. /\ a \in Int /\ b \in Int /\ a <= t /\ t < a + UnitsPerMs
       /\ b <= t + l /\ t + l < b + UnitsPerMs
  <2>1. t + l \in Nat
    BY <1>7
  <2>2. QED
    BY <1>7, <1>9, <2>1, Rounding, Limits
<1>11. b - (a + l) < UnitsPerMs /\ (a + l) - b < UnitsPerMs
  BY <1>7, <1>10, Limits
<1>12. QED
  BY <1>6, <1>8, <1>9, <1>11 DEF Within

\* Within a session the timestamps have no gap, to a rounding, whatever the mode
\* switches (finalize_fragment() and its anchor).
THEOREM ClustersFollow == Spec => ClustersContiguous
<1> DEFINE follows ==
      cluster' # cluster /\ cluster'.session = cluster.session =>
         Within(cluster'.time * UnitsPerMs,
                cluster.time * UnitsPerMs + cluster.duration, UnitsPerMs)
<1>1. IInv /\ [Next]_vars => [follows]_vars
  <2> SUFFICES ASSUME IInv, Next, cluster' # cluster, cluster'.session = cluster.session
               PROVE  Within(cluster'.time * UnitsPerMs,
                             cluster.time * UnitsPerMs + cluster.duration, UnitsPerMs)
    OBVIOUS
  <2>1. \E now \in Arrivals : ~waiting /\ ~ended /\ WriteFragment(now)
    BY DEF Next, FrameArrives, SkipFrame, FirstKeyframe, AddFrame, Fragment,
           FragmentAndReset, NextFragment, Arrives, FinalizeFails, Eos, FallBack
  <2>2. QED
    BY <2>1, Follows
<1>2. QED
  BY <1>1, Invariance, PTL DEF Spec, ClustersContiguous
==============================================================================
