------------------------------ MODULE SetupProofs ------------------------------
(***************************************************************************)
(* Proofs about Setup, for any machines, command lines and monitors: what  *)
(* the TLC run samples at boundaries holds everywhere.                     *)
(***************************************************************************)
EXTENDS Setup, TLAPS

-----------------------------------------------------------------------------
(* Addresses and elements.                                                 *)

\* The host's private IPv4 addresses are the tablet's.
LEMMA PrivateIsAccepted ==
  ASSUME NEW ip \in Address, ip.family = "v4", IsPrivateLanIp(ip)
  PROVE  TabletAccepts(ip)
<1>1. ip.a \in Byte /\ ip.b \in Byte
  BY DEF Address
<1>2. \/ ip.a \in {10, 127} \/ (ip.a = 172 /\ ip.b \in 16..31)
      \/ (ip.a = 192 /\ ip.b = 168) \/ (ip.a = 169 /\ ip.b = 254)
  BY DEF IsPrivateLanIp, PrivateV4, Loopback
<1> QED
  BY <1>1, <1>2 DEF TabletAccepts

\* A stream of the virtual monitor with the software encoder is made of the
\* elements that doctor checks and of four that it does not.
LEMMA VirtualElements ==
  ASSUME NEW a, NEW fallback, a.source = "virtual", EncoderName(a) = "x264"
  PROVE  /\ Checked \subseteq Elements(a, fallback)
         /\ Elements(a, fallback) \subseteq
              Checked \cup {"queue", "videoconvert", "videoscale", "glupload"}
BY DEF Elements, Checked

-----------------------------------------------------------------------------
(* What has been decided so far.                                           *)

FromCases == \E c \in Cases : machine = c[1] /\ args = c[2]

Capable == machine.virtual /\ machine.tcp

Decided ==
  /\ FromCases
  /\ verdict = "ready" => Capable /\ Checked \cap machine.missing = {}
  /\ verdict = "failed" => ~(Capable /\ Checked \cap machine.missing = {})
  /\ pc \in {"parsed", "listening", "built", "started"} => Parses(args)
  /\ pc \in {"listening", "built", "started"} =>
       /\ Validates(args) /\ machine.tcp
       /\ args.source = "virtual" => machine.virtual
  /\ pc \in {"built", "started"} =>
       /\ gl \in BOOLEAN /\ Elements(args, gl) \cap machine.missing = {}
       /\ gl = args.gl \/ (gl = TRUE /\ machine.start[args.gl] = "not negotiated")

\* A decision stands: neither the machine nor the arguments change.
LEMMA DecidedKept ==
  ASSUME Decided, [Next]_vars
  PROVE  Decided'
<1> USE DEF Decided, FromCases, Capable
<1>1. CASE Doctor
  BY <1>1, Zenon DEF Doctor
<1>2. CASE ParseArguments
  BY <1>2, Zenon DEF ParseArguments
<1>3. ASSUME NEW c \in Captures, Run(c)
      PROVE  Decided'
  BY <1>3, Zenon DEF Run
<1>4. CASE OpenSession
  <2>1. args.gl \in BOOLEAN
    BY SetupAssumption
  <2>2. /\ UNCHANGED <<machine, verdict, args, capture>> /\ pc = "listening"
        /\ \/ Builds(args.gl) /\ pc' = "built" /\ gl' = args.gl
           \/ pc' = "failed"
    BY <1>4, Zenon DEF OpenSession
  <2> QED
    BY <2>1, <2>2 DEF Builds, Elements, EncoderName
<1>6. CASE Start
  <2>1. /\ UNCHANGED <<machine, verdict, args, capture>> /\ pc = "built"
        /\ \/ pc' = "started" /\ gl' = gl
           \/ pc' = "failed"
           \/ /\ machine.start[gl] = "not negotiated" /\ ~gl /\ Builds(TRUE)
              /\ gl' = TRUE /\ pc' = pc
    BY <1>6, Zenon DEF Start
  <2> QED
    BY <2>1 DEF Builds, Elements, EncoderName
<1>5. CASE UNCHANGED vars
  BY <1>5 DEF vars, Elements, EncoderName
<1> QED
  BY <1>1, <1>2, <1>3, <1>4, <1>5, <1>6 DEF Next

\* The invariant of the theorems below.
LEMMA AlwaysDecided == Spec => []Decided
<1>1. Init => Decided
  BY DEF Init, Decided, FromCases
<1> QED
  BY <1>1, DecidedKept, PTL DEF Spec

\* Whatever IPv4 address the host agrees to serve on, the tablet agrees to
\* connect to.
THEOREM LanIsTheSame == Spec => []LanIsTheSameForBoth
<1>1. Decided => LanIsTheSameForBoth
  <2> SUFFICES ASSUME Decided, pc = "listening", args.listen.family = "v4"
               PROVE  TabletAccepts(args.listen)
    BY DEF LanIsTheSameForBoth
  <2>1. args.listen \in Address
    BY SetupAssumption DEF Decided, FromCases
  <2> QED
    BY <2>1, PrivateIsAccepted DEF Decided, Validates
<1> QED
  BY <1>1, AlwaysDecided, PTL

\* Where a stream of the virtual monitor starts with the software encoder, doctor
\* has not complained.
THEOREM AlarmsAreTrue == Spec => []NoFalseAlarm
<1>1. Decided => NoFalseAlarm
  BY VirtualElements DEF Decided, Capable, NoFalseAlarm
<1> QED
  BY <1>1, AlwaysDecided, PTL

\* Why serve has failed, where it has.
Blamed ==
  pc = "failed" =>
    \/ ~Parses(args) \/ ~Validates(args) \/ ~machine.tcp
    \/ args.source = "virtual" /\ ~machine.virtual
    \/ \E fallback \in BOOLEAN : ~Builds(fallback)
    \/ NeverPlays

\* On a machine that doctor calls ready, a valid command line starts the stream
\* of the virtual monitor with the software encoder unless something stands in
\* the way that doctor does not look for: a base element, the ICE address, or a
\* pipeline that does not start.
THEOREM ReadyIsReady == Spec => []ReadyStreams
<1>1. Init => Blamed
  BY DEF Init, Blamed
<1>2. Decided /\ Blamed /\ [Next]_vars => Blamed'
  <2> SUFFICES ASSUME Decided, Blamed, [Next]_vars
               PROVE  Blamed'
    OBVIOUS
  <2> USE DEF Blamed
  <2>1. CASE Doctor
    BY <2>1 DEF Doctor
  <2>2. CASE ParseArguments
    BY <2>2, Zenon DEF ParseArguments
  <2>3. ASSUME NEW c \in Captures, Run(c)
        PROVE  Blamed'
    BY <2>3, Zenon DEF Run
  <2>4. CASE OpenSession
    <3>1. args.gl \in BOOLEAN
      BY SetupAssumption DEF Decided, FromCases
    <3>2. /\ UNCHANGED <<machine, args>>
          /\ pc' = "built" \/ ~Builds(args.gl)
      BY <2>4, Zenon DEF OpenSession
    <3> QED
      BY <3>1, <3>2 DEF Builds, Elements, EncoderName
  <2>5. CASE Start
    <3>1. /\ UNCHANGED <<machine, args>>
          /\ \/ pc' \in {"built", "started"}
             \/ machine.start[gl] = "fails"
             \/ machine.start[gl] = "not negotiated" /\ (gl \/ ~Builds(TRUE))
          /\ gl \in BOOLEAN
          /\ gl = args.gl \/ (gl = TRUE /\ machine.start[args.gl] = "not negotiated")
      BY <2>5, Zenon DEF Start, Decided
    <3>2. CASE ~Builds(TRUE)
      BY <3>1, <3>2 DEF Builds, Elements, EncoderName
    <3>3. CASE pc' = "failed" /\ Builds(TRUE)
      BY <3>1, <3>3 DEF NeverPlays
    <3> QED
      BY <3>1, <3>2, <3>3
  <2>6. CASE UNCHANGED vars
    BY <2>6 DEF vars, Builds, Elements, EncoderName, NeverPlays
  <2> QED
    BY <2>1, <2>2, <2>3, <2>4, <2>5, <2>6 DEF Next
<1>3. Decided /\ Blamed => ReadyStreams
  <2> SUFFICES ASSUME Decided, Blamed,
                      verdict = "ready", pc = "failed", Parses(args), Validates(args),
                      args.source = "virtual", EncoderName(args) = "x264",
                      machine.address, ~NeverPlays
               PROVE  \E e \in machine.missing :
                        e \in {"queue", "videoconvert", "videoscale", "glupload"}
    BY DEF ReadyStreams
  <2>1. PICK fallback \in BOOLEAN : Elements(args, fallback) \cap machine.missing # {}
    BY DEF Decided, Capable, Blamed, Builds
  <2>2. Checked \cap machine.missing = {}
    BY DEF Decided
  <2> QED
    BY <2>1, <2>2, VirtualElements
<1> QED
  BY <1>1, <1>2, <1>3, AlwaysDecided, PTL DEF Spec

-----------------------------------------------------------------------------
(***************************************************************************)
(* The size of the stream.  m is the limit and s the monitor; the scale is *)
(* m / s in the direction in which that is less.  There the stream fills   *)
(* the limit but for rounding, and in the other direction the quotient is  *)
(* within the limit because the scale there would have been larger.        *)
(***************************************************************************)

\* Rounding to an even number.
LEMMA EvenValue ==
  ASSUME NEW n \in Nat
  PROVE  /\ Even(n) \in {n, n - 1} /\ Even(n) \in Nat /\ Even(n) % 2 = 0
         /\ n >= 2 => Even(n) >= 2
BY DEF Even

\* A quotient, as whole numbers and as products.
LEMMA Quotient ==
  ASSUME NEW n \in Nat, NEW d \in Nat \ {0}
  PROVE  /\ n \div d \in Nat
         /\ (n \div d) * d <= n /\ n < (n \div d) * d + d
OBVIOUS

\* One short of it, where the floats may come out so, is not below what is left.
LEMMA FloorValue ==
  ASSUME NEW n \in Nat, NEW d \in Nat \ {0}, NEW f \in FloorOfFloats(n, d)
  PROVE  \E q \in Nat : /\ q * d <= n /\ n < q * d + d /\ f \in {q, q - 1}
BY Quotient DEF FloorOfFloats

\* A product grows with its factor.
LEMMA ProductGrows ==
  ASSUME NEW a \in Nat, NEW b \in Nat, NEW c \in Nat \ {0}
  PROVE  /\ a * c \in Nat /\ b * c \in Nat
         /\ a <= b => a * c <= b * c
         /\ a < b => a * c + c <= b * c
<1>1. a * c \in Nat /\ b * c \in Nat
  OBVIOUS
<1>2. ASSUME a < b
      PROVE  a * c + c <= b * c
  <2>1. PICK k \in Nat : b = (a + 1) + k
    BY <1>2
  <2>2. b * c = (a * c + c) + k * c /\ k * c \in Nat
    BY <2>1
  <2> QED
    BY <1>1, <2>2
<1>3. a < b => a * c <= b * c
  BY <1>1, <1>2
<1> QED
  BY <1>1, <1>2, <1>3

Side(f) == Even(AtLeastTwo(f))

\* A side is even, two pixels or more, and otherwise rounded down by less than two.
LEMMA SideValue ==
  ASSUME NEW f \in Int, f >= -1
  PROVE  /\ Side(f) \in Nat /\ Side(f) % 2 = 0 /\ Side(f) >= 2
         /\ \A n \in Nat : f <= n /\ n >= 2 => Side(f) <= n
         /\ f >= 2 => Side(f) \in {f, f - 1}
         /\ Side(f) # 2 => f >= 4
<1>1. AtLeastTwo(f) \in Nat /\ AtLeastTwo(f) >= 2
      /\ AtLeastTwo(f) = IF f < 2 THEN 2 ELSE f
  BY DEF AtLeastTwo
<1>2. /\ Side(f) \in {AtLeastTwo(f), AtLeastTwo(f) - 1} /\ Side(f) \in Nat
      /\ Side(f) % 2 = 0 /\ Side(f) >= 2
  BY <1>1, EvenValue DEF Side
<1>3. Side(f) # 3
  BY <1>2
<1> QED
  BY <1>1, <1>2, <1>3

\* In the direction of the scale.
LEMMA AlongTheScale ==
  ASSUME NEW s \in Nat \ {0}, NEW m \in Nat, NEW f \in FloorOfFloats(s * m, s)
  PROVE  f \in {m, m - 1}
<1>0. s * m \in Nat /\ s * m = m * s
  OBVIOUS
<1>1. PICK q \in Nat : /\ q * s <= s * m /\ s * m < q * s + s /\ f \in {q, q - 1}
  BY <1>0, FloorValue
<1>2. ~(q < m)
  BY <1>0, <1>1, ProductGrows
<1>3. ~(m < q)
  BY <1>0, <1>1, ProductGrows
<1> QED
  BY <1>1, <1>2, <1>3

\* Both sides of a stream that is scaled by mi / si, which is at most mj / sj.
LEMMA ScaledSides ==
  ASSUME NEW si \in Nat \ {0}, NEW sj \in Nat \ {0}, NEW mi \in Nat, NEW mj \in Nat,
         mi >= 2, mj >= 2, sj * mi <= mj * si,
         NEW fi \in FloorOfFloats(si * mi, si), NEW fj \in FloorOfFloats(sj * mi, si)
  PROVE  /\ Side(fi) \in Nat /\ Side(fi) % 2 = 0 /\ Side(fi) >= 2 /\ Side(fi) <= mi
         /\ Side(fj) \in Nat /\ Side(fj) % 2 = 0 /\ Side(fj) >= 2 /\ Side(fj) <= mj
         /\ Side(fi) >= mi - 2
         /\ \/ Side(fi) = 2 \/ Side(fj) = 2
            \/ /\ Side(fi) * sj - Side(fj) * si < 3 * (si + sj)
               /\ Side(fj) * si - Side(fi) * sj < 3 * (si + sj)
<1>0. sj * mi \in Nat /\ mj * si \in Nat /\ sj * mi = mi * sj
  OBVIOUS
<1>1. fi \in {mi, mi - 1}
  BY AlongTheScale
<1>2. PICK q \in Nat : /\ q * si <= sj * mi /\ sj * mi < q * si + si
                       /\ fj \in {q, q - 1}
  BY <1>0, FloorValue
<1>3. q <= mj
  <2>1. ~(mj < q)
    BY <1>0, <1>2, ProductGrows
  <2> QED
    BY <2>1
<1>4. fi \in Int /\ fi >= -1 /\ fi <= mi /\ fj \in Int /\ fj >= -1 /\ fj <= mj
  BY <1>1, <1>2, <1>3
<1>5. /\ Side(fi) \in Nat /\ Side(fi) % 2 = 0 /\ Side(fi) >= 2 /\ Side(fi) <= mi
      /\ Side(fj) \in Nat /\ Side(fj) % 2 = 0 /\ Side(fj) >= 2 /\ Side(fj) <= mj
  BY <1>4, SideValue
<1>6. Side(fi) >= mi - 2
  <2>1. CASE fi >= 2
    BY <1>1, <1>4, <1>5, <2>1, SideValue
  <2>2. CASE fi < 2
    BY <1>1, <1>4, <1>5, <2>2
  <2> QED
    BY <1>4, <2>1, <2>2
<1>7. ASSUME Side(fi) # 2, Side(fj) # 2
      PROVE  /\ Side(fi) * sj - Side(fj) * si < 3 * (si + sj)
             /\ Side(fj) * si - Side(fi) * sj < 3 * (si + sj)
  <2>1. PICK a \in 0..2 : Side(fi) = mi - a
    BY <1>1, <1>4, <1>7, SideValue
  <2>2. PICK b \in 0..2 : Side(fj) = q - b
    BY <1>2, <1>4, <1>7, SideValue
  <2>3. Side(fi) * sj = mi * sj - a * sj /\ a * sj \in {0, sj, 2 * sj}
    BY <2>1
  <2>4. Side(fj) * si = q * si - b * si /\ b * si \in {0, si, 2 * si}
    BY <2>2
  <2>5. q * si \in Nat
    OBVIOUS
  <2> QED
    BY <1>0, <1>2, <2>3, <2>4, <2>5
<1> QED
  BY <1>5, <1>6, <1>7

\* e suits the limit m and the monitor s: what EncodedFits says of them.
Suits(e, s, m) ==
  /\ \A i \in {1, 2} : e[i] % 2 = 0 /\ e[i] >= 2 /\ e[i] <= m[i]
  /\ \/ \A i \in {1, 2} : e[i] = Even(s[i])
     \/ \E i \in {1, 2} : e[i] >= m[i] - 2
  /\ \/ \E i \in {1, 2} : e[i] = 2
     \/ Abs(e[1] * s[2] - e[2] * s[1]) < 3 * (s[1] + s[2])

\* Two whole numbers are close if neither exceeds the other by much.
LEMMA CloseTogether ==
  ASSUME NEW x \in Int, NEW y \in Int, NEW d \in Int, x - y < d, y - x < d
  PROVE  Abs(x - y) < d
BY DEF Abs

\* A monitor within the limit loses at most a row and a column of pixels.
LEMMA UnscaledSuits ==
  ASSUME NEW s, NEW m, NEW e,
         s[1] \in Nat, s[2] \in Nat, m[1] \in Nat, m[2] \in Nat,
         s[1] >= 2, s[2] >= 2, s[1] <= m[1], s[2] <= m[2],
         e[1] = Even(s[1]), e[2] = Even(s[2])
  PROVE  Suits(e, s, m)
<1>1. /\ e[1] \in Nat /\ e[1] % 2 = 0 /\ e[1] >= 2 /\ e[1] <= m[1]
      /\ e[2] \in Nat /\ e[2] % 2 = 0 /\ e[2] >= 2 /\ e[2] <= m[2]
  BY EvenValue
<1>2. PICK a \in {0, 1} : e[1] = s[1] - a
  BY EvenValue
<1>3. PICK b \in {0, 1} : e[2] = s[2] - b
  BY EvenValue
<1>4. s[1] * s[2] \in Nat /\ s[2] * s[1] = s[1] * s[2]
  OBVIOUS
<1>5. e[1] * s[2] \in {s[1] * s[2], s[1] * s[2] - s[2]}
  <2>1. CASE a = 0
    BY <1>2, <2>1
  <2>2. CASE a = 1
    BY <1>2, <2>2
  <2> QED
    BY <2>1, <2>2
<1>6. e[2] * s[1] \in {s[1] * s[2], s[1] * s[2] - s[1]}
  <2>1. CASE b = 0
    BY <1>3, <1>4, <2>1
  <2>2. CASE b = 1
    BY <1>3, <1>4, <2>2
  <2> QED
    BY <2>1, <2>2
<1>7. Abs(e[1] * s[2] - e[2] * s[1]) < 3 * (s[1] + s[2])
  <2>1. /\ e[1] * s[2] - e[2] * s[1] < 3 * (s[1] + s[2])
        /\ e[2] * s[1] - e[1] * s[2] < 3 * (s[1] + s[2])
    <3>1. ASSUME NEW x \in Int, NEW y \in Int, NEW n \in Int, NEW u \in Nat, NEW v \in Nat,
                 u >= 2, v >= 2, x \in {n, n - v}, y \in {n, n - u}
          PROVE  x - y < 3 * (u + v) /\ y - x < 3 * (u + v)
      BY <3>1
    <3>2. e[1] * s[2] \in Int /\ e[2] * s[1] \in Int /\ s[1] * s[2] \in Int
      BY <1>1, <1>4
    <3> QED
      BY <1>5, <1>6, <3>1, <3>2
  <2>2. e[1] * s[2] \in Int /\ e[2] * s[1] \in Int /\ 3 * (s[1] + s[2]) \in Int
    BY <1>1
  <2> QED
    BY <2>1, <2>2, CloseTogether
<1> QED
  BY <1>1, <1>7 DEF Suits

\* Every size that fit_dimensions may return suits.
LEMMA FittedSuits ==
  ASSUME NEW s, NEW m, NEW e \in FitDimensions(s, m),
         s[1] \in Nat, s[2] \in Nat, m[1] \in Nat, m[2] \in Nat,
         s[1] >= 2, s[2] >= 2, m[1] >= 2, m[2] >= 2
  PROVE  Suits(e, s, m)
<1>1. CASE s[1] <= m[1] /\ s[2] <= m[2]
  <2>1. e = <<Even(s[1]), Even(s[2])>>
    BY <1>1 DEF FitDimensions
  <2> QED
    BY <1>1, <2>1, UnscaledSuits
<1>2. CASE ~(s[1] <= m[1] /\ s[2] <= m[2]) /\ m[1] * s[2] <= m[2] * s[1]
  <2>1. PICK f \in FloorOfFloats(s[1] * m[1], s[1]), g \in FloorOfFloats(s[2] * m[1], s[1]) :
          e[1] = Side(f) /\ e[2] = Side(g)
    BY <1>2 DEF FitDimensions, Side
  <2>2. s[2] * m[1] <= m[2] * s[1] /\ s[1] \in Nat \ {0} /\ s[2] \in Nat \ {0}
    BY <1>2
  <2>6. /\ Side(f) \in Nat /\ Side(f) % 2 = 0 /\ Side(f) >= 2 /\ Side(f) <= m[1]
        /\ Side(g) \in Nat /\ Side(g) % 2 = 0 /\ Side(g) >= 2 /\ Side(g) <= m[2]
        /\ Side(f) >= m[1] - 2
        /\ \/ Side(f) = 2 \/ Side(g) = 2
           \/ /\ Side(f) * s[2] - Side(g) * s[1] < 3 * (s[1] + s[2])
              /\ Side(g) * s[1] - Side(f) * s[2] < 3 * (s[1] + s[2])
    BY <2>2, ScaledSides
  <2>3. /\ e[1] \in Nat /\ e[1] % 2 = 0 /\ e[1] >= 2 /\ e[1] <= m[1]
        /\ e[2] \in Nat /\ e[2] % 2 = 0 /\ e[2] >= 2 /\ e[2] <= m[2]
        /\ e[1] >= m[1] - 2
        /\ \/ e[1] = 2 \/ e[2] = 2
           \/ /\ e[1] * s[2] - e[2] * s[1] < 3 * (s[1] + s[2])
              /\ e[2] * s[1] - e[1] * s[2] < 3 * (s[1] + s[2])
    BY <2>1, <2>6, Zenon
  <2>4. e[1] * s[2] \in Int /\ e[2] * s[1] \in Int /\ 3 * (s[1] + s[2]) \in Int
    BY <2>3
  <2>5. e[1] = 2 \/ e[2] = 2 \/ Abs(e[1] * s[2] - e[2] * s[1]) < 3 * (s[1] + s[2])
    BY <2>3, <2>4, CloseTogether
  <2> QED
    BY <2>3, <2>5 DEF Suits
<1>3. CASE ~(s[1] <= m[1] /\ s[2] <= m[2]) /\ ~(m[1] * s[2] <= m[2] * s[1])
  <2>1. PICK f \in FloorOfFloats(s[2] * m[2], s[2]), g \in FloorOfFloats(s[1] * m[2], s[2]) :
          e[2] = Side(f) /\ e[1] = Side(g)
    BY <1>3 DEF FitDimensions, Side
  <2>2. s[1] * m[2] <= m[1] * s[2] /\ s[2] \in Nat \ {0} /\ s[1] \in Nat \ {0}
    BY <1>3
  <2>6. /\ Side(f) \in Nat /\ Side(f) % 2 = 0 /\ Side(f) >= 2 /\ Side(f) <= m[2]
        /\ Side(g) \in Nat /\ Side(g) % 2 = 0 /\ Side(g) >= 2 /\ Side(g) <= m[1]
        /\ Side(f) >= m[2] - 2
        /\ \/ Side(f) = 2 \/ Side(g) = 2
           \/ /\ Side(f) * s[1] - Side(g) * s[2] < 3 * (s[2] + s[1])
              /\ Side(g) * s[2] - Side(f) * s[1] < 3 * (s[2] + s[1])
    BY <2>2, ScaledSides
  <2>3. /\ e[1] \in Nat /\ e[1] % 2 = 0 /\ e[1] >= 2 /\ e[1] <= m[1]
        /\ e[2] \in Nat /\ e[2] % 2 = 0 /\ e[2] >= 2 /\ e[2] <= m[2]
        /\ e[2] >= m[2] - 2
        /\ \/ e[2] = 2 \/ e[1] = 2
           \/ /\ e[2] * s[1] - e[1] * s[2] < 3 * (s[2] + s[1])
              /\ e[1] * s[2] - e[2] * s[1] < 3 * (s[2] + s[1])
    BY <2>1, <2>6, Zenon
  <2>4. /\ e[1] * s[2] \in Int /\ e[2] * s[1] \in Int /\ 3 * (s[1] + s[2]) \in Int
        /\ 3 * (s[2] + s[1]) = 3 * (s[1] + s[2])
    BY <2>3
  <2>5. e[1] = 2 \/ e[2] = 2 \/ Abs(e[1] * s[2] - e[2] * s[1]) < 3 * (s[1] + s[2])
    BY <2>3, <2>4, CloseTogether
  <2> QED
    BY <2>3, <2>5 DEF Suits
<1> QED
  BY <1>1, <1>2, <1>3

\* The stream has the size that was computed from the captured monitor.
Sized ==
  /\ pc \in {"listening", "built", "started"} => capture \in Captures \cup {args.size}
  /\ pc \in {"built", "started"} => encoded \in FitDimensions(capture, args.size)

\* The stream's size suits the encoder, the limit and the monitor, however the
\* floats are rounded, for monitors of any size from two pixels.
THEOREM StreamFits ==
  ASSUME \A c \in Captures : c[1] >= 2 /\ c[2] >= 2
  PROVE  Spec => []EncodedFits
<1>1. Init => Sized
  BY DEF Init, Sized
<1>2. Sized /\ [Next]_vars => Sized'
  BY DEF Sized, Next, Doctor, ParseArguments, Run, OpenSession, Start, vars
<1>3. Decided /\ Sized => EncodedFits
  <2> SUFFICES ASSUME Decided, Sized, pc \in {"built", "started"}
               PROVE  Suits(encoded, capture, args.size)
    BY DEF EncodedFits, Suits
  <2>1. /\ args.size[1] \in Nat /\ args.size[2] \in Nat
        /\ args.size[1] >= 320 /\ args.size[2] >= 240
    <3>1. PICK c \in Cases : args = c[2]
      BY DEF Decided, FromCases
    <3>2. /\ args.size[1] \in Nat /\ args.size[2] \in Nat /\ args.fps \in Nat
          /\ args.ports[1] \in Nat /\ args.ports[2] \in Nat /\ args.bitrate \in Nat
      BY <3>1, SetupAssumption
    <3>3. args.size[1] >= 320 /\ args.size[2] >= 240
      <4>1. Parses(args)
        BY DEF Decided
      <4> QED
        BY <3>2, <4>1 DEF Parses
    <3> QED
      BY <3>2, <3>3
  <2>2. /\ capture[1] \in Nat /\ capture[2] \in Nat /\ capture[1] >= 2 /\ capture[2] >= 2
    BY <2>1, SetupAssumption DEF Sized
  <2> QED
    BY <2>1, <2>2, FittedSuits DEF Sized
<1> QED
  BY <1>1, <1>2, <1>3, AlwaysDecided, PTL DEF Spec
=============================================================================
