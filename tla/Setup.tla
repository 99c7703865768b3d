-------------------------------- MODULE Setup --------------------------------
(***************************************************************************)
(* From the command line to the stream's parameters: the checks of doctor, *)
(* of the argument parser and of ServeArgs::validate, the choice of the    *)
(* encoder and the pipeline's elements, the size of the stream and the     *)
(* start of the pipeline, on a machine that may lack something; and what   *)
(* the tablet accepts of it.  A pipeline that has started may still stop:  *)
(* see Negotiation.                                                        *)
(*                                                                         *)
(* An address is its family and as much of it as decides its scope: two    *)
(* octets, or the scope itself.                                            *)
(***************************************************************************)
EXTENDS Integers

CONSTANTS
  Cases,           \* pairs of a machine and what may be typed after "serve"
  Captures         \* sizes of the captured monitor

Source == {"virtual", "monitor", "test"}
Encoder == {"auto", "nvenc", "x264"}
Byte == 0..255
Address == [family : {"v4"}, a : Byte, b : Byte]
  \cup [family : {"v6"}, scope : {"unspecified", "loopback", "unique local",
                                  "link local", "global"}]

\* What doctor looks for, and what else the pipelines are made of.
Checked == {"pipewiresrc", "webrtcbin", "x264enc", "h264parse", "rtph264pay",
            "videorate"}
Element == Checked \cup {"videotestsrc", "queue", "videoconvert", "glupload",
                         "videoscale", "nvh264enc"}

Machine == [missing : SUBSET Element,
            virtual : BOOLEAN,          \* the portal has virtual sources
            tcp : BOOLEAN,              \* the signalling port is free
            address : BOOLEAN,          \* GStreamer takes the ICE address
            start : [BOOLEAN -> {"plays", "not negotiated", "fails"}]]
                       \* what comes of a pipeline without and with OpenGL

ASSUME SetupAssumption ==
  /\ \A c \in Cases : c[1] \in Machine
  /\ \A c \in Cases : LET a == c[2] IN
       /\ {a.listen, a.ice} \subseteq Address
       /\ {a.ports[1], a.ports[2], a.size[1], a.size[2], a.fps, a.bitrate}
             \subseteq Nat
       /\ a.source \in Source /\ a.encoder \in Encoder /\ a.gl \in BOOLEAN
  /\ \A c \in Captures : c[1] \in Nat \ {0} /\ c[2] \in Nat \ {0}

VARIABLES
  machine,
  verdict,         \* of doctor, run on this machine: "none", "ready", "failed"
  pc,              \* "shell", "parsed", "listening", "built", "started", "failed"
  args,            \* what serve was called with
  capture,         \* the size the portal reports
  encoded,         \* the size of the stream
  gl               \* uses_gl_fallback of the session

vars == <<machine, verdict, pc, args, capture, encoded, gl>>

-----------------------------------------------------------------------------
(* Addresses.                                                              *)

\* Mutant: a /12 taken for 172.16 to 172.32.
PrivateV4Wide(ip) == ip.a = 10 \/ (ip.a = 172 /\ ip.b \in 16..32)
                     \/ (ip.a = 192 /\ ip.b = 168)

\* Ipv4Addr::is_private.
PrivateV4(ip) == ip.a = 10 \/ (ip.a = 172 /\ ip.b \in 16..31)
                 \/ (ip.a = 192 /\ ip.b = 168)

Loopback(ip) == IF ip.family = "v4" THEN ip.a = 127 ELSE ip.scope = "loopback"

IsPrivateLanIp(ip) ==
  IF ip.family = "v4"
  THEN PrivateV4(ip) \/ Loopback(ip) \/ (ip.a = 169 /\ ip.b = 254)
  ELSE ip.scope \in {"loopback", "unique local", "link local"}

\* EndpointPolicy: ws:// with a numeric private IPv4 address, in the builds
\* that allow it at all.
TabletAccepts(ip) ==
  /\ ip.family = "v4"
  /\ <<ip.a, ip.b>> \in ({10, 127} \X Byte) \cup ({172} \X (16..31))
                        \cup {<<192, 168>>, <<169, 254>>}

-----------------------------------------------------------------------------
(* Arguments.                                                              *)

\* The value parsers: parse_port_range, parse_size and the ranges of clap.
Parses(a) ==
  /\ 0 < a.ports[1] /\ a.ports[1] <= a.ports[2] /\ a.ports[2] < 65536
  /\ a.size[1] >= 320 /\ a.size[2] >= 240
  /\ a.fps \in 1..60 /\ 500 <= a.bitrate /\ a.bitrate <= 50000

\* ServeArgs::validate.  The unspecified address is not private either.
Validates(a) ==
  /\ IsPrivateLanIp(a.ice) /\ ~Loopback(a.ice)
  /\ IsPrivateLanIp(a.listen)

\* encoder_name.
EncoderName(a) ==
  IF a.encoder = "nvenc" \/ (a.encoder = "auto" /\ "nvh264enc" \notin machine.missing)
  THEN "nvenc" ELSE "x264"

\* The elements of the description in new_with_gl.
Elements(a, fallback) ==
  {"queue", "videoscale", "videorate", "h264parse", "rtph264pay", "webrtcbin",
   IF a.source = "test" THEN "videotestsrc" ELSE "pipewiresrc",
   IF fallback THEN "glupload" ELSE "videoconvert",
   IF EncoderName(a) = "nvenc" THEN "nvh264enc" ELSE "x264enc"}

-----------------------------------------------------------------------------
(* fit_dimensions.  The scale is a quotient of floats.  Multiplied by a    *)
(* dimension and rounded down it may come out one short where the product  *)
(* is a whole number; other products are too far from one for the          *)
(* rounding errors to matter.                                              *)

Even(n) == n - (n % 2)
AtLeastTwo(n) == IF n < 2 THEN 2 ELSE n
FloorOfFloats(n, d) == {n \div d} \cup (IF n % d = 0 THEN {(n \div d) - 1} ELSE {})

\* Mutant: the larger of the two scales.
FitDimensionsToCover(s, m) ==
  IF s[1] <= m[1] /\ s[2] <= m[2]
  THEN {<<Even(s[1]), Even(s[2])>>}
  ELSE LET i == IF m[1] * s[2] >= m[2] * s[1] THEN 1 ELSE 2
           Scaled(j) == {Even(AtLeastTwo(n)) : n \in FloorOfFloats(s[j] * m[i], s[i])}
       IN  Scaled(1) \X Scaled(2)

\* The sizes it may return.
FitDimensions(s, m) ==
  IF s[1] <= m[1] /\ s[2] <= m[2]
  THEN {<<Even(s[1]), Even(s[2])>>}
  ELSE LET i == IF m[1] * s[2] <= m[2] * s[1] THEN 1 ELSE 2
           Scaled(j) == {Even(AtLeastTwo(n)) : n \in FloorOfFloats(s[j] * m[i], s[i])}
       IN  Scaled(1) \X Scaled(2)

-----------------------------------------------------------------------------
NoSize == <<0, 0>>

Init ==
  /\ \E c \in Cases : machine = c[1] /\ args = c[2]
  /\ verdict = "none" /\ pc = "shell" /\ capture = NoSize /\ encoded = NoSize
  /\ gl = FALSE

\* Mutant: the GPU's encoder is looked for like the others.
DoctorWantsNvenc ==
  /\ pc = "shell" /\ verdict = "none"
  /\ verdict' = IF /\ machine.virtual /\ machine.tcp
                   /\ (Checked \cup {"nvh264enc"}) \cap machine.missing = {}
                THEN "ready" ELSE "failed"
  /\ UNCHANGED <<machine, pc, args, capture, encoded, gl>>

\* doctor::run with the address that serve will use.
Doctor ==
  /\ pc = "shell" /\ verdict = "none"
  /\ verdict' = IF /\ machine.virtual /\ machine.tcp
                   /\ Checked \cap machine.missing = {}
                THEN "ready" ELSE "failed"
  /\ UNCHANGED <<machine, pc, args, capture, encoded, gl>>

\* Cli::parse.
ParseArguments ==
  /\ pc = "shell"
  /\ pc' = IF Parses(args) THEN "parsed" ELSE "failed"
  /\ UNCHANGED <<machine, verdict, args, capture, encoded, gl>>

\* The portal gives the monitor, or there is the test pattern of the largest
\* size, and run checks the addresses and binds one.
Run(size) ==
  /\ pc = "parsed"
  /\ capture' = IF args.source = "test" THEN args.size ELSE size
  /\ pc' = IF /\ args.source = "virtual" => machine.virtual
              /\ Validates(args) /\ machine.tcp
           THEN "listening" ELSE "failed"
  /\ UNCHANGED <<machine, verdict, args, encoded, gl>>

\* new_with_gl makes a pipeline of its elements that takes the ICE address.
Builds(fallback) ==
  Elements(args, fallback) \cap machine.missing = {} /\ machine.address

\* A tablet's session: MediaSession::new and the stream_config it is told.
OpenSession ==
  /\ pc = "listening"
  /\ IF Builds(args.gl)
     THEN /\ pc' = "built" /\ gl' = args.gl
          /\ encoded' \in FitDimensions(capture, args.size)
     ELSE pc' = "failed" /\ UNCHANGED <<encoded, gl>>
  /\ UNCHANGED <<machine, verdict, args, capture>>

\* Mutant: no second try.
StartOnce ==
  /\ pc = "built"
  /\ pc' = IF machine.start[gl] = "plays" THEN "started" ELSE "failed"
  /\ UNCHANGED <<machine, verdict, args, capture, encoded, gl>>

\* start: the pipeline plays, or is built anew with OpenGL once, or the session
\* is over.
Start ==
  /\ pc = "built"
  /\ \/ machine.start[gl] = "plays" /\ pc' = "started" /\ UNCHANGED gl
     \/ /\ machine.start[gl] = "not negotiated" /\ ~gl /\ Builds(TRUE)
        /\ gl' = TRUE /\ UNCHANGED pc
     \/ /\ \/ machine.start[gl] = "fails"
           \/ machine.start[gl] = "not negotiated" /\ (gl \/ ~Builds(TRUE))
        /\ pc' = "failed" /\ UNCHANGED gl
  /\ UNCHANGED <<machine, verdict, args, capture, encoded>>

Next == \/ Doctor \/ ParseArguments \/ OpenSession \/ Start
        \/ \E c \in Captures : Run(c)

Spec == Init /\ [][Next]_vars

-----------------------------------------------------------------------------
Abs(n) == IF n < 0 THEN -n ELSE n

\* The stream fits the limit, fills it in one direction, keeps the monitor's
\* proportions and has even sides of two pixels or more, as the encoders need,
\* however the floats are rounded (media.rs:316-327, cli.rs:106-120).  The
\* monitor is at least two pixels wide and high: fewer would become none.
EncodedFits ==
  pc \in {"built", "started"} =>
    /\ \A i \in {1, 2} : /\ encoded[i] % 2 = 0 /\ encoded[i] >= 2
                         /\ encoded[i] <= args.size[i]
    /\ \/ \A i \in {1, 2} : encoded[i] = Even(capture[i])
       \/ \E i \in {1, 2} : encoded[i] >= args.size[i] - 2
    /\ \/ \E i \in {1, 2} : encoded[i] = 2
       \/ Abs(encoded[1] * capture[2] - encoded[2] * capture[1])
            < 3 * (capture[1] + capture[2])

\* Every IPv4 endpoint the host agrees to serve is one the tablet agrees to
\* connect to, however differently the two decide it (cli.rs:122-148,
\* EndpointPolicy.kt:16-34).
LanIsTheSameForBoth ==
  pc = "listening" /\ args.listen.family = "v4" => TabletAccepts(args.listen)

\* What doctor calls a blocking problem does keep serve, with a virtual monitor
\* and where the encoder is the software one, from starting the stream
\* (doctor.rs:17-54, media.rs:55-94).  Where auto finds the GPU's, x264enc is
\* not needed, and doctor's complaint of it is no obstacle.
NoFalseAlarm ==
  pc = "started" /\ args.source = "virtual" /\ EncoderName(args) = "x264" =>
    verdict # "failed"

\* The pipeline does not start, nor with OpenGL where that is tried.
NeverPlays ==
  \/ machine.start[args.gl] = "fails"
  \/ machine.start[args.gl] = "not negotiated" /\ machine.start[TRUE] # "plays"

\* On a machine that doctor calls ready, arguments that are valid start the
\* stream of the virtual monitor with the software encoder unless one of
\* GStreamer's own base elements is missing, GStreamer refuses the ICE address
\* or the pipeline does not start, not even with OpenGL after a failed
\* negotiation; doctor looks for none of these (doctor.rs:17-54,
\* media.rs:55-94, 146-173, server.rs:137-158, 281-298).
ReadyStreams ==
  /\ verdict = "ready" /\ pc = "failed" /\ Parses(args) /\ Validates(args)
  /\ args.source = "virtual" /\ EncoderName(args) = "x264"
  => \/ \E e \in machine.missing :
          e \in {"queue", "videoconvert", "videoscale", "glupload"}
     \/ ~machine.address \/ NeverPlays

=============================================================================
