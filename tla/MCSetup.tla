------------------------------- MODULE MCSetup -------------------------------
(* Command lines, machines and monitors at the boundaries of Setup.        *)
EXTENDS Setup

V4(a, b) == [family |-> "v4", a |-> a, b |-> b]
V6(s) == [family |-> "v6", scope |-> s]
Lan == V4(192, 168)

Addresses ==
  {V4(a, b) : a \in {0, 9, 10, 127, 169, 172, 192},
              b \in {0, 15, 16, 31, 32, 168, 254}}
  \cup {V6(s) : s \in {"unspecified", "loopback", "unique local", "global"}}

Default == [listen |-> Lan, ice |-> Lan, ports |-> <<9900, 9910>>,
            size |-> <<1920, 1200>>, fps |-> 30, bitrate |-> 6000,
            source |-> "virtual", encoder |-> "x264", gl |-> FALSE]

Whole == [missing |-> {}, virtual |-> TRUE, tcp |-> TRUE, address |-> TRUE,
          start |-> [g \in BOOLEAN |-> "plays"]]

MCChoices == {[Default EXCEPT !.source = s, !.encoder = e, !.gl = g, !.listen = x] :
                s \in Source, e \in Encoder, g \in BOOLEAN,
                x \in {Lan, V4(8, 8)}}

MCArguments ==
  {[Default EXCEPT !.listen = x, !.ice = y] : x, y \in Addresses}
  \cup {[Default EXCEPT !.size = s, !.source = c] :
          s \in {319, 320, 1920, 1921} \X {239, 240, 1200, 1201}, c \in Source}
  \cup {[Default EXCEPT !.ports = p, !.fps = f, !.bitrate = b] :
          p \in {0, 1, 9900, 65535, 65536} \X {0, 1, 9900, 65535, 65536},
          f \in {0, 1, 60, 61}, b \in {499, 500, 50000, 50001}}

MCMachines ==
  {[Whole EXCEPT !.missing = m, !.virtual = v, !.tcp = t] :
     m \in {{}} \cup {{e} : e \in Element} \cup {{"nvh264enc", "x264enc"}},
     v, t \in BOOLEAN}
  \cup {[Whole EXCEPT !.missing = m, !.address = a, !.start = o] :
          m \in {{}, {"glupload"}, {"nvh264enc"}}, a \in BOOLEAN,
          o \in [BOOLEAN -> {"plays", "not negotiated", "fails"}]}

MCCases == ({Whole} \X MCArguments) \cup (MCMachines \X MCChoices)

\* Sizes with a fraction, without one, wider, higher, and thin.
MCCaptures == {<<2, 2>>, <<1281, 801>>, <<1920, 1080>>, <<2112, 1320>>,
               <<2148, 1342>>, <<3440, 1440>>, <<1080, 1920>>, <<7680, 2>>,
               <<3, 4320>>}
=============================================================================
