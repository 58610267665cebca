----------------------------- MODULE SdpDescription -----------------------------
(***************************************************************************)
(* rtpengine-media: session descriptions (internal/sdp/parser.go): parsing *)
(* one line by line, editing it, and writing it back.                      *)
(*                                                                         *)
(* A line is its field and what the parser takes from it.  A text that is  *)
(* split at slashes or spaces is the list of its parts, parts are numbers, *)
(* and the kinds of network and address are left out.  An attribute's      *)
(* value is such a list, empty if it has none; that of "rtpmap" is payload *)
(* type, clock rate and, perhaps, channels.  Titles are never parsed, and  *)
(* nothing sets one.                                                       *)
(***************************************************************************)
EXTENDS Lists, SequencesExt

CONSTANTS
  MaxLines, MaxEdits     \* bounds: lines read, edits made

ASSUME SdpAssumption == MaxLines \in Nat /\ MaxEdits \in Nat

VARIABLES
  desc,     \* SessionDescription, the section being read, and whether a line was refused
  reading,  \* lines read so far, and whether the text is over
  edits     \* edits made

sdpVars == <<desc, reading, edits>>

Nowhere == [address |-> <<>>, ttl |-> 0, count |-> 0]      \* no connection
NoMedia == [port |-> 0]
Attribute(name, value) == [name |-> name, value |-> value]
Blank == [version |-> 0, origin |-> FALSE, conn |-> Nowhere, bandwidth |-> 0, timing |-> 0,
          attrs |-> <<>>, media |-> <<>>]
Start == [session |-> Blank, current |-> NoMedia, refused |-> FALSE]

(* The lines of the texts that are read.                                   *)
Lines ==
  {[field |-> "v", ok |-> b] : b \in BOOLEAN} \cup {[field |-> "o", ok |-> b] : b \in BOOLEAN}
  \cup {[field |-> "c", ok |-> TRUE, parts |-> p] : p \in {<<<<4>>>>, <<<<4>>, 127>>, <<<<4>>, 127, 2>>}}
  \cup {[field |-> "c", ok |-> FALSE, parts |-> <<>>]}
  \cup {[field |-> "b", ok |-> TRUE], [field |-> "t", ok |-> TRUE]}
  \cup {[field |-> "m", ok |-> b, formats |-> <<0, 111>>] : b \in BOOLEAN}
  \cup {[field |-> "a", ok |-> TRUE, attr |-> a] :
          a \in {Attribute("setup", <<1>>), Attribute("sendrecv", <<>>),
                 Attribute("rtpmap", <<111, 48000, 2>>), Attribute("rtpmap", <<0>>)}}

-----------------------------------------------------------------------------
parseConnection(parts) ==
  [address |-> parts[1], ttl |-> IF Len(parts) > 1 THEN parts[2] ELSE 0,
   count |-> IF Len(parts) > 2 THEN parts[3] ELSE 0]
parseMedia(l) == [port |-> 9, formats |-> l.formats, conn |-> Nowhere, bandwidth |-> 0, attrs |-> <<>>]
InMedia(d) == d.current # NoMedia
Ended(d) == IF InMedia(d) THEN [d EXCEPT !.session.media = Append(@, d.current)] ELSE d

(* One turn of Parse's loop; after a line is refused there is no result.   *)
ReadLine(d, l) ==
  IF d.refused \/ ~l.ok THEN [d EXCEPT !.refused = TRUE]
  ELSE CASE l.field = "v" -> d
         [] l.field = "o" -> [d EXCEPT !.session.origin = TRUE]
         [] l.field = "c" -> IF InMedia(d) THEN [d EXCEPT !.current.conn = parseConnection(l.parts)]
                             ELSE [d EXCEPT !.session.conn = parseConnection(l.parts)]
         [] l.field = "b" -> IF InMedia(d) THEN [d EXCEPT !.current.bandwidth = @ + 1]
                             ELSE [d EXCEPT !.session.bandwidth = @ + 1]
         [] l.field = "t" -> [d EXCEPT !.session.timing = @ + 1]
         [] l.field = "m" -> [Ended(d) EXCEPT !.current = parseMedia(l)]
         [] l.field = "a" -> IF InMedia(d) THEN [d EXCEPT !.current.attrs = Append(@, l.attr)]
                             ELSE [d EXCEPT !.session.attrs = Append(@, l.attr)]
Reads(d, lines) ==
  LET after[i \in 0 .. Len(lines)] == IF i = 0 THEN d ELSE ReadLine(after[i - 1], lines[i])
  IN after[Len(lines)]
Parse(lines) == Ended(Reads(Start, lines))

(* Writing: what each part becomes, as lines.  A time to live goes into    *)
(* the address, with a slash; without an origin, or without formats, the   *)
(* line is one that Parse refuses.                                         *)
ConnectionLines(c) ==
  IF c = Nowhere THEN <<>>
  ELSE LET slashed == c.address \o (IF c.ttl = 0 THEN <<>>
                                    ELSE IF c.count = 0 THEN <<c.ttl>> ELSE <<c.ttl, c.count>>)
       IN <<[field |-> "c", ok |-> TRUE, parts |-> <<slashed>>]>>
Repeated(field, n) == [i \in 1 .. n |-> [field |-> field, ok |-> TRUE]]
AttributeLines(attrs) == [i \in DOMAIN attrs |-> [field |-> "a", ok |-> TRUE, attr |-> attrs[i]]]
MediaLines(m) ==
  <<[field |-> "m", ok |-> m.formats # <<>>, formats |-> m.formats]>>
  \o ConnectionLines(m.conn) \o Repeated("b", m.bandwidth) \o AttributeLines(m.attrs)
String(s) ==
  <<[field |-> "v", ok |-> TRUE], [field |-> "o", ok |-> s.origin]>>
  \o ConnectionLines(s.conn) \o Repeated("b", s.bandwidth) \o Repeated("t", s.timing)
  \o AttributeLines(s.attrs) \o FlattenSeq([i \in DOMAIN s.media |-> MediaLines(s.media[i])])

-----------------------------------------------------------------------------
parseCodec(v) == [pt |-> v[1], rate |-> v[2], channels |-> IF Len(v) > 2 THEN v[3] ELSE 1]
IsRtpmap(a) == a.name = "rtpmap"
GetCodecs(m) ==
  LET good == Only(m.attrs, {a \in ToSet(m.attrs) : IsRtpmap(a) /\ Len(a.value) >= 2})
  IN [i \in DOMAIN good |-> parseCodec(good[i].value)]
IsWebRTC(m) == \E i \in DOMAIN m.attrs : m.attrs[i].name \in {"setup", "fingerprint"}
GetAttribute(m, name) == \E i \in DOMAIN m.attrs : m.attrs[i].name = name

SetMediaAddress(s, address) ==
  [s EXCEPT !.media = [i \in DOMAIN @ |-> [@[i] EXCEPT !.conn = [Nowhere EXCEPT !.address = address]]]]
RtpMaps(codecs) == [i \in DOMAIN codecs |-> Attribute("rtpmap", <<codecs[i].pt, codecs[i].rate>>)]
Formats(codecs) == [i \in DOMAIN codecs |-> codecs[i].pt]
ReplaceCodecsBeside(s, codecs) ==
  [s EXCEPT !.media = [i \in DOMAIN @ |->
     [@[i] EXCEPT !.formats = Formats(codecs), !.attrs = RtpMaps(codecs) \o @]]]
(* The channels of a codec are not written.                                *)
WithCodecs(m, codecs) ==
  [m EXCEPT !.formats = Formats(codecs),
            !.attrs = RtpMaps(codecs) \o Only(@, {a \in ToSet(@) : ~IsRtpmap(a)})]
ReplaceCodecs(s, codecs) == [s EXCEPT !.media = [i \in DOMAIN @ |-> WithCodecs(@[i], codecs)]]
AddAttribute(s, i, a) == [s EXCEPT !.media[i].attrs = Append(@, a)]
RemoveAttribute(s, i, name) ==
  [s EXCEPT !.media[i].attrs = Only(@, {a \in ToSet(@) : a.name # name})]
Opus == [pt |-> 111, rate |-> 48000, channels |-> 2]
CodecLists == {<<>>, <<Opus>>}

-----------------------------------------------------------------------------
SdpInit == desc = Start /\ reading = [lines |-> 0, over |-> FALSE] /\ edits = 0

NextLine(l) ==
  /\ ~reading.over /\ reading.lines < MaxLines /\ ~desc.refused
  /\ desc' = ReadLine(desc, l)
  /\ reading' = [reading EXCEPT !.lines = @ + 1]
  /\ UNCHANGED edits
EndOfText ==
  /\ ~reading.over
  /\ desc' = [Ended(desc) EXCEPT !.current = NoMedia]
  /\ reading' = [reading EXCEPT !.over = TRUE]
  /\ UNCHANGED edits
Edit(s) ==
  /\ reading.over /\ ~desc.refused /\ edits < MaxEdits
  /\ desc' = [desc EXCEPT !.session = s] /\ edits' = edits + 1
  /\ UNCHANGED reading

SdpNext ==
  \/ \E l \in Lines : NextLine(l)
  \/ EndOfText
  \/ Edit(SetMediaAddress(desc.session, <<5>>))
  \/ \E cs \in CodecLists : Edit(ReplaceCodecs(desc.session, cs))
  \/ \E i \in DOMAIN desc.session.media :
       \/ Edit(AddAttribute(desc.session, i, Attribute("setup", <<1>>)))
       \/ Edit(RemoveAttribute(desc.session, i, "setup"))

SdpSpec == SdpInit /\ [][SdpNext]_sdpVars

-----------------------------------------------------------------------------
SdpTypeOK ==
  /\ desc.refused \in BOOLEAN /\ desc.session.origin \in BOOLEAN
  /\ \A i \in DOMAIN desc.session.media : LET m == desc.session.media[i] IN
       m.port = 9 /\ m.formats \in Seq(Nat) /\ m.bandwidth \in Nat
  /\ reading \in [lines : 0 .. MaxLines, over : BOOLEAN]
  /\ edits \in 0 .. MaxEdits

(* What was parsed, and edited, is read again from its text as it is, with *)
(* a time to live moved into the address; or it has no origin, or a        *)
(* section without formats, and is refused.                                *)
Slashed(c) == IF c = Nowhere THEN c ELSE parseConnection(ConnectionLines(c)[1].parts)
NormalMedia(m) == [m EXCEPT !.conn = Slashed(@)]
Normal(s) == [s EXCEPT !.conn = Slashed(@), !.media = [i \in DOMAIN @ |-> NormalMedia(@[i])]]
Writable(s) == s.origin /\ \A i \in DOMAIN s.media : s.media[i].formats # <<>>
ReadBack ==
  reading.over /\ ~desc.refused =>
    LET s == desc.session  again == Parse(String(s)) IN
    /\ again.refused <=> ~Writable(s)
    /\ Writable(s) => again.session = Normal(s) /\ Normal(Normal(s)) = Normal(s)
(* The codecs a description is given are the ones found in each section    *)
(* of it, one channel each, and it is for WebRTC if it was before.         *)
CodecsReplaced ==
  \A cs \in CodecLists : LET new == ReplaceCodecs(desc.session, cs) IN
    \A i \in DOMAIN new.media :
      /\ GetCodecs(new.media[i]) = [j \in DOMAIN cs |-> [cs[j] EXCEPT !.channels = 1]]
      /\ IsWebRTC(new.media[i]) = IsWebRTC(desc.session.media[i])
      /\ GetAttribute(new.media[i], "rtpmap") <=> cs # <<>>

DescriptionKept == SdpTypeOK /\ ReadBack /\ CodecsReplaced
=============================================================================
