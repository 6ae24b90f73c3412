------------------------------ MODULE Decoder ------------------------------
(***************************************************************************)
(* src/audio_decoder/: audio_decoder.c and the three parsers behind it.    *)
(* A file is Length frames, numbered from 1; what is read is a sequence of *)
(* frame numbers, so a frame skipped, repeated or misplaced shows.  Sample *)
(* conversion leaves the numbers alone.  libFLAC hands out whole blocks    *)
(* through write_callback(), so the FLAC parser holds a partly read block  *)
(* and loops; the other two copy straight from their library.              *)
(***************************************************************************)
EXTENDS Integers, Sequences

CONSTANTS
    Length,     \* frames in the file
    Block,      \* frames in a FLAC block
    Faults      \* bound: whether the file may fail while it is read

ASSUME DecoderAssumption ==
    Length \in Nat /\ Block \in Nat \ {0} /\ Faults \in BOOLEAN

VARIABLES
    kind,       \* decoder->type
    position,   \* frames the file handle or the library has gone past
    buffered,   \* FLAC: decode_buffer from decode_buffer_pos on
    eof,        \* FLAC, MP3: eof_reached
    reading,    \* the read_samples in progress
    broken      \* history: reading the file failed

file == <<kind, position, buffered, eof, broken>>
decoderVars == <<file, reading>>

Lower(a, b) == IF a < b THEN a ELSE b

(* The n frames after frame `at`, as far as the file goes. *)
FramesAfter(at, n) == [i \in 1 .. Lower(n, Length - at) |-> at + i]

NoRead == [status |-> "none", want |-> 0, got |-> << >>]

DecoderInit ==
    /\ position = 0 /\ buffered = << >> /\ eof = FALSE /\ broken = FALSE
    /\ reading = NoRead

(* audio_decoder_read_samples. *)
ReadCall(n) ==
    /\ reading' = [status |-> "busy", want |-> n, got |-> << >>]
    /\ UNCHANGED file

ReadReturns(frames) == reading' = [reading EXCEPT !.status = "done", !.got = frames]

ReadFails ==
    /\ reading' = [reading EXCEPT !.status = "failed"]
    /\ broken' = TRUE

(* What there is, unless the file is damaged, without a word about an error. *)
ReadSome ==
    \E n \in 0 .. Lower(reading.want, Length - position) :
        /\ n < Lower(reading.want, Length - position) => Faults
        /\ ReadReturns(FramesAfter(position, n))
        /\ position' = position + n
        /\ broken' = (broken \/ n < Lower(reading.want, Length - position))

(* wave_read_samples: whatever fread delivers. *)
ReadWave == kind = "WAVE" /\ ReadSome /\ UNCHANGED <<kind, buffered, eof>>

(* mp3_read_samples: a short read is the end of the stream... *)
ReadMp3 ==
    /\ kind = "MP3"
    /\ \/ /\ eof
          /\ ReadReturns(<< >>)
          /\ UNCHANGED <<position, eof, broken>>
       \/ /\ ~eof
          /\ ReadReturns(FramesAfter(position, reading.want))
          /\ position' = Lower(position + reading.want, Length)
          /\ eof' = (position + reading.want > Length)
          /\ UNCHANGED broken
       \/ ~eof /\ Faults /\ ReadFails /\ UNCHANGED <<position, eof>>
    /\ UNCHANGED <<kind, buffered>>

(* ... or the place where the file changes its format. *)
ReadNewFormat ==
    /\ kind = "MP3" /\ ~eof /\ Faults
    /\ ReadSome
    /\ UNCHANGED <<kind, buffered, eof>>

(* flac_read_samples, one turn of its loop: copy from the decoded block... *)
FlacCopy ==
    /\ ~eof /\ Len(reading.got) < reading.want
    /\ buffered # << >>
    /\ LET to_copy == Lower(reading.want - Len(reading.got), Len(buffered))
       IN  /\ reading' = [reading EXCEPT !.got = @ \o SubSeq(buffered, 1, to_copy)]
           /\ buffered' = SubSeq(buffered, to_copy + 1, Len(buffered))
    /\ UNCHANGED <<position, eof, broken>>

(* ... or let libFLAC deliver the next one, which it does not do at the end. *)
FlacDecode ==
    /\ ~eof /\ Len(reading.got) < reading.want
    /\ buffered = << >>
    /\ \/ /\ position < Length
          /\ buffered' = FramesAfter(position, Block - (position % Block))
          /\ position' = position + Len(buffered')
          /\ UNCHANGED <<eof, reading, broken>>
       \/ /\ position = Length
          /\ eof' = TRUE
          /\ UNCHANGED <<position, buffered, reading, broken>>
       \/ Faults /\ ReadFails /\ UNCHANGED <<position, buffered, eof>>

FlacReturnEarly ==    \* mistake: return what is decoded, be it nothing
    /\ eof \/ buffered = << >>
    /\ ReadReturns(reading.got)
    /\ UNCHANGED <<position, buffered, eof, broken>>

FlacReturn ==
    /\ eof \/ Len(reading.got) = reading.want
    /\ ReadReturns(reading.got)
    /\ UNCHANGED <<position, buffered, eof, broken>>

ReadFlac ==
    /\ kind = "FLAC"
    /\ FlacCopy \/ FlacDecode \/ FlacReturn
    /\ UNCHANGED kind

Reading == reading.status = "busy" /\ (ReadWave \/ ReadMp3 \/ ReadNewFormat \/ ReadFlac)

(* flac_seek: seeking makes libFLAC deliver the rest of the block the target
   lies in, and then flac_seek empties the decode buffer. *)
SeekFlac(p) ==
    /\ kind = "FLAC"
    /\ position' = Lower(p + Block - (p % Block), Length)
    /\ buffered' = << >>
    /\ eof' = FALSE

(* wave_seek, mp3_seek *)
SeekStream(p) ==
    /\ kind \in {"WAVE", "MP3"}
    /\ position' = p
    /\ eof' = FALSE
    /\ UNCHANGED buffered

(* audio_decoder_seek, when it works; when it does not, nothing changes. *)
Seek(p) ==
    /\ SeekFlac(p) \/ SeekStream(p)
    /\ reading' = NoRead
    /\ UNCHANGED <<kind, broken>>
=============================================================================
