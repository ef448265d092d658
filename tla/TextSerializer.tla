--------------------------- MODULE TextSerializer ---------------------------
(***************************************************************************)
(* promcore::TextSerializer::Serialize (core/src/text_serializer.cc:220-   *)
(* 234) on a stream of the caller's, who has given it a locale and a       *)
(* precision, and whose buffer may fail at any time. What goes into the    *)
(* stream is module TextFormat's subject. std::ostream is external: once   *)
(* it is bad it takes no more, and with an exception mask every insertion  *)
(* that finds or makes it bad throws.                                      *)
(***************************************************************************)
EXTENDS TextFormat

CONSTANTS
  Scrapes,     \* what may be handed to Serialize
  Locales,     \* locales of streams, "classic" among them
  Precisions   \* precisions of streams

\* max_digits10 - 1
Digits10 == 16

VARIABLES
  metrics,    \* the argument
  settings,   \* out.getloc() and out.precision()
  throws,     \* the exception mask of out
  bad,        \* out.bad()
  written,    \* what the buffer has taken: [line, whole, settings]
  next,       \* the line to be written
  saved,      \* saved_locale and saved_precision
  pc,         \* where the call is
  caller      \* the settings the caller made, who makes no others

vars == <<metrics, settings, throws, bad, written, next, saved, pc, caller>>

Lines == Serialize(metrics)

\* A text is finite.
ASSUME LinesAssumption == \A s \in Scrapes : Len(Serialize(s)) \in Nat

ASSUME ClassicAssumption == "classic" \in Locales

Settings == [locale : Locales, precision : Precisions]

StreamInit ==
  /\ metrics \in Scrapes
  /\ caller \in Settings
  /\ settings = caller /\ saved = caller
  /\ throws \in BOOLEAN
  /\ bad \in BOOLEAN
  /\ written = << >>
  /\ next = 1
  /\ pc = "save"

Goto(label) == pc' = label

-----------------------------------------------------------------------------
Save ==
  /\ pc = "save"
  /\ saved' = settings
  /\ Goto("imbue")
  /\ UNCHANGED <<metrics, settings, throws, bad, written, next, caller>>

\* Not the code: the precision of the stream is kept.
ImbueOnly ==
  /\ pc = "imbue"
  /\ settings' = [settings EXCEPT !.locale = "classic"]
  /\ Goto("write")
  /\ UNCHANGED <<metrics, throws, bad, written, next, saved, caller>>

Imbue ==
  /\ pc = "imbue"
  /\ settings' = [locale |-> "classic", precision |-> Digits10]
  /\ Goto("write")
  /\ UNCHANGED <<metrics, throws, bad, written, next, saved, caller>>

Piece(whole) == [line |-> Lines[next], whole |-> whole, settings |-> settings]

\* Not the code: the state of the stream is cleared before each line.
WriteCleared ==
  /\ pc = "write"
  /\ next <= Len(Lines)
  /\ bad' = FALSE
  /\ written' = Append(written, Piece(TRUE))
  /\ next' = next + 1
  /\ UNCHANGED <<metrics, settings, throws, saved, pc, caller>>

\* A line, which a bad stream swallows or refuses with an exception.
Write ==
  /\ pc = "write"
  /\ next <= Len(Lines)
  /\ IF bad /\ throws THEN Goto("thrown") ELSE UNCHANGED pc
  /\ written' = IF bad THEN written ELSE Append(written, Piece(TRUE))
  /\ next' = next + 1
  /\ UNCHANGED <<metrics, settings, throws, bad, saved, caller>>

\* The buffer fails in the middle of a line. The exception leaves Serialize.
WriteFails ==
  /\ pc = "write"
  /\ next <= Len(Lines)
  /\ ~bad
  /\ bad' = TRUE
  /\ IF throws THEN Goto("thrown") ELSE UNCHANGED pc
  /\ written' = Append(written, Piece(FALSE))
  /\ next' = next + 1
  /\ UNCHANGED <<metrics, settings, throws, saved, caller>>

\* Not the code: the locale the stream has now is kept.
RestorePrecision ==
  /\ pc = "write"
  /\ next > Len(Lines)
  /\ settings' = [settings EXCEPT !.precision = saved.precision]
  /\ Goto("returned")
  /\ UNCHANGED <<metrics, throws, bad, written, next, saved, caller>>

Restore ==
  /\ pc = "write"
  /\ next > Len(Lines)
  /\ settings' = saved
  /\ Goto("returned")
  /\ UNCHANGED <<metrics, throws, bad, written, next, saved, caller>>

\* The caller makes another call on the stream as the last one has left it, with
\* another buffer and its state cleared or not.
Again ==
  /\ pc \in {"returned", "thrown"}
  /\ metrics' \in Scrapes
  /\ bad' \in {bad, FALSE}
  /\ written' = << >>
  /\ next' = 1
  /\ Goto("save")
  /\ UNCHANGED <<settings, throws, saved, caller>>

StreamNext == Save \/ Imbue \/ Write \/ WriteFails \/ Restore \/ Again

StreamSpec == StreamInit /\ [][StreamNext]_vars

-----------------------------------------------------------------------------
(* Properties                                                              *)

StreamSettings == [locale : Locales, precision : Precisions \cup {16}]

\* Types; the stream has no other precisions than the caller's and 16 digits.
StreamTypeOK ==
  /\ metrics \in Scrapes /\ caller \in Settings
  /\ throws \in BOOLEAN /\ bad \in BOOLEAN
  /\ next \in 1..(Len(Lines) + 1)
  /\ settings \in StreamSettings /\ saved \in StreamSettings
  /\ pc \in {"save", "imbue", "write", "returned", "thrown"}
  /\ written \in Seq([line : {Lines[k] : k \in 1..Len(Lines)}, whole : BOOLEAN,
                      settings : StreamSettings])

\* Between calls the stream has the settings the caller gave it.
StreamKept == pc \in {"save", "returned", "thrown"} => settings = caller

\* The test shouldRestoreStreamState (core/tests/serializer_test.cc:54-73),
\* as long as the stream does not throw: whatever the buffer does and however
\* many calls there are, the caller finds the settings it made.
StreamRestored == ~throws => StreamKept

\* Whatever the caller's settings, and whatever an earlier call has left, the
\* text shows numbers in the classic locale with 16 digits: the pieces of a
\* text never mix two formats (text_serializer.cc:225-226).
OneFormat ==
  \A k \in DOMAIN written :
    written[k].settings = [locale |-> "classic", precision |-> 16]

\* What the buffer has is the beginning of the text of the scrape. Nothing follows
\* a line that was cut, and a stream that is good after the call has all of it: a
\* caller who looks at the stream's state alone never takes a part for the whole.
NothingMissing ==
  /\ \A k \in DOMAIN written : written[k].line = Lines[k]
  /\ \A k \in DOMAIN written : ~written[k].whole => k = Len(written) /\ bad
  /\ pc = "returned" /\ ~bad => Len(written) = Len(Lines)

-----------------------------------------------------------------------------
(* The inductive invariant: where the caller's settings are, what the       *)
(* stream has now, and how far the buffer has come.                         *)

Kept ==
  /\ pc = "thrown" => throws
  /\ ~throws => (IF pc \in {"imbue", "write"} THEN saved = caller ELSE settings = caller)
  /\ pc = "write" => settings = [locale |-> "classic", precision |-> Digits10]

Reached ==
  /\ pc \in {"save", "imbue"} => next = 1
  /\ pc = "returned" => next = Len(Lines) + 1
  /\ IF bad THEN Len(written) < next ELSE Len(written) = next - 1

StreamInv == StreamTypeOK /\ Kept /\ Reached /\ OneFormat /\ NothingMissing

-----------------------------------------------------------------------------
\* The line is a bucket +Inf of metric m of family f.
Closes(line, f, m) ==
  /\ IsSample(line)
  /\ line.name = f.name \o <<"_", "bucket">>
  /\ line.label = m.label \o <<<< <<"le">>, Inf>>>>

\* A histogram in a text is closed by exactly one bucket +Inf, no matter whether
\* its scrape, which need not be promcore's own, has none, ends with one or has no
\* buckets at all (text_serializer.cc:158-170).
HistogramClosed ==
  pc = "returned" /\ ~bad =>
    \A i \in DOMAIN metrics : metrics[i].type = "Histogram" =>
      \A j \in DOMAIN metrics[i].metric :
        \E k \in DOMAIN written : \A n \in DOMAIN written :
          Closes(written[n].line, metrics[i], metrics[i].metric[j]) <=> n = k

(* What that takes of a scrape.                                            *)

\* A vector of families, with what the serializer reads of each type.
IsScrape(scrape) ==
  /\ IsSeq(scrape)
  /\ \A f \in Range(scrape) :
       /\ f.type \in {"Counter", "Gauge", "Untyped", "Info", "Summary", "Histogram"}
       /\ IsSeq(f.name) /\ IsSeq(f.metric)
       /\ \A m \in Range(f.metric) :
            /\ IsSeq(m.label)
            /\ f.type = "Summary" => IsSeq(m.summary.quantile)
            /\ f.type = "Histogram" => IsSeq(m.histogram.bucket)

\* Families have names of their own, none of which is that of another's buckets,
\* the metrics of a family have labels of their own.
OwnNames(scrape) ==
  \A i \in DOMAIN scrape :
    /\ \A j \in DOMAIN scrape :
         /\ scrape[i].name = scrape[j].name => i = j
         /\ scrape[i].name # scrape[j].name \o <<"_", "bucket">>
    /\ IsInjective([k \in DOMAIN scrape[i].metric |-> scrape[i].metric[k].label])

\* Only the last of a histogram's buckets may be, or read as, +Inf.
EndsOnce(bucket) ==
  \A k \in DOMAIN bucket :
    WriteValue(bucket[k].upper_bound) = Inf => k = Len(bucket) /\ bucket[k].upper_bound = Inf

OwnBounds(scrape) ==
  \A f \in Range(scrape) : f.type = "Histogram" =>
    \A m \in Range(f.metric) : EndsOnce(m.histogram.bucket)
=============================================================================
