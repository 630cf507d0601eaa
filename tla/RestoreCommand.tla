--------------------------- MODULE RestoreCommand ---------------------------
(***************************************************************************)
(* internal/sshrestore, the commands that restore a volume or a database.  *)
(* They are one line of text for the remote shell, which contains a script *)
(* for a second shell in a container; the names in them are quoted, some   *)
(* of them twice.  A character of the fixed text may stand for a word.  The *)
(* refusal of an empty archive, name or restore command is left out.       *)
(***************************************************************************)
EXTENDS Integers, SequencesExt

CONSTANTS
    Character,      \* what names are made of
    MaxGiven        \* bound on the characters of all names together

Blank == " "
Quote == "'"
Double == "\""
Dollar == "$"

(* dir and base: of the archive's path; name: of the volume or container;  *)
(* image: of the helper container; restore: what reads a dump.             *)
Field == {"dir", "base", "name", "image", "restore"}

VARIABLE given      \* what the operator has given so far

CommandInit == given = [f \in Field |-> <<>>]

CommandNext ==
    \E f \in Field, c \in Character :
       /\ SumFunction([g \in Field |-> Len(given[g])]) < MaxGiven
       /\ given' = [given EXCEPT ![f] = Append(@, c)]

CommandSpec == CommandInit /\ [][CommandNext]_given

-----------------------------------------------------------------------------
shellQuoteDoubling(value) ==
    <<Quote>>
    \o FlattenSeq([i \in DOMAIN value |->
          IF value[i] = Quote THEN <<Quote, Quote>> ELSE <<value[i]>>])
    \o <<Quote>>

(* Each quote in the value leaves the quotes for a quoted quote.           *)
shellQuote(value) ==
    <<Quote>>
    \o FlattenSeq([i \in DOMAIN value |->
          IF value[i] = Quote THEN <<Quote, Double, Quote, Double, Quote>>
          ELSE <<value[i]>>])
    \o <<Quote>>

Spaced(words) ==
    FlattenSeq([i \in DOMAIN words |->
        (IF i = 1 THEN <<>> ELSE <<Blank>>) \o words[i]])

innerArchivePath == shellQuote(<<"/backup/">> \o given.base)

Image == IF given.image = <<>> THEN <<"alpine">> ELSE given.image

VolumeScript == Spaced(<< <<"tar">>, <<"-xzf">>, innerArchivePath, <<"-C">>, <<"/restore">> >>)

BuildVolumeRestoreCommand ==
    Spaced(<< <<"docker">>, <<"run">>, <<"--rm">>,
              <<"-v">>, shellQuote(given.dir) \o <<":/backup:ro">>,
              <<"-v">>, shellQuote(given.name) \o <<":/restore">>,
              shellQuote(Image), <<"sh">>, <<"-c">>, shellQuote(VolumeScript) >>)

DBScript == Spaced(<< <<"gzip">>, <<"-dc">>, innerArchivePath, <<"|">>, given.restore >>)

BuildDBRestoreCommand ==
    Spaced(<< <<"docker">>, <<"run">>, <<"--rm">>,
              <<"--volumes-from">>, shellQuote(given.name),
              <<"-v">>, shellQuote(given.dir) \o <<":/backup:ro">>,
              shellQuote(<<"alpine">>), <<"sh">>, <<"-c">>, shellQuote(DBScript) >>)

-----------------------------------------------------------------------------
(* How a shell reads a line: its words, and whether it replaced anything.  *)
Reading == [mode |-> "plain", word |-> <<>>, begun |-> FALSE, words |-> <<>>, replaced |-> FALSE]

EndWord(r) ==
    IF r.begun
    THEN [r EXCEPT !.word = <<>>, !.begun = FALSE, !.words = Append(@, r.word)]
    ELSE r

Read(r, c) ==
    CASE r.mode = "plain" /\ c = Blank -> EndWord(r)
      [] r.mode = "plain" /\ c = Quote -> [r EXCEPT !.mode = "single", !.begun = TRUE]
      [] r.mode = "plain" /\ c = Double -> [r EXCEPT !.mode = "double", !.begun = TRUE]
      [] r.mode = "single" /\ c = Quote -> [r EXCEPT !.mode = "plain"]
      [] r.mode = "double" /\ c = Double -> [r EXCEPT !.mode = "plain"]
      [] r.mode # "single" /\ c = Dollar -> [r EXCEPT !.replaced = TRUE]
      [] OTHER -> [r EXCEPT !.word = Append(@, c), !.begun = TRUE]

(* Read on, from what was read before the line.                            *)
ReadFrom(r, line) ==
    LET read[i \in 0..Len(line)] ==
            IF i = 0 THEN r ELSE Read(read[i - 1], line[i])
    IN  read[Len(line)]

Shell(line) == EndWord(ReadFrom(Reading, line))

(* A line is read as these words, quotes closed and nothing replaced.      *)
ReadAs(line, words) ==
    LET r == Shell(line)
    IN  r.mode = "plain" /\ ~r.replaced /\ r.words = words

-----------------------------------------------------------------------------
(* Whatever the names contain, the remote shell runs docker with each name *)
(* whole in its own argument, and with the script as it was written.       *)
ArgumentsArriveWhole ==
    /\ ReadAs(BuildVolumeRestoreCommand,
              << <<"docker">>, <<"run">>, <<"--rm">>,
                 <<"-v">>, given.dir \o <<":/backup:ro">>,
                 <<"-v">>, given.name \o <<":/restore">>,
                 Image, <<"sh">>, <<"-c">>, VolumeScript >>)
    /\ ReadAs(BuildDBRestoreCommand,
              << <<"docker">>, <<"run">>, <<"--rm">>,
                 <<"--volumes-from">>, given.name,
                 <<"-v">>, given.dir \o <<":/backup:ro">>,
                 <<"alpine">>, <<"sh">>, <<"-c">>, DBScript >>)

(* The shell in the container unpacks the archive of the given name, and   *)
(* sends a dump to the restore command just as it was given.               *)
ScriptNamesArchive ==
    /\ ReadAs(VolumeScript, << <<"tar">>, <<"-xzf">>, <<"/backup/">> \o given.base,
                               <<"-C">>, <<"/restore">> >>)
    /\ LET dump == Len(DBScript) - Len(given.restore)
       IN  /\ ReadAs(SubSeq(DBScript, 1, dump),
                     << <<"gzip">>, <<"-dc">>, <<"/backup/">> \o given.base, <<"|">> >>)
           /\ SubSeq(DBScript, dump + 1, Len(DBScript)) = given.restore

(* The remote shell gets each name whole, as one argument, and the shell   *)
(* in the container reads the given archive.                               *)
NamesArriveWhole == ArgumentsArriveWhole /\ ScriptNamesArchive
=============================================================================
