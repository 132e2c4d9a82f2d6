----------------------------- MODULE CommandLine -----------------------------
(***************************************************************************)
(* Project04, main of redextract: the command line becomes the list of     *)
(* files theInfo and a split of the threads, before any thread exists; and *)
(* when the consumers are joined main frees the names it has allocated.    *)
(*                                                                         *)
(* An argument or a file name is a sequence of pieces, of which "." is one *)
(* and the others hold no dot; a line of a .txt file is a name and its     *)
(* length, which decides how many calls of fgets it takes.                 *)
(***************************************************************************)
EXTENDS Integers, SequencesExt

CONSTANTS CommandLines,      (* argv[1..argc-1] as the user may type it       *)
          Atoi(_),           (* atoi                                          *)
          TextFiles,         (* the .txt files there are, with their lines    *)
          MAX_PCAP_FILES, MAX_FILE_LEN

\* The arguments that take the one behind them; neither is a number itself.
OptionNames == {<<"-threads">>, <<"-window">>}

ASSUME ArgumentsAssumption ==
    /\ \A argv \in CommandLines : Len(argv) \in Nat /\ DOMAIN argv = 1..Len(argv)
    /\ \A argv \in CommandLines : \A k \in DOMAIN argv : Atoi(argv[k]) \in Int
    /\ \A name \in OptionNames : Atoi(name) = 0
    /\ \A t \in DOMAIN TextFiles :
          /\ Len(TextFiles[t]) \in Nat /\ DOMAIN TextFiles[t] = 1..Len(TextFiles[t])
          /\ \A k \in DOMAIN TextFiles[t] : TextFiles[t][k].length \in Nat
    /\ MAX_PCAP_FILES \in Nat
    /\ MAX_FILE_LEN \in Nat \ {0, 1}

VARIABLES argv, i,
          mainPc,             (* where main is, or how it has ended            *)
          numPcapFiles, theInfo,
          isPcapFile, fileRead,
          nThreads, nThreadsProducers, nThreadsConsumers,
          at,                 (* the line and the character fgets reads next  *)
          freed               (* the entries whose FileName main has freed    *)

listVars == <<numPcapFiles, theInfo>>
threadVars == <<nThreads, nThreadsProducers, nThreadsConsumers>>
mainVars == <<argv, i, mainPc, listVars, isPcapFile, fileRead, threadVars, at, freed>>

NoEntry == [FileName |-> <<>>, allocated |-> FALSE, EndianFlip |-> FALSE,
            Packets |-> 0, BytesRead |-> 0]
Entry(name, allocated) == [NoEntry EXCEPT !.FileName = name, !.allocated = allocated]

InitMain ==
    /\ argv \in CommandLines
    /\ i = 1
    /\ mainPc = "arguments"
    /\ numPcapFiles = 0
    /\ theInfo = [k \in 0..(MAX_PCAP_FILES - 1) |-> NoEntry]
    /\ isPcapFile = FALSE
    /\ fileRead = FALSE
    /\ nThreads = 3
    /\ nThreadsProducers = 1
    /\ nThreadsConsumers = 1
    /\ at = [line |-> 1, char |-> 0]
    /\ freed = {}

\* What follows the first dot, unless the name begins with it.
extension(filename) ==
    LET dots == {k \in DOMAIN filename : filename[k] = "."}
    IN  IF dots = {} \/ 1 \in dots THEN <<>>
        ELSE LET dot == CHOOSE k \in dots : \A l \in dots : k <= l
             IN  SubSeq(filename, dot + 1, Len(filename))

Argument(l) == mainPc = l /\ i <= Len(argv)
NextArgument == i' = i + 1 /\ UNCHANGED mainPc
Fail == mainPc' = "exit(-1)" /\ UNCHANGED i

\* An entry behind the last is a wild write, and ends the process here.
PcapArgument ==
    /\ Argument("arguments")
    /\ extension(argv[i]) = <<"pcap">>
    /\ IF numPcapFiles < MAX_PCAP_FILES
       THEN /\ theInfo' = [theInfo EXCEPT ![numPcapFiles] = Entry(argv[i], FALSE)]
            /\ numPcapFiles' = numPcapFiles + 1
            /\ isPcapFile' = TRUE
            /\ fileRead' = TRUE
            /\ NextArgument
       ELSE mainPc' = "outOfBounds" /\ UNCHANGED <<i, listVars, isPcapFile, fileRead>>
    /\ UNCHANGED <<argv, threadVars, at, freed>>

TextArgument ==
    /\ Argument("arguments")
    /\ extension(argv[i]) = <<"txt">>
    /\ IF argv[i] \in DOMAIN TextFiles
       THEN /\ fileRead' = TRUE
            /\ at' = [line |-> 1, char |-> 0]
            /\ mainPc' = "lines"
            /\ UNCHANGED i
       ELSE Fail /\ UNCHANGED <<fileRead, at>>
    /\ UNCHANGED <<argv, listVars, isPcapFile, threadVars, freed>>

\* A line of MAX_FILE_LEN characters or more comes in pieces; each is taken for
\* a name.
Piece(line) ==
    IF line.length < MAX_FILE_LEN THEN line.name ELSE <<"piece">> \o line.name

\* Variant of ReadLine: an empty line ends the list.
ReadLineUntilEmpty ==
    /\ Argument("lines")
    /\ LET lines == TextFiles[argv[i]] IN
       IF \/ at.line > Len(lines) \/ numPcapFiles = MAX_PCAP_FILES
          \/ at.char = lines[at.line].length
       THEN mainPc' = "arguments" /\ i' = i + 1 /\ UNCHANGED <<listVars, at>>
       ELSE LET line == lines[at.line] IN
            /\ theInfo' = [theInfo EXCEPT ![numPcapFiles] =
                               Entry(Piece(line), TRUE)]
            /\ numPcapFiles' = numPcapFiles + 1
            /\ at' = IF line.length - at.char < MAX_FILE_LEN - 1
                     THEN [line |-> at.line + 1, char |-> 0]
                     ELSE [at EXCEPT !.char = @ + MAX_FILE_LEN - 1]
            /\ UNCHANGED <<i, mainPc>>
    /\ UNCHANGED <<argv, isPcapFile, fileRead, threadVars, freed>>

\* One fgets of MAX_FILE_LEN - 1 characters: a buffer that holds the end of a
\* line and nothing else is passed over.
ReadLine ==
    /\ Argument("lines")
    /\ LET lines == TextFiles[argv[i]] IN
       IF at.line > Len(lines) \/ numPcapFiles = MAX_PCAP_FILES
       THEN mainPc' = "arguments" /\ i' = i + 1 /\ UNCHANGED <<listVars, at>>
       ELSE LET line == lines[at.line] IN
            /\ IF at.char = line.length
               THEN UNCHANGED listVars
               ELSE /\ theInfo' = [theInfo EXCEPT ![numPcapFiles] =
                                       Entry(Piece(line), TRUE)]
                    /\ numPcapFiles' = numPcapFiles + 1
            /\ at' = IF line.length - at.char < MAX_FILE_LEN - 1
                     THEN [line |-> at.line + 1, char |-> 0]
                     ELSE [at EXCEPT !.char = @ + MAX_FILE_LEN - 1]
            /\ UNCHANGED <<i, mainPc>>
    /\ UNCHANGED <<argv, isPcapFile, fileRead, threadVars, freed>>

\* An option takes the argument behind it, which must be a number in range.
Option(name, low, high) ==
    /\ Argument("arguments")
    /\ argv[i] = <<name>>
    /\ IF i < Len(argv) /\ Atoi(argv[i + 1]) \in low..high
       THEN i' = i + 2 /\ UNCHANGED mainPc
       ELSE Fail
    /\ UNCHANGED <<argv, listVars, isPcapFile, fileRead, nThreadsProducers,
                   nThreadsConsumers, at, freed>>

ThreadsOption ==
    /\ Option("-threads", 2, 8)
    /\ nThreads' = IF i' = i THEN nThreads ELSE Atoi(argv[i + 1])

\* window_size is stored and never read.
WindowOption == Option("-window", 64, 512) /\ UNCHANGED nThreads

Usage ==
    /\ \/ argv = <<>> /\ mainPc = "arguments"
       \/ /\ Argument("arguments")
          /\ extension(argv[i]) \notin {<<"pcap">>, <<"txt">>}
          /\ argv[i] \notin OptionNames
    /\ mainPc' = "usage"
    /\ UNCHANGED <<argv, i, listVars, isPcapFile, fileRead, threadVars, at, freed>>

NoInput ==
    /\ mainPc = "arguments" /\ i > Len(argv) /\ argv # <<>>
    /\ ~fileRead
    /\ Fail
    /\ UNCHANGED <<argv, listVars, isPcapFile, fileRead, threadVars, at, freed>>

\* Variant of Split: the last thread may become a producer too.
SplitOneMore ==
    /\ nThreadsProducers' = IF numPcapFiles = 1 THEN 1
                            ELSE IF nThreads >= numPcapFiles THEN numPcapFiles
                            ELSE nThreads - 1
    /\ nThreadsConsumers' = nThreads - nThreadsProducers'

\* One producer for every file when that leaves a consumer, else all but one.
Split ==
    /\ nThreadsProducers' = IF numPcapFiles = 1 THEN 1
                            ELSE IF nThreads > numPcapFiles THEN numPcapFiles
                            ELSE nThreads - 1
    /\ nThreadsConsumers' = nThreads - nThreadsProducers'

StartThreads ==
    /\ mainPc = "arguments" /\ i > Len(argv)
    /\ fileRead
    /\ Split
    /\ mainPc' = "threads"
    /\ UNCHANGED <<argv, i, listVars, isPcapFile, fileRead, nThreads, at, freed>>

\* Variant of Report: the names are freed if any file came from a list.
ReportFreesMixed ==
    /\ mainPc = "threads"
    /\ mainPc' = "reported"
    /\ freed' = IF \E k \in 0..(numPcapFiles - 1) : theInfo[k].allocated
                THEN 0..(numPcapFiles - 1) ELSE {}
    /\ UNCHANGED <<argv, i, listVars, isPcapFile, fileRead, threadVars, at>>

\* After the joins.
Report ==
    /\ mainPc = "threads"
    /\ mainPc' = "reported"
    /\ freed' = IF isPcapFile THEN {} ELSE 0..(numPcapFiles - 1)
    /\ UNCHANGED <<argv, i, listVars, isPcapFile, fileRead, threadVars, at>>

ReadArguments ==
    \/ PcapArgument \/ TextArgument \/ ReadLine
    \/ ThreadsOption \/ WindowOption \/ Usage \/ NoInput \/ StartThreads

-----------------------------------------------------------------------------

(* What main hands to the threads is what PacketPool takes for granted:    *)
(* there is a consumer, there is a producer if there is a file and never   *)
(* one without a file to read, and the list has at most MAX_PCAP_FILES     *)
(* entries.  Only arguments ending in .pcap overrun it.                    *)
StartsAsAssumed ==
    /\ mainPc \in {"threads", "reported"} =>
          /\ nThreads \in 2..8
          /\ nThreadsConsumers \in 1..nThreads
          /\ nThreadsProducers + nThreadsConsumers = nThreads
          /\ nThreadsProducers \in 0..numPcapFiles
          /\ numPcapFiles > 0 => nThreadsProducers > 0
          /\ numPcapFiles \in 0..MAX_PCAP_FILES
    /\ mainPc = "outOfBounds" =>
          \E k \in DOMAIN argv : extension(argv[k]) = <<"pcap">>

\* The names that argument k gives, of which there are none in a number: also
\* when it is one like 4.pcap.  A line is chopped into what fits the buffer.
Pieces(line) == (line.length + MAX_FILE_LEN - 2) \div (MAX_FILE_LEN - 1)
NamesOf(k) ==
    IF k > 1 /\ argv[k - 1] \in OptionNames THEN <<>>
    ELSE IF extension(argv[k]) = <<"pcap">> THEN <<argv[k]>>
    ELSE IF extension(argv[k]) = <<"txt">> /\ argv[k] \in DOMAIN TextFiles
    THEN LET lines == TextFiles[argv[k]]
         IN  FlattenSeq([l \in DOMAIN lines |->
                            [p \in 1..Pieces(lines[l]) |-> Piece(lines[l])]])
    ELSE <<>>

(* When the threads start the list holds the names the user gave, in the   *)
(* order of the arguments and of the lines in a list, as many as there is  *)
(* room for: empty lines, full buffers and options in between leave no gap *)
(* and no name out.                                                        *)
NamesListed ==
    mainPc \in {"threads", "reported"} =>
        LET names == FlattenSeq([k \in DOMAIN argv |-> NamesOf(k)])
        IN  /\ numPcapFiles = IF Len(names) < MAX_PCAP_FILES THEN Len(names)
                              ELSE MAX_PCAP_FILES
            /\ \A k \in 1..numPcapFiles : theInfo[k - 1].FileName = names[k]

(* main frees no name that it has not allocated: the names of .pcap        *)
(* arguments belong to argv, also when lists are mixed with them.          *)
FreesItsOwn == \A k \in freed : theInfo[k].allocated

=============================================================================
