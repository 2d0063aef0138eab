---------------------------- MODULE CompressDriver ----------------------------
(***************************************************************************)
(* The driver of grk_compress (src/src/lib/codec/jp2/GrkCompress.cpp):     *)
(* GrkCompress::main, which first tries the Grok plugin (pluginMain: batch *)
(* compress, single image or directory loop) and falls back to compressing *)
(* on the CPU (repeats x the single file or every directory entry), with   *)
(* nextFile, compress and the input-format logic of pluginCompressCallback.*)
(* The parameters are abstracted to the two fields the driver loop saves,  *)
(* restores and resets: decod_format and infile.  A file is a model value  *)
(* whose extension gives FormatOf.  The library calls (grk_initialize,     *)
(* grk_plugin_*, the image decoders and the codec) are nondeterministic    *)
(* outcomes.  Command-line parsing is abstracted to the options that reach *)
(* this state: a configuration chosen in the initial state.                *)
(***************************************************************************)
EXTENDS Integers, FiniteSets, CompressOptions

CONSTANTS
    Files,        \* files a --batch-src directory may hold
    SingleFiles,  \* the --in-file values of single-image mode
    FormatOf,     \* format grk_get_file_format reads from a file's extension
    Configs,      \* command lines: see Config below
    MaxRepeats    \* largest --repetitions value explored

\* A command line, as far as the driver is concerned:
\*   dir         the entries of the --batch-src directory
\*   srcEntries  number of comma-separated parts of --batch-src (0 = absent)
\*   outDir      --out-dir given
\*   inFmt       --in-fmt given ("unk" when absent)
\*   repeats     --repeats
\*   debugState  grk_plugin_get_debug_state() has DEBUG or PRE_TR1 set
\*   cinema      the argument of --cinema-2k or --cinema-4k (see Cinema)
\*   opts        the coding options of CompressOptions
\*   infile      --in-file, used when there is no --batch-src
\* A --cinema-2k/--cinema-4k argument "fps[,bandwidth]": whether the option
\* is given, whether its first part is a number std::stoi accepts, that
\* number, and whether a bandwidth part follows.
Cinema == [given : BOOLEAN, numeric : BOOLEAN, fps : Int, bandwidth : BOOLEAN]
NoCinema == [given |-> FALSE, numeric |-> TRUE, fps |-> 24, bandwidth |-> FALSE]

Config == [dir : SUBSET Files, srcEntries : 0..8, outDir : BOOLEAN, inFmt : STRING,
           repeats : 0..MaxRepeats, debugState : BOOLEAN, cinema : Cinema,
           opts : Options, infile : SingleFiles]

\* isDecodedFormatSupported, lines 718-735.
DecodedFormats == {"pgx", "pxm", "bmp", "tif", "raw", "rawl", "png", "jpg"}
IsDecodedFormatSupported(fmt) == fmt \in DecodedFormats

ASSUME /\ SingleFiles \cap Files = {}
       /\ Files \cup SingleFiles \subseteq DOMAIN FormatOf
       /\ Configs \subseteq Config

\* Parameters: decod_format ("unk" = GRK_FMT_UNK) and infile ("" = empty).
NoFile == ""

VARIABLES
    cfg,          \* the command line
    phase,        \* where main is
    params,       \* initParams.parameters: [decod, infile]
    cache,        \* parametersCache (main, line 829)
    initialized,  \* initParams.initialized
    pluginRc,     \* what pluginMain returned
    round,        \* main's repetition counter i
    pending,      \* directory entries the current directory_iterator has left
    attempts,     \* <<file, format>>: a file handed to an image decoder
    compressed,   \* files compressed successfully
    coding,       \* the coding parameters parseCommandLine leaves
    exitCode      \* main's return value; "terminated" for an uncaught exception

vars == <<cfg, phase, params, cache, initialized, pluginRc, round, pending,
          attempts, compressed, coding, exitCode>>

\* The --in-file of the command line.
SingleFile == cfg.infile

Phases == {"parse", "initialize", "pluginInit", "batch", "pluginSingle",
           "pluginDir", "main", "cpu", "cpuDir", "exit"}

TypeOK ==
    /\ cfg \in Configs
    /\ phase \in Phases
    /\ params \in [decod : STRING, infile : Files \cup SingleFiles \cup {NoFile}]
    /\ initialized \in BOOLEAN
    /\ pluginRc \in {"none", "Success", "Fail", "Usage"}
    /\ round \in 0..MaxRepeats
    /\ pending \subseteq Files
    /\ attempts \subseteq (Files \cup SingleFiles) \X STRING
    /\ compressed \subseteq Files \cup SingleFiles
    /\ coding \in Coding
    /\ exitCode \in {"none", "success", "failure", "terminated"}

Init ==
    /\ cfg \in Configs
    /\ phase = "parse"
    /\ params = [decod |-> "unk", infile |-> NoFile]
    /\ cache = params
    /\ initialized = FALSE
    /\ pluginRc = "none"
    /\ round = 0
    /\ pending = {}
    /\ attempts = {}
    /\ compressed = {}
    /\ coding = DefaultCoding
    /\ exitCode = "none"

-----------------------------------------------------------------------------
(* Option handling (parseCommandLine)                                      *)

\* Lines 1846-1867: --batch-src sets set_imgdir; six or more comma-separated
\* parts select the shared-memory interface instead of a directory.
SetImgDir == cfg.srcEntries > 0
SharedMemoryInterface(count) == count >= 6

\* Lines 1179-1210: decod_format after parsing: --in-fmt if given (an
\* unsupported one only draws a warning), else the extension of --in-file,
\* which must be supported; "fail" when it is not.
ParsedFormat ==
    IF cfg.inFmt # "unk" THEN cfg.inFmt
    ELSE IF SetImgDir THEN "unk"
    ELSE IF IsDecodedFormatSupported(FormatOf[SingleFile]) THEN FormatOf[SingleFile]
    ELSE "fail"

\* validateCinema, lines 737-798 (with parse_cs splitting the argument at
\* commas): the frame rate is std::stoi of the first part, narrowed to
\* uint16_t; the bandwidth is divided by fps * 8, at line 756 when a
\* bandwidth part is given and at line 790 for every rate but 24 and 48.
\* std::stoi throws invalid_argument on a non-number, and an integer
\* division by zero raises SIGFPE: either ends the process.
CinemaFps(c) == c.fps % 65536
ValidateCinema(c) ==
    IF ~c.numeric THEN "exception"
    ELSE IF CinemaFps(c) = 0 /\ (c.bandwidth \/ CinemaFps(c) \notin {24, 48})
         THEN "sigfpe"
    ELSE "ok"

\* Lines 1889-1904: the cinema profiles are validated unless the output is
\* HTJ2K.
CinemaOutcome == IF cfg.cinema.given /\ ~HtAtParse(cfg.opts) THEN ValidateCinema(cfg.cinema) ELSE "ok"

\* The coding parameters parseCommandLine computes from the options, the
\* cinema profile set when one is given (and validated) and not HTJ2K.
Parsed == ParseOptions(cfg.opts, ParsedFormat, cfg.cinema.given /\ ~HtAtParse(cfg.opts),
                       SetImgDir)

-----------------------------------------------------------------------------
(* Helpers: nextFile, pluginCompressCallback, compress                      *)

\* nextFile's return of 1: the entry is not suitable for compression.
Skip == [decod |-> "skip", infile |-> NoFile]

\* nextFile, lines 684-717: the parameters for directory entry f, or Skip
\* when the format is still unknown and f's extension gives none.
NextFile(f, p) ==
    IF p.decod = "unk" /\ FormatOf[f] = "unk" THEN Skip
    ELSE [decod |-> IF p.decod = "unk" THEN FormatOf[f] ELSE p.decod, infile |-> f]

\* pluginCompressCallback, lines 2213-2545: an unknown decod_format is
\* taken from the input file's extension (and must be supported, 2250-2266);
\* the decoder switch (2268-2364) rejects other formats.  Result: the
\* parameters it leaves and the format it decodes with ("none": it fails
\* before decoding).  Decoding and compressing may then succeed or fail.
PluginCompressCallback(p) ==
    LET fmt == IF p.decod = "unk" THEN FormatOf[p.infile] ELSE p.decod
    IN  [params |-> [p EXCEPT !.decod = fmt],
         used   |-> IF IsDecodedFormatSupported(fmt) THEN fmt ELSE "none"]

\* compress, lines 2552-2555: decod_format is reset whenever infile is set.
ResetFormat(p) == IF p.infile # NoFile THEN [p EXCEPT !.decod = "unk"] ELSE p

\* compress, lines 2549-2581, up to the callback: the reset, then nextFile
\* in directory mode.
CompressPrepare(f, p) ==
    IF SetImgDir THEN NextFile(f, ResetFormat(p)) ELSE ResetFormat(p)

\* main, line 849: the parameters each directory entry starts from.
RestoreParams_Dropped(cur, c) == cur
RestoreParams(cur, c) == c

\* Files the callback handed to a decoder, and the file compressed.
Attempted(f, used) == IF used = "none" THEN attempts ELSE attempts \cup {<<f, used>>}

NextRound(i) == i + 1

-----------------------------------------------------------------------------
(* pluginMain, lines 898-973                                               *)

\* pluginMain returns rc to main.
Return(rc) == pluginRc' = rc /\ phase' = "main"

\* Lines 900-915: option parsing; usage and errors return at once,
\* success marks the parameters initialized.  After the input format checks
\* (1179-1210) come the coding options (1409-1832), which may fail, then
\* validateCinema, which may end the process (1889-1904), then the
\* broadcast, IMF and Rsiz profiles and the checks at the end (1906-2208),
\* which may fail.
ParseCommandLine ==
    /\ phase = "parse"
    /\ \/ /\ ParsedFormat # "fail"
          /\ Parsed.rc = "fail"
          /\ Return("Fail")
          /\ UNCHANGED <<params, initialized, coding, exitCode>>
       \/ /\ ParsedFormat # "fail"
          /\ Parsed.rc # "fail"
          /\ CinemaOutcome # "ok"
          /\ phase' = "exit" /\ exitCode' = "terminated"
          /\ UNCHANGED <<params, initialized, pluginRc, coding>>
       \/ /\ ParsedFormat # "fail"
          /\ Parsed.rc = "failLate"
          /\ CinemaOutcome = "ok"
          /\ Return("Fail")
          /\ UNCHANGED <<params, initialized, coding, exitCode>>
       \/ /\ ParsedFormat # "fail"
          /\ Parsed.rc = "ok"
          /\ CinemaOutcome = "ok"
          /\ params' = [decod |-> ParsedFormat,
                        infile |-> IF SetImgDir THEN NoFile ELSE SingleFile]
          /\ coding' = Parsed
          /\ initialized' = TRUE
          /\ phase' = "initialize"
          /\ UNCHANGED <<pluginRc, exitCode>>
       \/ /\ \E rc \in {"Fail", "Usage"} : Return(rc)
          /\ UNCHANGED <<params, initialized, coding, exitCode>>
    /\ UNCHANGED <<cfg, cache, round, pending, attempts, compressed>>

\* Lines 916-920: grk_initialize loads the plugin, and may fail.
GrkInitialize ==
    /\ phase = "initialize"
    /\ \/ phase' = "pluginInit" /\ UNCHANGED pluginRc
       \/ Return("Fail")
    /\ UNCHANGED <<cfg, coding, params, cache, initialized, round, pending, attempts,
                   compressed, exitCode>>

\* Lines 937-943: the plugin batch interface is used for a directory with
\* an output directory or shared memory, unless the plugin is debugging.
IsBatch == SetImgDir /\ (cfg.outDir \/ SharedMemoryInterface(cfg.srcEntries))

\* Lines 924-955: grk_plugin_init creates the codec, and may fail; then the
\* batch, single-image or directory path is chosen.  Line 955's
\* directory_iterator throws filesystem_error on a comma-separated list.
GrkPluginInit ==
    /\ phase = "pluginInit"
    /\ \/ Return("Fail") /\ UNCHANGED <<pending, exitCode>>
       \/ /\ IsBatch /\ ~cfg.debugState
          /\ phase' = "batch" /\ UNCHANGED <<pluginRc, pending, exitCode>>
       \/ /\ ~(IsBatch /\ ~cfg.debugState) /\ ~SetImgDir
          /\ phase' = "pluginSingle" /\ UNCHANGED <<pluginRc, pending, exitCode>>
       \/ /\ ~(IsBatch /\ ~cfg.debugState) /\ SetImgDir
          /\ IF SharedMemoryInterface(cfg.srcEntries)
             THEN phase' = "exit" /\ exitCode' = "terminated" /\ UNCHANGED pending
             ELSE phase' = "pluginDir" /\ pending' = cfg.dir /\ UNCHANGED exitCode
          /\ UNCHANGED pluginRc
    /\ UNCHANGED <<cfg, coding, params, cache, initialized, round, attempts, compressed>>

\* pluginBatchCompress, lines 878-896: the plugin compresses the directory
\* (reporting 0 once the batch completes) or fails to begin.
PluginBatchCompress ==
    /\ phase = "batch"
    /\ \/ /\ Return("Success")
          /\ compressed' = compressed \cup {f \in cfg.dir : NextFile(f, params) # Skip}
       \/ Return("Fail") /\ UNCHANGED compressed
    /\ UNCHANGED <<cfg, coding, params, cache, initialized, round, pending, attempts, exitCode>>

\* Line 947: grk_plugin_compress's result as pluginMain reports it.
PluginCompressRc(ok) == IF ok THEN "Success" ELSE "Fail"

\* Lines 945-948: grk_plugin_compress on the single image, calling back
\* pluginCompressCallback with the parameters as they are.
PluginCompressSingle ==
    /\ phase = "pluginSingle"
    /\ LET cb == PluginCompressCallback(params) IN
       \E ok \in IF cb.used = "none" THEN {FALSE} ELSE BOOLEAN :
          /\ Return(PluginCompressRc(ok))
          /\ params' = cb.params
          /\ attempts' = Attempted(SingleFile, cb.used)
          /\ compressed' = IF ok THEN compressed \cup {SingleFile} ELSE compressed
    /\ UNCHANGED <<cfg, coding, cache, initialized, round, pending, exitCode>>

\* Lines 955-968, one directory entry f: nextFile, then grk_plugin_compress
\* (only mct and rate control are restored, lines 965-966); the loop breaks
\* after the first success.
PluginDirEntry(f) ==
    /\ phase = "pluginDir"
    /\ f \in pending
    /\ IF NextFile(f, params) = Skip
       THEN /\ pending' = pending \ {f}
            /\ UNCHANGED <<params, attempts, compressed, pluginRc, phase>>
       ELSE LET cb == PluginCompressCallback(NextFile(f, params)) IN
            \E ok \in IF cb.used = "none" THEN {FALSE} ELSE BOOLEAN :
               /\ params' = cb.params
               /\ attempts' = Attempted(f, cb.used)
               /\ pending' = pending \ {f}
               /\ IF ok THEN compressed' = compressed \cup {f} /\ Return("Success")
                  ELSE UNCHANGED <<compressed, pluginRc, phase>>
    /\ UNCHANGED <<cfg, coding, cache, initialized, round, exitCode>>

\* Lines 969-972: the directory is exhausted; rc is GrkRCSuccess.
PluginDirDone ==
    /\ phase = "pluginDir"
    /\ pending = {}
    /\ Return("Success")
    /\ UNCHANGED <<cfg, coding, params, cache, initialized, round, pending, attempts,
                   compressed, exitCode>>

-----------------------------------------------------------------------------
(* GrkCompress::main, lines 800-876                                        *)

\* Lines 809-829: plugin success or usage ends main with EXIT_SUCCESS, an
\* uninitialized parse with EXIT_FAILURE; else the parameters are cached.
MainAfterPlugin ==
    /\ phase = "main"
    /\ CASE pluginRc \in {"Success", "Usage"} ->
              phase' = "exit" /\ exitCode' = "success" /\ UNCHANGED cache
         [] ~initialized ->
              phase' = "exit" /\ exitCode' = "failure" /\ UNCHANGED cache
         [] OTHER ->
              phase' = "cpu" /\ cache' = params /\ UNCHANGED exitCode
    /\ UNCHANGED <<cfg, coding, params, initialized, pluginRc, round, pending, attempts,
                   compressed>>

\* Lines 831-842: a repetition on the single file: restore the cache and
\* compress; a failure ends main with 1.
CpuCompressSingle ==
    /\ phase = "cpu"
    /\ round < cfg.repeats
    /\ ~SetImgDir
    /\ LET cb == PluginCompressCallback(CompressPrepare(SingleFile, cache)) IN
       \E ok \in IF cb.used = "none" THEN {FALSE} ELSE BOOLEAN :
          /\ params' = cb.params
          /\ attempts' = Attempted(SingleFile, cb.used)
          /\ IF ok THEN /\ compressed' = compressed \cup {SingleFile}
                        /\ round' = NextRound(round)
                        /\ UNCHANGED <<phase, exitCode>>
             ELSE phase' = "exit" /\ exitCode' = "failure" /\ UNCHANGED <<compressed, round>>
    /\ UNCHANGED <<cfg, coding, cache, initialized, pluginRc, pending>>

\* Lines 844-848: a repetition over the directory starts iterating it; a
\* comma-separated --batch-src makes directory_iterator throw
\* filesystem_error, which main (catching only bad_alloc) does not catch.
CpuDirStart ==
    /\ phase = "cpu"
    /\ round < cfg.repeats
    /\ SetImgDir
    /\ IF SharedMemoryInterface(cfg.srcEntries)
       THEN phase' = "exit" /\ exitCode' = "terminated" /\ UNCHANGED pending
       ELSE phase' = "cpuDir" /\ pending' = cfg.dir /\ UNCHANGED exitCode
    /\ UNCHANGED <<cfg, coding, params, cache, initialized, pluginRc, round, attempts,
                   compressed>>

\* Lines 849-854: one directory entry: restore the cache and compress; a
\* skipped or failed entry is passed over.
CpuDirEntry(f) ==
    /\ phase = "cpuDir"
    /\ f \in pending
    /\ pending' = pending \ {f}
    /\ LET start == RestoreParams(params, cache)
           p     == CompressPrepare(f, start)
       IN  IF p = Skip
           THEN params' = ResetFormat(start) /\ UNCHANGED <<attempts, compressed>>
           ELSE LET cb == PluginCompressCallback(p) IN
                \E ok \in IF cb.used = "none" THEN {FALSE} ELSE BOOLEAN :
                   /\ params' = cb.params
                   /\ attempts' = Attempted(f, cb.used)
                   /\ compressed' = IF ok THEN compressed \cup {f} ELSE compressed
    /\ UNCHANGED <<cfg, coding, phase, cache, initialized, pluginRc, round, exitCode>>

\* Lines 855-857: the directory is exhausted; the next repetition.
CpuDirDone ==
    /\ phase = "cpuDir"
    /\ pending = {}
    /\ phase' = "cpu"
    /\ round' = NextRound(round)
    /\ UNCHANGED <<cfg, coding, params, cache, initialized, pluginRc, pending, attempts,
                   compressed, exitCode>>

\* Lines 858-876: all repetitions done (none for repeats = 0): main returns
\* EXIT_SUCCESS after grk_deinitialize.
CpuDone ==
    /\ phase = "cpu"
    /\ round = cfg.repeats
    /\ phase' = "exit"
    /\ exitCode' = "success"
    /\ UNCHANGED <<cfg, coding, params, cache, initialized, pluginRc, round, pending,
                   attempts, compressed>>

\* The process has exited.
Exited ==
    /\ phase = "exit"
    /\ UNCHANGED vars

Next ==
    \/ ParseCommandLine
    \/ GrkInitialize
    \/ GrkPluginInit
    \/ PluginBatchCompress
    \/ PluginCompressSingle
    \/ \E f \in Files : PluginDirEntry(f)
    \/ PluginDirDone
    \/ MainAfterPlugin
    \/ CpuCompressSingle
    \/ CpuDirStart
    \/ \E f \in Files : CpuDirEntry(f)
    \/ CpuDirDone
    \/ CpuDone
    \/ Exited

Spec == Init /\ [][Next]_vars

\* grk_compress is a single thread: whatever step main can take next, it
\* eventually takes (the library calls return; their outcome is free).
Fairness == WF_vars(Next)

FairSpec == Spec /\ Fairness

-----------------------------------------------------------------------------
(* Properties                                                              *)

\* The format a file is meant to be decoded with: --in-fmt "will override
\* file tag" (help text, line 269), otherwise the file's own extension.
IntendedFormat(f) == IF cfg.inFmt # "unk" THEN cfg.inFmt ELSE FormatOf[f]

\* Every image the driver hands to a decoder (pluginCompressCallback via
\* compress or grk_plugin_compress) is decoded with its intended format,
\* however many files and repetitions came before it and whatever
\* nextFile, compress and the plugin left in the shared parameters.
FormatOfEachFile ==
    \A a \in attempts : a[2] = IntendedFormat(a[1])

\* In the CPU directory loop (main, lines 846-855), which runs only after
\* pluginMain failed, every entry is decoded with its intended format: the
\* cached parameters are restored before each entry (line 849), so neither
\* the format nextFile took for the previous entry nor the reset in
\* compress (2554-2555) overrides --in-fmt or the entry's extension.  (The
\* plugin's loop restores less, and single-image mode drops --in-fmt: the
\* compress_plugin_dir_stale run and the README's observations.)
CpuEntriesInIntendedFormat ==
    pluginRc = "Fail" =>
        \A a \in attempts : a[1] \in cfg.dir => a[2] = IntendedFormat(a[1])

\* A successful exit of directory mode means every entry with a usable
\* format was compressed or at least handed to a decoder: neither the
\* plugin's directory loop (955-970) nor the CPU loop (846-855) passes
\* one over.
ExitSuccessMeansEveryFileAttempted ==
    (exitCode = "success" /\ pluginRc # "Usage" /\ SetImgDir) =>
        \A f \in cfg.dir :
            (cfg.inFmt # "unk" \/ FormatOf[f] # "unk") =>
                f \in compressed \/ \E a \in attempts : a[1] = f

\* main never ends in an uncaught exception: every error path returns an
\* exit code (main catches only std::bad_alloc, lines 866-871).
NoUncaughtException == exitCode # "terminated"

AcceptedPocsWithinCodestream ==
    initialized =>
        \A i \in 1..Len(coding.pocs) :
            LET p == coding.pocs[i]
            IN  /\ p.resS < p.resE /\ p.resE <= coding.numresolution
                /\ p.compS < p.compE

\* An accepted command line places the tile grid as SIZ requires (ISO
\* 15444-1 A.5.1, and the error text at lines 1699-1702): the first tile
\* starts above and left of the image offset, and with -t it reaches past
\* it, whichever of -t, -T and -d were given, with -d defaulted from -T
\* (1677-1682) and the checks at 1683-1705 and 2177-2185.
AcceptedTileGridAnchored ==
    initialized =>
        /\ coding.tx0 <= coding.x0 /\ coding.ty0 <= coding.y0
        /\ coding.tiling =>
               /\ coding.tx0 + coding.tw > coding.x0
               /\ coding.ty0 + coding.th > coding.y0

\* Every accepted -C keeps the first NumCommentsSupported of its non-empty
\* parts no longer than MaxCommentLength, in order, and never more: the
\* comment arrays (comment, comment_len, is_binary_comment) hold
\* NumCommentsSupported entries, and the loop at 1710-1735 must stop
\* at the last free slot while skipping the parts it ignores.
CommentsKept ==
    initialized =>
        LET usable == SelectSeq(cfg.opts.comment,
                                LAMBDA len : len > 0 /\ len <= MaxCommentLength)
        IN  coding.comments =
                SubSeq(usable, 1, IF Len(usable) < NumCommentsSupported
                                  THEN Len(usable) ELSE NumCommentsSupported)

\* The most components k a custom MCT of n fields can have: k * k matrix
\* entries and k offsets among the n fields.
LargestMctComps(n) ==
    CHOOSE k \in 0..n : k * k + k <= n /\ (k + 1) * (k + 1) + (k + 1) > n

\* An accepted -m file of space-separated values gives the largest matrix
\* its fields hold, read in
\* order: k components with k * k + k fields read and no room for k + 1
\* (the square-root formula at line 1579), the matrix from the first k * k
\* fields and the offsets from the next k, so the loops at 1589-1601 never
\* read past the last field and leave none of a full matrix unread.  A file
\* written as the usage text says (lines 564-566: commas, no spaces) is one
\* field to the code, which splits at spaces (1566-1575), and yields an
\* empty matrix; such files are explored and left out (README).
CustomMctFromFields ==
    initialized /\ cfg.opts.customMct.given /\ ~cfg.opts.customMct.commas =>
        LET f == cfg.opts.customMct.fields
            k == Len(coding.mctOffsets)
        IN  /\ k = LargestMctComps(Len(f))
            /\ coding.mctMatrix \o coding.mctOffsets = SubSeq(f, 1, k * k + k)

\* A cinema or IMF profile that an accepted command line for J2K output
\* (neither -o nor -O names an HTJ2K format) asks for is the profile
\* written, with its TLM markers: IMF set after cinema (lines 1890-2083),
\* -Z ignored under either (2084-2093), TLM switched on by both (1896, 1904,
\* 2082) whatever --broadcast and -X say.  HTJ2K output chosen by -O is
\* explored and left out: isHT is set from it only at line 2102, after the
\* profiles (README, observations).
ProfileKept ==
    initialized /\ ~HtOnly(cfg.opts) /\ (cfg.cinema.given \/ cfg.opts.imf.given) =>
        /\ coding.rsiz = IF cfg.opts.imf.given THEN cfg.opts.imf.name ELSE "cinema"
        /\ coding.writeTlm

\* An accepted -F argument whose factors fit the uint8_t fields of
\* raw_cp.comps gives each of its ncomp components the factors the usage
\* text (lines 1350-1354) describes: the i-th spec of the list,
\* the last spec for the components beyond the list, 1x1 when there is no
\* list; and MCT stays on for raw input (line 2194) only when the second
\* and third components are not subsampled.  The loop (1305-1345) reaches
\* this through substr2, lastdx and lastdy, whose values carry from one
\* component to the next.  A factor of 256 or more is stored narrowed (a
\* 256 as 0); such lists are explored and left out (README, observations).
RawComponentsAsListed ==
    LET r == cfg.opts.raw
        Listed(i) ==
            IF r.subs = <<>> THEN [dx |-> 1, dy |-> 1]
            ELSE LET s == r.subs[IF i < Len(r.subs) THEN i ELSE Len(r.subs)]
                 IN  [dx |-> s.dx, dy |-> s.dy]
        Fits == \A i \in 1..Len(r.subs) : r.subs[i].dx < 256 /\ r.subs[i].dy < 256
    IN  initialized /\ r.given /\ Fits =>
            /\ coding.comps = [i \in 1..r.ncomp |-> Listed(i)]
            /\ params.decod \in {"raw", "rawl"} /\ coding.mct # 0 =>
                   \A i \in {2, 3} \cap 1..r.ncomp : Listed(i) = [dx |-> 1, dy |-> 1]

====
