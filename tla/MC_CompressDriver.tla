--------------------------- MODULE MC_CompressDriver ---------------------------
(***************************************************************************)
(* Instances of the compress driver for TLC.  Files are named by their     *)
(* extension; "c.txt" has none grk_get_file_format knows.  Each Configs_*  *)
(* set is the command lines one run explores (in every order of directory  *)
(* entries and with every library outcome).                                *)
(***************************************************************************)
EXTENDS CompressDriver, TLC

MCFormatOf == [f \in {"a.pgx", "b.png", "c.txt", "s.png", "s.raw"} |->
                 CASE f = "a.pgx" -> "pgx" [] f = "b.png" -> "png"
                   [] f = "c.txt" -> "unk" [] f = "s.png" -> "png"
                   [] f = "s.raw" -> "raw"]
MCFiles == {"a.pgx", "b.png", "c.txt"}
MCMaxRepeats == 2

\* -T or -d not given.
NoOffset == [given |-> FALSE, matched |-> FALSE, x |-> 0, y |-> 0]

\* A --broadcast or --imf argument PROFILE followed by the ",key=N" parts kv.
Profile(name, kv) ==
    [given |-> TRUE, name |-> name, keys |-> DOMAIN kv,
     mainlevel |-> IF "mainlevel" \in DOMAIN kv THEN kv["mainlevel"] ELSE 0,
     sublevel |-> IF "sublevel" \in DOMAIN kv THEN kv["sublevel"] ELSE 0,
     framerate |-> IF "framerate" \in DOMAIN kv THEN kv["framerate"] ELSE 0]
NoProfile == [Profile("", <<>>) EXCEPT !.given = FALSE]

NoRes == [given |-> FALSE, matched |-> FALSE, x |-> 0, y |-> 0]
NoRoi == [given |-> FALSE, matched |-> FALSE, compno |-> 0, shift |-> 0]

\* Defaults the usage text lists (lines 181 and 185).
MCDefaultNumResolutions == 6
MCDefaultNumLayers == 1

\* No coding option given.
NoOpts == [resolutions |-> 0, poc |-> <<>>, progression |-> "", rates |-> <<>>,
           quality |-> <<>>, mct |-> 0, precincts |-> <<>>, guardBits |-> 2,
           cblk |-> [given |-> FALSE, empty |-> FALSE, w |-> 0, h |-> 0],
           tiles |-> [given |-> FALSE, empty |-> FALSE, w |-> 0, h |-> 0],
           tileOffset |-> NoOffset, imageOffset |-> NoOffset,
           raw |-> [given |-> FALSE, header |-> FALSE, width |-> 0, ncomp |-> 0,
                    subs |-> <<>>],
           tlm |-> FALSE, broadcast |-> NoProfile, imf |-> NoProfile,
           rsiz |-> [given |-> FALSE],
           captureRes |-> NoRes, displayRes |-> NoRes, roi |-> NoRoi,
           customMct |-> [given |-> FALSE, readable |-> FALSE, fields |-> <<>>,
                          mallocZeroNull |-> FALSE, commas |-> FALSE],
           comment |-> <<>>, outFile |-> "j2k", outFmt |-> ""]

\* The output options of a --batch-src command line: -O j2k, no -o.
BatchOpts == [NoOpts EXCEPT !.outFile = "", !.outFmt = "j2k"]

\* Command lines with the given option values, without a cinema profile or
\* coding options: -o x.j2k for a single image, -O j2k with --batch-src.
Cmd(dir, src, out, fmt, rep, dbg) ==
    {[c EXCEPT !.opts = IF c.srcEntries > 0 THEN BatchOpts ELSE NoOpts] :
        c \in [dir : dir, srcEntries : src, outDir : out, inFmt : fmt, repeats : rep,
               debugState : dbg, cinema : {NoCinema}, opts : {NoOpts},
               infile : {"s.png"}]}

\* A -P part as sscanf reads it.
Part(rs, cs, le, re, ce, prog) ==
    [ok |-> TRUE, resS |-> rs, compS |-> cs, layE |-> le, resE |-> re, compE |-> ce,
     prog |-> prog]

\* -P parts: the usage text's example (1, 2); an end resolution beyond six,
\* and one that narrows to six; a start resolution that narrows to 0; an
\* empty resolution range and an empty component range; an unknown order
\* with an end layer beyond the default; a part sscanf does not match.
MCParts ==
    {Part(0, 0, 1, 3, 2, "CPRL"), Part(0, 0, 1, 6, 3, "CPRL"),
     Part(0, 0, 1, 9, 3, "LRCP"), Part(0, 0, 1, 262, 3, "LRCP"),
     Part(256, 0, 1, 3, 2, "RLCP"), Part(3, 0, 1, 3, 2, "RPCL"),
     Part(0, 2, 1, 3, 2, "PCRL"), Part(0, 0, 5, 3, 2, "XXXX"),
     [Part(0, 0, 1, 3, 2, "LRCP") EXCEPT !.ok = FALSE]}

\* -P arguments of up to two parts, with -n absent or 3.
MCPocOpts ==
    {[NoOpts EXCEPT !.poc = p, !.resolutions = n] :
        p \in {<<>>} \cup {<<a>> : a \in MCParts} \cup {<<a, b>> : a, b \in MCParts},
        n \in {0, 3}}

\* -b arguments: the usage text's maximum, a long thin block, a block of
\* more than 4096 coefficients, a side below 4, one number, an empty one.
MCCblk ==
    {[given |-> TRUE, empty |-> FALSE, w |-> w, h |-> h] :
        <<w, h>> \in {<<64, 64>>, <<1024, 4>>, <<128, 64>>, <<2, 64>>, <<32, 0>>}}
    \cup {[given |-> TRUE, empty |-> TRUE, w |-> 0, h |-> 0]}

\* One "[w,h]" followed by c.
Prec(w, h, c) == [ok |-> TRUE, w |-> w, h |-> h, sep |-> c]

\* -c arguments: one record, two, a trailing ',', a record followed by
\* another character, and one sscanf does not match.
MCPrecincts ==
    {<<Prec(256, 256, "")>>, <<Prec(256, 256, ","), Prec(128, 128, "")>>,
     <<Prec(256, 256, ",")>>, <<Prec(256, 256, "x")>>,
     <<[Prec(0, 0, "") EXCEPT !.ok = FALSE]>>}

\* An -T or -d argument sscanf reads as x,y.
Offset(x, y) == [given |-> TRUE, matched |-> TRUE, x |-> x, y |-> y]

\* -t, -T and -d: 4x4 tiles, a zero width; tile offset 2,2 or negative;
\* image offsets above-left of the tile offset, inside the first tile, on
\* its far edge in x (2 + 4 = 6) or in y only; plus an empty -t and a -T
\* sscanf does not match.
MCTileOpts ==
    {[NoOpts EXCEPT !.tiles = t, !.tileOffset = to, !.imageOffset = io] :
        t \in {NoOpts.tiles, [given |-> TRUE, empty |-> FALSE, w |-> 4, h |-> 4],
               [given |-> TRUE, empty |-> FALSE, w |-> 0, h |-> 4]},
        to \in {NoOffset, Offset(2, 2), Offset(-1, 0)},
        io \in {NoOffset, Offset(1, 1), Offset(5, 5), Offset(6, 6), Offset(4, 6)}}
    \cup {[NoOpts EXCEPT !.tiles = [given |-> TRUE, empty |-> TRUE, w |-> 0, h |-> 0]],
          [NoOpts EXCEPT !.tileOffset = [Offset(2, 2) EXCEPT !.matched = FALSE]]}

\* -p, -r and -q arguments: an order and a non-order; descending ratios
\* ending lossless and ascending ones; ascending PSNRs ending lossless, a
\* lossless PSNR in the middle; -r and -q together; -Y 1, 2 (custom, with
\* no matrix) and 3; -N 7 and 8; and the -b, -c, -t, -T and -d arguments.
MCLayerOpts ==
    {[NoOpts EXCEPT !.progression = s] : s \in {"RPCL", "XXXX"}}
    \cup {[NoOpts EXCEPT !.rates = r] : r \in {<<40, 20, 1>>, <<20, 40>>}}
    \cup {[NoOpts EXCEPT !.quality = q] : q \in {<<30, 40, 0>>, <<30, 0, 40>>}}
    \cup {[NoOpts EXCEPT !.rates = <<20>>, !.quality = <<30>>]}
    \cup {[NoOpts EXCEPT !.mct = m] : m \in {1, 2, 3}}
    \cup {[NoOpts EXCEPT !.guardBits = n] : n \in {7, 8}}
    \cup {[NoOpts EXCEPT !.cblk = c] : c \in MCCblk}
    \cup {[NoOpts EXCEPT !.precincts = p] : p \in MCPrecincts}
    \cup MCTileOpts

\* One "<dx>x<dy>" of a -F subsampling list, and one sscanf does not match.
Sub(dx, dy) == [ok |-> TRUE, dx |-> dx, dy |-> dy]
BadSub == [ok |-> FALSE, dx |-> 0, dy |-> 0]

\* -F lists: none (1x1 assumed); one spec for all components; the usage
\* text's 4:2:0 list; subsampled first component only; a list longer than
\* the components; a bad spec after a good one, and alone; a factor of 256
\* (one more than uint8_t holds) for the second component.
MCSubs ==
    {<<>>, <<Sub(2, 2)>>, <<Sub(1, 1), Sub(256, 1)>>, <<Sub(1, 1), Sub(2, 2)>>, <<Sub(2, 2), Sub(1, 1)>>,
     <<Sub(1, 1), Sub(2, 1), Sub(1, 2), Sub(2, 2)>>, <<Sub(1, 1), BadSub>>, <<BadSub>>}

\* -F arguments with one or three components, with and without a width,
\* and one whose header sscanf does not match; each with -Y absent or 1.
MCRawOpts ==
    {[NoOpts EXCEPT !.raw = [given |-> TRUE, header |-> TRUE, width |-> w,
                            ncomp |-> n, subs |-> l], !.mct = m] :
        w \in {0, 512}, n \in {1, 3}, l \in MCSubs, m \in {0, 1}}
    \cup {[NoOpts EXCEPT !.raw = [given |-> TRUE, header |-> FALSE, width |-> 0,
                                  ncomp |-> 0, subs |-> <<>>]]}

\* A -m file of n space-separated fields 1, 2, ..., n.
MctFile(n, null) ==
    [given |-> TRUE, readable |-> TRUE, fields |-> [i \in 1..n |-> i],
     mallocZeroNull |-> null, commas |-> FALSE]

\* A -m file of the six values 1, ..., 6 written as the usage text says,
\* comma-separated: one field "1,2,3,4,5,6", which atof reads as 1.
MctCommaFile == [MctFile(1, FALSE) EXCEPT !.commas = TRUE]

\* -C (two comment slots, parts up to 3 long): parts empty and too long
\* before a third usable one; exactly two usable; none usable.
\* -Q and -D: -Q matched and not, -D alone and after -Q; --roi matched and
\* not.  -m: an unreadable file; a file written as the usage text says
\* (comma-separated: one field); 1 field, with malloc(0) NULL and not; 2,
\* 5, 6, 11 and 12 fields, at and around k * k + k for k = 1, 2, 3; each -m
\* with -Y absent and 1.
MCMiscOpts ==
    {[NoOpts EXCEPT !.captureRes = q, !.displayRes = d] :
        q \in {NoRes, [given |-> TRUE, matched |-> TRUE, x |-> 1, y |-> 2],
               [given |-> TRUE, matched |-> FALSE, x |-> 0, y |-> 0]},
        d \in {NoRes, [given |-> TRUE, matched |-> TRUE, x |-> 3, y |-> 4]}}
    \cup {[NoOpts EXCEPT !.comment = c] :
            c \in {<<2, 0, 4, 1, 3>>, <<2, 1>>, <<4, 0>>}}
    \cup {[NoOpts EXCEPT !.roi = [given |-> TRUE, matched |-> m, compno |-> 1, shift |-> 3]] :
            m \in BOOLEAN}
    \cup {[NoOpts EXCEPT !.customMct = f, !.mct = y] :
            f \in {[MctFile(1, FALSE) EXCEPT !.readable = FALSE], MctFile(1, TRUE),
                  MctCommaFile}
                 \cup {MctFile(n, FALSE) : n \in {1, 2, 5, 6, 11, 12}},
            y \in {0, 1}}

\* A single image with coding options; -F ones also with a .raw --in-file.
ConfigsOptions ==
    [dir : {{}}, srcEntries : {0}, outDir : {FALSE}, inFmt : {"unk"}, repeats : {1},
     debugState : {FALSE}, cinema : {NoCinema},
     opts : MCPocOpts \cup MCLayerOpts \cup MCMiscOpts, infile : {"s.png"}]
    \cup [dir : {{}}, srcEntries : {0}, outDir : {FALSE}, inFmt : {"unk"},
          repeats : {1}, debugState : {FALSE}, cinema : {NoCinema},
          opts : MCRawOpts, infile : {"s.png", "s.raw"}]

\* --broadcast: a bare profile, one with a main level (which line 1918
\* cannot scan), one with a frame rate, an unknown profile.  --imf: a bare
\* profile, a main level of 12, a sub-level and frame rate, a sub-level of
\* 10.  Each with -Z absent or given; and -X alone.
MCBroadcast ==
    {NoProfile, Profile("SINGLE", <<>>), Profile("SINGLE", "mainlevel" :> 3),
     Profile("MULTI", "framerate" :> 24), Profile("XX", <<>>)}
MCImf ==
    {NoProfile, Profile("2K", <<>>), Profile("4K", "mainlevel" :> 12),
     Profile("8K_R", ("sublevel" :> 3) @@ ("framerate" :> 24)),
     Profile("2K", "sublevel" :> 10)}
MCProfileOpts ==
    {[NoOpts EXCEPT !.broadcast = b, !.imf = i, !.rsiz.given = z] :
        b \in MCBroadcast, i \in MCImf, z \in BOOLEAN}
    \cup {[NoOpts EXCEPT !.tlm = TRUE]}

\* Cinema arguments: 24 and 48 (the rates with their own limits), 30
\* (another rate), 0 and 65536 (a zero rate once narrowed to uint16_t),
\* with and without a bandwidth part, and a non-number.
MCCinema ==
    {[given |-> TRUE, numeric |-> TRUE, fps |-> r, bandwidth |-> b] :
        r \in {24, 48, 30, 0, 65536}, b \in BOOLEAN}
    \cup {[given |-> TRUE, numeric |-> FALSE, fps |-> 0, bandwidth |-> FALSE]}

\* -o x.jph: HTJ2K output.
HtOpts == [NoOpts EXCEPT !.outFile = "jph"]

\* A single image with a cinema profile, to a J2K or an HTJ2K output.
ConfigsCinema ==
    [dir : {{}}, srcEntries : {0}, outDir : {FALSE}, inFmt : {"unk"}, repeats : {1},
     debugState : {FALSE}, cinema : MCCinema, opts : {NoOpts, HtOpts},
     infile : {"s.png"}]

\* A single image with profile options, without a cinema profile or with a
\* valid one, to a J2K or an HTJ2K output.
ConfigsProfiles ==
    [dir : {{}}, srcEntries : {0}, outDir : {FALSE}, inFmt : {"unk"}, repeats : {1},
     debugState : {FALSE}, infile : {"s.png"},
     opts : MCProfileOpts \cup {[x EXCEPT !.outFile = "jph"] : x \in MCProfileOpts},
     cinema : {NoCinema, [given |-> TRUE, numeric |-> TRUE, fps |-> 24, bandwidth |-> FALSE]}]

\* The output options: a single image with -o x.jp2, x.png (unknown), or
\* none, or with -O jph after -o x.j2k, with and without a cinema profile;
\* a directory (plugin batch path) with -O jp2, jph or png, without -O, or
\* with -o as well.
ConfigsOutput ==
    [dir : {{}}, srcEntries : {0}, outDir : {FALSE}, inFmt : {"unk"}, repeats : {1},
     debugState : {FALSE}, infile : {"s.png"},
     cinema : {NoCinema, [given |-> TRUE, numeric |-> TRUE, fps |-> 24, bandwidth |-> FALSE]},
     opts : {[NoOpts EXCEPT !.outFile = f] : f \in {"jp2", "png", ""}}
            \cup {[NoOpts EXCEPT !.outFmt = "jph"]}]
    \cup [dir : {{"b.png"}}, srcEntries : {1}, outDir : {TRUE}, inFmt : {"unk"},
          repeats : {1}, debugState : {FALSE}, cinema : {NoCinema}, infile : {"s.png"},
          opts : {[BatchOpts EXCEPT !.outFmt = f] : f \in {"jp2", "jph", "png", ""}}
                 \cup {[BatchOpts EXCEPT !.outFile = "j2k"]}]

\* Fallback to the CPU: a single image, or a directory with --out-dir (the
\* plugin batch path); the plugin's directory loop (no --out-dir, or a
\* debugging plugin) over one entry and over three; each with and without
\* --in-fmt and with 0 (unlimited, says the help text), 1 or 2 repetitions;
\* and single images with cinema profiles or coding options.
ConfigsPass ==
    Cmd({{}}, {0}, {FALSE}, {"unk", "pgx"}, 0..2, {FALSE})
    \cup Cmd({MCFiles}, {1}, {TRUE}, {"unk", "pgx"}, 0..2, {FALSE})
    \cup (Cmd({{"b.png"}, MCFiles}, {1}, BOOLEAN, {"unk", "pgx"}, 0..2, BOOLEAN)
           \ Cmd({{"b.png"}, MCFiles}, {1}, {TRUE}, {"unk", "pgx"}, 0..2, {FALSE}))
    \cup ConfigsCinema
    \cup ConfigsOptions
    \cup ConfigsProfiles
    \cup ConfigsOutput

\* The plugin's directory loop over three entries, --in-fmt forced.
ConfigsPluginDirForced == Cmd({MCFiles}, {1}, {FALSE}, {"pgx"}, {1}, {FALSE})

\* The plugin's directory loop over three entries, formats from extensions.
ConfigsPluginDirTags == Cmd({MCFiles}, {1}, {FALSE}, {"unk"}, {1}, {FALSE})

\* --batch-src given as a six-part shared-memory list.
ConfigsShm == Cmd({MCFiles}, {6}, BOOLEAN, {"unk"}, {1}, BOOLEAN)
====
