----------------------------- MODULE MCDumpFile -----------------------------
EXTENDS DumpFile

\* The sp of thread 3 is the boundary between the chunks of a stack cut to
\* 2048 bytes.
MCStack ==
    [t \in Tids |->
        [start |-> t * 65536, size |-> 12288,
         sp |-> t * 65536 + (<<100, 5000, 2048, 12000>>)[t],
         ip |-> 1003520 + 4096 + 100 * t]]

Line(name, start, size, exec, offset) ==
    [name |-> name, start |-> start, size |-> size, exec |-> exec,
     offset |-> offset]

\* "app" is linked with a separate header segment.  "packed" has packed
\* relocations and its load bias lies inside "low", which is stored before
\* it; that of "app" lies inside "late", which may be loaded while the dump
\* begins and is stored after it.
MCSegments ==
    [l \in Libraries |->
        CASE l = "app" -> {Line(l, 1003520, 4096, FALSE, 0),
                           Line(l, 1007616, 8192, TRUE, 4096),
                           Line(l, 1015808, 4096, FALSE, 12288)}
          [] l = "low" -> {Line(l, 901120, 8192, TRUE, 0)}
          [] l = "packed" -> {Line(l, 913408, 8192, TRUE, 0)}
          [] l = "late" -> {Line(l, 991232, 8192, TRUE, 0)}]

MCBias == [l \in Libraries |-> IF l \in {"packed", "app"} THEN 8192 ELSE 0]

\* So large that the exception stream begins on a new page of the file: with
\* 9 pages its allocation is the one that fails.
MCAppMemory == <<[start |-> 2000000, size |-> 1704]>>

F(name, size, proc) == [name |-> name, size |-> size, proc |-> proc]

MCProcFiles == <<F("cpuinfo", 100, FALSE), F("status", 90, TRUE),
                 F("lsb", 50, FALSE), F("cmdline", 20, TRUE),
                 F("environ", 60, TRUE), F("auxv", 40, TRUE),
                 F("maps", 300, TRUE)>>

Plain == [context |-> TRUE, fd |-> FALSE, limit |-> -1, skip |-> FALSE,
          refers |-> {}, traced |-> {}, exists |-> FALSE, bug |-> FALSE,
          readable |-> {"cpuinfo", "status", "cmdline", "environ", "auxv",
                        "maps"},
          maxLength |-> 1000000, room |-> 1000000, moves |-> 2]

MCScenarios ==
    {[Plain EXCEPT !.moves = 4],
     [Plain EXCEPT !.context = FALSE, !.readable = {}],
     [Plain EXCEPT !.limit = 0, !.traced = {1}],
     [Plain EXCEPT !.fd = TRUE, !.bug = TRUE],
     [Plain EXCEPT !.bug = TRUE],
     [Plain EXCEPT !.exists = TRUE],
     [Plain EXCEPT !.skip = TRUE, !.refers = {2, 3}],
     [Plain EXCEPT !.skip = TRUE, !.refers = {3}]}
    \cup {[Plain EXCEPT !.maxLength = 4096 * n, !.moves = 0] : n \in 0..14}

\* The disk is full after some number of writes.
MCFullDisk == {[Plain EXCEPT !.room = n, !.moves = 0] : n \in 0..100}
-----------------------------------------------------------------------------
\* One turn of the loop over the lines, as the code has it.
AddLine(found, line) ==
    IF found # <<>> /\ Merges(Last(found), line)
    THEN [found EXCEPT ![Len(found)].size = @ + line.size,
                       ![Len(found)].exec = @ \/ line.exec]
    ELSE Append(found, line)

\* Up to four lines, each right after the one before or with a gap.
SampleMaps ==
    LET Kind == [name : {"", "app", "low"}, exec : BOOLEAN, gap : {0, 1}]
        start(kinds, i) ==
            4096 * (i + Cardinality({j \in 1..i : kinds[j].gap = 1}))
        lines(kinds) ==
            [i \in DOMAIN kinds |-> Line(kinds[i].name, start(kinds, i), 4096,
                                        kinds[i].exec, i)]
    IN  {lines(kinds) : kinds \in UNION {[1..n -> Kind] : n \in 0..4}}

\* MergedMappings is what the loop makes.
ASSUME MergedByLine ==
    \A lines \in SampleMaps :
        MergedMappings(lines) = FoldLeft(AddLine, <<>>, lines)
=============================================================================
