------------------------- MODULE MCAnalysisPipeline -------------------------
(* AnalysisPipeline for TLC: two entries of every kind in every order, and *)
(* archives at and beyond each limit; a catalogue with a finding on each   *)
(* side of every threshold.                                                *)
EXTENDS AnalysisPipeline

Name(parts) == [absolute |-> FALSE, parts |-> parts]
Member(kind, name, declared, actual, sound) ==
    [kind |-> kind, name |-> name, declared |-> declared, actual |-> actual, sound |-> sound]
File(parts, size) == Member("file", Name(parts), size, size, TRUE)

MCNoName == [absolute |-> FALSE, parts |-> <<"no name">>]
MCDrives == {"C:"}

App == File(<<"src", "app.py">>, 1)
Small == File(<<"small.py">>, 1)
Big == File(<<"src", "app.py">>, 2)
Pool ==
    {App, Big, File(<<"package.json">>, 1),
     File(<<"node_modules", "package.json">>, 1),
     File(<<"src">>, 1),                                          \* a file named as a directory
     File(<<"logo.png">>, 2),
     Member("file", Name(<<"src", "lies.py">>), 1, 3, TRUE),     \* says 1, holds 3
     Member("file", Name(<<"big.py">>), 3, 3, TRUE),
     Member("file", Name(<<"bad.py">>), 2, 1, FALSE),
     Member("directory", Name(<<"src">>), 0, 0, TRUE),
     Member("symlink", Name(<<"link.py">>), 0, 0, TRUE),
     File(<<"..", "app.py">>, 1), File(<<"C:", "app.py">>, 1), File(<<"a", "b", "app.py">>, 1),
     Member("file", [absolute |-> TRUE, parts |-> <<"app.py">>], 1, 1, TRUE),
     Member("file", MCNoName, 1, 1, TRUE)}

Archive(format, bytes, entries) == [format |-> format, bytes |-> bytes, entries |-> entries]

Wrapped(e) == [e EXCEPT !.name.parts = <<"wrapper">> \o @]

MCArchives ==
    {Archive("zip", 2, <<d, e>>) : d \in Pool, e \in Pool}
      \cup {Archive("zip", 1, <<e, Big>>) : e \in Pool}
      \cup {Archive("zip", 3, <<App, Big, e, Small>>) : e \in Pool}
      \cup {Archive("zip", 3, <<App, File(<<"package.json">>, 1), Small, e>>) : e \in Pool}
      \cup {Archive("zip", 3, <<File(<<"logo.png">>, 2), Big, e>>) : e \in Pool}
      \cup {Archive("tar", 3, <<Member("directory", Name(<<"wrapper">>), 0, 0, TRUE),
                                Wrapped(e), Wrapped(App)>>) : e \in Pool}
      \cup {Archive("tar", 3, <<Wrapped(File(<<"package.json">>, 1)), Wrapped(Small), Wrapped(App)>>)}
      \cup {Archive("tar", 3, <<File(<<"wrapper">>, 1), Wrapped(Big),
                                Member("special", Name(<<"wrapper", "pipe">>), 0, 0, TRUE)>>)}

MCSkipDirectories == {"node_modules"}
MCAlwaysRead == {"package.json"}
MCSkippedNames == {"logo.png"}
MCSourceNames == {"app.py", "small.py", "bad.py", "big.py", "lies.py"}
MCBinaryNames == {"src"}

Reports(rule, category, severity, confidence, file, place) ==
    [rule |-> rule, category |-> category, severity |-> severity, confidence |-> confidence,
     file |-> file, place |-> place]

MCRegistry == <<"injection", "secrets", "advisories", "length", "style">>
MCCatalogue ==
    {Reports("injection", "security", "critical", "high", "app.py", 2),
     Reports("injection", "security", "high", "medium", "app.py", 3),
     Reports("secrets", "secret", "high", "high", "small.py", 7),
     Reports("secrets", "secret", "medium", "medium", "app.py", 4),
     Reports("advisories", "dependencies", "critical", "high", "package.json", 6),
     Reports("length", "metric", "medium", "high", "app.py", 5),
     Reports("length", "metric", "low", "high", "small.py", 8),
     Reports("style", "quality", "low", "medium", NoFile, 1),
     Reports("style", "quality", "medium", "high", "src", 9)}
=============================================================================
