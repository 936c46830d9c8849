------------------------------ MODULE MCDriver ------------------------------
(***************************************************************************)
(* DriverSystem with a small catalog and six installers.                   *)
(***************************************************************************)
EXTENDS DriverSystem

\* The installers: the complete one, one without a signature, one that is too
\* large, one with a setup.cfg of its own, one with an impossible compression
\* and one whose setup.exe unpacks to another size than it declares.
File(d, l, p) == [dir |-> d, leaf |-> l, fold |-> p, unsafe |-> FALSE,
                  size |-> 1, packed |-> 1, actual |-> 1]
SetupExe == File(None, "setup.exe", "setup.exe")
Complete == <<SetupExe, File("display", "bin", "display/bin"),
              File("app", "bin", "app/bin"), File("extra", "bin", "extra/bin")>>
Installer(s, n, es) == [signed |-> s, length |-> n, entries |-> es]
MCInstallers ==
    {Installer(TRUE, 1, Complete), Installer(FALSE, 1, Complete), Installer(TRUE, 3, Complete),
     Installer(TRUE, 1, Append(Complete, File(None, "setup.cfg", "setup.cfg"))),
     Installer(TRUE, 1, <<[SetupExe EXCEPT !.packed = 0]>>),
     Installer(TRUE, 1, <<File("display", "bin", "display/bin"), [SetupExe EXCEPT !.actual = 2]>>)}
MCDepends == [c \in Components |-> IF c = "app" THEN {"audio"} ELSE {}]
MCPresets == {{"app"}, {"display", "app", "audio"}}
MCDeselections == {{}, {"audio", "display"}, {"app"}}
=============================================================================
