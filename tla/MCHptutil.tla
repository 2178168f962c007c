------------------------------ MODULE MCHptutil ------------------------------
(* Instances of Hptutil for TLC. *)
EXTENDS Hptutil

\* Three areas: a plain one, one with nolink and one with nopack.
MCAreas == {"plain", "nolink", "nopack"}

Config(log, link) ==
  [importlog |-> log, LinkWithImportlog |-> link, nopack |-> {"nopack"},
   nolink |-> {"nolink"}, ignored |-> {}]

MCConfigs == {Config("import.log", link) : link \in {"lwiNo", "lwiYes", "lwiKill"}}
             \cup {Config(None, "lwiKill")}

MCLists == {"import.log", "alt.log"}

Call(what, k, alt) ==
  [what |-> what, keepImportLog |-> k, altImportLog |-> alt]

\* -i names a list of the sysop, never the importlog of fidoconfig.
MCCommandLines ==
  {Call(what, k, alt) : what \in {{"sort", "link"}, {"link", "purge", "pack"},
                                  {"fix", "sort"}, {"undel"}},
                        k \in BOOLEAN, alt \in {None, "alt.log"}}
=============================================================================
