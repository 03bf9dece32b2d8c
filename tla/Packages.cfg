\* Three packages, one of them with a name others begin with; two uses among
\* the first commits, and a third in the commit pushed last, which is a diamond or a
\* cycle of any length.  A command and two pushes, faults or commands more, in
\* any order.
CONSTANTS
  Pkgs = {a, b, c}
  Junk = junk
  Short = {b}
  Forms = {"plain", "prefixed"}
  Named = {a}
  MaxFirst = 2
  MaxPushed = 1
  MaxEvents = 3
SPECIFICATION Spec
INVARIANTS TypeOK InstalledAndLocked InstalledResolves CodesExact
PROPERTY CommandEnds
\* No command is left to start.
CHECK_DEADLOCK FALSE
