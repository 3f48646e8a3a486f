\* Spec 4.F and S5: the argv[0] the shell fallback execs with.
CONSTANTS
  Chars <- MCChars
  ShellBuf = 8
  Unset = Unset
SPECIFICATION Spec
INVARIANT ArgvZeroMatchesSpec
\* The function runs once per exec; the model stops after it.
CHECK_DEADLOCK FALSE
