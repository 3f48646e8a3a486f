\* Buffer bounds and the basename scan of setup_login_shell_command.
CONSTANTS
  Chars <- MCChars
  ShellBuf = 8
  Unset = Unset
SPECIFICATION Spec
INVARIANTS
  NamesFitBuffers
  LoginNameIsBasenameOfPath
\* The function runs once per exec; the model stops after it.
CHECK_DEADLOCK FALSE
