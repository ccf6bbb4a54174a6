\* Two requests at a time, each for a script of any kind.
SPECIFICATION Spec
CONSTANTS
  Req = {r1, r2}
  Allowed <- MCAllowed
  Host = Host
  Unset = Unset
INVARIANTS
  RestoresWhenNested
  OwnEnviron
  BuffersNest
  EnvIsWhitelist
  SilenceHasACause
  OnlyLateKidsFail
\* Every request is used up in the end.
CHECK_DEADLOCK FALSE
