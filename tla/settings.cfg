SPECIFICATION SettingsSpec
CONSTANTS
  pw1 = pw1
  pw2 = pw2
  far1 = far1
  far2 = far2
  Passwords = {pw1, pw2}
  Networks = {net}
  Key = key
  Texts = {text}
  Foreign = {far1, far2}
  Default = default
  Mask = mask
  On = on
  Empty = empty
  MaxPages = 2
SYMMETRY Alternatives
INVARIANTS SettingsTypeOK UneditedComesBack ShowsWhatIsStored
PROPERTIES PasswordKept SavedIsInForce
