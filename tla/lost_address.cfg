CONSTANTS
  Scripts = {"precog", "pcog"}
  Given = {{}}
  NoAddress = NoAddress
  Damaged = Damaged
  MaxStarts = 3
SPECIFICATION ScriptSpec
PROPERTIES
  AddressesStay
CHECK_DEADLOCK FALSE
