SPECIFICATION JournalSpec
CONSTANTS
  User = {ann, bob}
  Writer = {ann}
  Manager = {ann}
  Guest = {bob}
  Key = {all}
  NoKey = NoKey
  MaxEntries = 4
  MaxChanges = 1
INVARIANTS
  NoHiddenReply
CHECK_DEADLOCK FALSE
