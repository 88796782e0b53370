\* Two starts of one daemon and a start in another process, on one new file.
SPECIFICATION Spec
CONSTANTS
  start1 = start1  start2 = start2  other = other
  daemon = daemon  daemon2 = daemon2  process1 = process1  process2 = process2
  Starts = {start1, start2, other}
  Runtime <- MCRuntime
  Process <- MCProcess
  Migrations = 2
  Statements = 2
  None = None
INVARIANTS MigrationsAreAtomic IdentityHasKey RunsAsLocal LoneFailureIsRefusal
CHECK_DEADLOCK FALSE
