SPECIFICATION ContextSpec
CONSTANTS
  Processors <- MCProcessors
  Values = {v0, v1, system}
  SystemCr3 = system
INVARIANTS
  EntryNeverRefused
  EptInEffect
  GuestLosesOnlyWaits
  Cr3StaysInGuest
  ContextTypeOK
  ResumeKeepsContext
  LeaveGivesBack
PROPERTIES
  ReadMsrFetchesGuests
