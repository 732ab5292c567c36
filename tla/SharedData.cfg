\* Two clients, three keys of one bucket, one of them another's continuation after a NUL
\* byte, and more sets than the counter counts.
SPECIFICATION Spec
CONSTANTS
  c1 = c1  c2 = c2  k1 = k1  k2 = k2  k3 = k3
  Clients <- TwoClients
  Keys <- ThreeKeys
  CString <- OneContinued
  CasModulus = 4
  MaxWrites = 6
SYMMETRY ClientSymmetry
INVARIANTS
  GetSeesLastSet NoLostUpdate

