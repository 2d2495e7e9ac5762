SPECIFICATION Spec
CONSTANTS
  phases = phases
  helper = helper
  top = top
  end = end
  Files = {phases, helper}
  Hunks = {top, end}
  Values = {0, 1, 2}
  Absent = Absent
  Outputs <- MCOutputs
  Makes <- MCMakes
  MaxEntries = 2
  MaxConverts = 2
  MaxMishaps = 1
INVARIANT TypeOK
 
INVARIANT ApprovedIsKept
CHECK_DEADLOCK FALSE
