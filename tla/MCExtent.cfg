SPECIFICATION FairSpec
CONSTANT N = 4
INVARIANTS ReverseOrder NothingHeldAfter NamesAreHeld
PROPERTIES ImplementsBracket AllSettled
CHECK_DEADLOCK FALSE
