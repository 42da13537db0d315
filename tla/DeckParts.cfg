SPECIFICATION Spec
INVARIANTS TypeOK AnswersAreMeant PressesAreMeant DecksAreCurrent SwitchesWhole
PROPERTIES NothingGoesBack
CHECK_DEADLOCK FALSE
