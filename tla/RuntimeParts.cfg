SPECIFICATION Spec
INVARIANTS TypeOK BannersAreTrue AnswersAreOfTheAlert UsageIsToldOnce ConnectionIsHonest UpdateIsHonest DeliveredOnce SetupsAreWhole ConfigIsKept
PROPERTIES NothingUnasked
CHECK_DEADLOCK FALSE
