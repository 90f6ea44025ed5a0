\* Categories created with either spelling of the parent.
CONSTANT
    CategoryId = {1, 2}
SPECIFICATION TreeSpec
INVARIANT ParentIsTheOneNamed
CHECK_DEADLOCK FALSE
