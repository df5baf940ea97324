SPECIFICATION MCSpec
CONSTANTS
  MaxTags = 3
INVARIANTS TypeOK LayoutFollowed
PROPERTIES FollowsTags
CHECK_DEADLOCK FALSE
