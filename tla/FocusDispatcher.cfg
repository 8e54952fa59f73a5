SPECIFICATION Spec
CONSTANTS
  a = a
  b = b
  c = c
  None = None
  Objects <- MCObjects
  Order <- MCOrder
  Root <- MCRoot
  Below <- MCBelow
  Hids <- MCHids
  Attachments <- MCAttachments
  Configs <- MCConfigs
INVARIANTS TypeOK LevelsDisjoint ToldBalanced FocusFirst OfferedToAllOnce
PROPERTIES DragKept
CHECK_DEADLOCK FALSE
