SPECIFICATION UsersSpec
CHECK_DEADLOCK FALSE
CONSTANTS
  Users = {"u", "w"}
  Groups = {"g", "h"}
  Names = {"u", "w"}
  Extras <- SomeExtras
  Home = "absolute"
  FIRST_SYSTEM = 1
  LAST_SYSTEM = 1
  FIRST_USER = 2
  LAST_USER = 3
  UsersTables <- TheTables
  Skeletons <- Skeleta
INVARIANT UserKeepsGroup
