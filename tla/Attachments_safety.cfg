\* Two workers, answers of up to three files, albums of at most two.
SPECIFICATION Spec
CONSTANTS
  Workers = {w1, w2}
  Answers <- FewAnswers
  Mail <- TwoChats
  Deaf = {"voice"}
  GroupMax = 2
  None = None
  MaxJobs = 3
  MaxDeaths = 1
INVARIANTS
  AccountedOnce
  AlbumsAreAcceptable
  FilesHaveUsers
SYMMETRY Symmetry
CHECK_DEADLOCK FALSE
