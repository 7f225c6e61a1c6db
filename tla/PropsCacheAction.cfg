SPECIFICATION PropsCacheSpec
CONSTANTS
  TabPages = {page1, page2}
  FirstPage = page1
  PropsMax = 1
  MaxAsked = 3
  MaxPosts = 1
CHECK_DEADLOCK FALSE
PROPERTIES
  ShowsWhatItDid
