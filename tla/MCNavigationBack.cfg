SPECIFICATION NavSpec
CONSTANTS
  list = list
  detail = detail
  form = form
  Pages = {list, detail}
  Home = list
  PostForms = {form}
  NoForm = NoForm
  Top = Top
  MaxNavs = 3
  MaxKeys = 3
  MaxEntries = 3
CHECK_DEADLOCK FALSE
INVARIANTS
  ShownIsLocated
