SPECIFICATION FairSpec
CONSTANTS
  modal = modal
  plain = plain
  nested = nested
  Lookups = {modal, plain, nested}
  OnPage = {modal, plain}
  Modal = {modal, nested}
  None = None
  MaxRequests = 5
INVARIANTS TypeOK ChainIsStack AnswersStayHome RewrittenOnce
PROPERTIES ValuesGoHome DialogsAreFilled
