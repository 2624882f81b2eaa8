SPECIFICATION RenderSpec
CONSTANTS
  AREAS <- MCAREAS
  Areas <- MCAreas
  Template <- MCTemplate
  Texts <- MCTexts
  MaxChanges = 2
INVARIANTS RenderTypeOK GreenIsBuiltAsIntended RedHasCause
