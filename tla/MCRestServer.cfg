SPECIFICATION Spec
PROPERTY FreedOnlyWhenStopped
