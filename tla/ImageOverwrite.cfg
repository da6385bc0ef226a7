SPECIFICATION Spec
CONSTANT Container = {c1}
PROPERTY OnlyIncompleteImagesRemoved
